-------------------------- MODULE EngineStreamProofs --------------------------
(***************************************************************************)
(* What holds of EngineStream for every plan, buffer size, number of error *)
(* chunks and of diagnostics: one user of the terminal and of the Printer, *)
(* every error chunk on the terminal once, and a report that is the run.   *)
(***************************************************************************)
EXTENDS EngineStream, FiniteSetTheorems, TLAPS

Streams == {"progress", "errors"}

-----------------------------------------------------------------------------
(* One user at a time.                                                      *)

Shape ==
    /\ run \in {"running", "ok", "failed"}
    /\ mu \in Streams \cup {Nobody} /\ muted \in BOOLEAN
    /\ raw \in [Streams -> {"idle", "writing", "buffering"}]
    /\ drain \in {"select", "mute", "handle", "drained"}
    /\ main \in {"run", "wait", "stopping", "finish", "dump", "done"}

(* The mutex is held by the stream that writes, and by nobody once the relay
   is muted; an event is handled behind the mute only; main goes on once run
   has returned, when the raw streams are complete, and prints once the drain
   has ended. *)
Exclusive ==
    /\ \A s \in Streams : raw[s] = "writing" <=> mu = s
    /\ muted => mu = Nobody
    /\ drain = "handle" => muted
    /\ main # "run" => run # "running"
    /\ run # "running" => \A s \in Streams : raw[s] = "idle"
    /\ main \in {"finish", "dump", "done"} => drain = "drained"

Turn == Shape /\ Exclusive

LEMMA NobodyElse == Nobody \notin Streams
BY EngineStreamAssumption DEF Streams

LEMMA TurnInitial == Init => Turn
BY NobodyElse DEF Init, Turn, Shape, Exclusive, Streams

LEMMA TurnStep == ASSUME Turn, [Next]_vars PROVE Turn'
<1> USE NobodyElse DEF Turn, Shape, Exclusive
<1>d. DOMAIN raw = Streams
  OBVIOUS
<1>1. ASSUME NEW r \in Res, StartStep(r) PROVE Turn'
  BY <1>1 DEF StartStep, channelVars, relayVars, drainVars
<1>2. ASSUME NEW r \in Res, NEW sev \in Severities, Diagnose(r, sev) PROVE Turn'
  BY <1>2 DEF Diagnose, channelVars, relayVars, drainVars
<1>3. ASSUME NEW r \in Res, NEW kind \in {"outputs", "failed"}, EndStep(r, kind) PROVE Turn'
  BY <1>3 DEF EndStep, channelVars, relayVars, drainVars
<1>4. ASSUME NEW result \in {"ok", "failed"}, EndRun(result) PROVE Turn'
  BY <1>d, <1>4 DEF EndRun, channelVars, relayVars, drainVars
<1>5. CASE Send \/ Close
  BY <1>5 DEF Send, Close, engineVars, relayVars, drainVars
<1>6. ASSUME NEW s \in Streams, BeginWrite(s) PROVE Turn'
  BY <1>6 DEF BeginWrite, engineVars, channelVars, drainVars, Streams
<1>7. ASSUME NEW s \in Streams, EndWrite(s) PROVE Turn'
  BY <1>7 DEF EndWrite, engineVars, channelVars, drainVars, Streams
<1>8. CASE BufferErrors
  BY <1>8 DEF BufferErrors, engineVars, channelVars, drainVars, Streams
<1>9. CASE Receive
  BY <1>9 DEF Receive, engineVars, relayVars
<1>10. CASE Drained
  BY <1>10 DEF Drained, engineVars, channelVars, relayVars
<1>11. CASE Mute
  BY <1>11 DEF Mute, engineVars, channelVars
<1>12. CASE Handle
  BY <1>12 DEF Handle, engineVars, channelVars, relayVars
<1>13. CASE RunReturns \/ WaitEnds \/ GraceElapses \/ Finish \/ Dump
  BY <1>13 DEF RunReturns, WaitEnds, GraceElapses, Finish, Dump, engineVars, channelVars, relayVars, drainVars
<1>14. CASE UNCHANGED vars
  BY <1>14 DEF vars, engineVars, channelVars, relayVars, drainVars
<1> QED BY <1>d, <1>1, <1>2, <1>3, <1>4, <1>5, <1>6, <1>7, <1>8, <1>9, <1>10, <1>11, <1>12, <1>13, <1>14 DEF Next

LEMMA TurnAlways == Spec => []Turn
BY TurnInitial, TurnStep, PTL DEF Spec

(* At most one of the two raw streams, the drain and main writes to the
   terminal, or uses the Printer, at any time (deploy.go:346-393, 408-446). *)
THEOREM OneWriterAlways == Spec => []OneWriter
<1>1. Turn => OneWriter
  <2>1. SUFFICES ASSUME Turn PROVE \E w : Writers \subseteq {w}
    <3>1. ASSUME NEW w, Writers \subseteq {w} PROVE Cardinality(Writers) <= 1
      <4>1. Cardinality(Writers) <= Cardinality({w})
        BY <3>1, FS_Singleton, FS_Subset
      <4> QED BY <4>1, FS_Singleton, <3>1, FS_Subset, FS_CardinalityType
    <3> QED BY <3>1 DEF OneWriter
  <2>2. CASE drain = "handle"
    <3>1. Writers \subseteq {"drain"}
      BY <2>1, <2>2, NobodyElse DEF Turn, Shape, Exclusive, Writers, Streams
    <3> QED BY <3>1
  <2>3. CASE main \in {"finish", "dump"}
    <3>1. Writers \subseteq {"main"}
      BY <2>1, <2>3 DEF Turn, Shape, Exclusive, Writers, Streams
    <3> QED BY <3>1
  <2>4. CASE drain # "handle" /\ main \notin {"finish", "dump"}
    <3>1. Writers \subseteq {mu}
      BY <2>1, <2>4 DEF Turn, Shape, Exclusive, Writers, Streams
    <3> QED BY <3>1
  <2> QED BY <2>2, <2>3, <2>4
<1> QED BY <1>1, TurnAlways, PTL

-----------------------------------------------------------------------------
(* Every error chunk once.                                                  *)

Count(n) == [i \in 1..n |-> i]

(* relayed counts the chunks on the terminal: all of them until the relay is
   muted; the buffer lags by the chunk being written. *)
Relay ==
    /\ chunks \in Nat /\ relayed \in Nat /\ relayed <= chunks
    /\ raw["errors"] # "idle" => chunks >= 1
    /\ ~muted => relayed = chunks - (IF raw["errors"] = "writing" THEN 1 ELSE 0)
    /\ errBuf = Count(chunks - (IF raw["errors"] = "idle" THEN 0 ELSE 1))
    /\ main # "done" => screen = Count(relayed)
    /\ main = "done" /\ (~muted \/ (run = "failed" /\ printer.failures = <<>>)) => screen = Count(chunks)

LEMMA CountNext == ASSUME NEW n \in Nat PROVE Append(Count(n), n + 1) = Count(n + 1)
BY DEF Count

LEMMA CountNone == Count(0) = <<>>
BY DEF Count

LEMMA CountRest ==
  ASSUME NEW n \in Nat, NEW k \in Nat, k <= n
  PROVE  Count(k) \o SubSeq(Count(n), k + 1, Len(Count(n))) = Count(n)
BY DEF Count

LEMMA RelayInitial == Init => Relay
<1>1. ASSUME Init
      PROVE  /\ chunks = 0 /\ relayed = 0 /\ raw["errors"] = "idle" /\ errBuf = <<>> /\ screen = <<>>
             /\ main = "run" /\ ~muted
  BY <1>1 DEF Init
<1> QED BY <1>1, CountNone DEF Relay

LEMMA RelayStep == ASSUME Turn, Relay, [Next]_vars PROVE Relay'
<1>t. /\ raw \in [Streams -> {"idle", "writing", "buffering"}] /\ DOMAIN raw = Streams
      /\ "errors" \in Streams /\ main \in {"run", "wait", "stopping", "finish", "dump", "done"}
  BY DEF Turn, Shape, Streams
<1>1. CASE /\ UNCHANGED <<raw, muted, chunks, relayed, errBuf, screen>>
           /\ main' = main /\ main # "done"
  BY <1>1 DEF Relay
<1>2. CASE UNCHANGED <<raw, muted, chunks, relayed, errBuf, screen, run, printer, main>>
  BY <1>2 DEF Relay
<1>3. ASSUME run = "running" \/ drain # "drained" PROVE main # "done"
  BY <1>3 DEF Turn, Exclusive
<1>4. ASSUME NEW s \in Streams, BeginWrite(s) PROVE Relay'
  <2>1. /\ run = "running" /\ raw[s] = "idle" /\ mu = Nobody /\ main' = main /\ main # "done"
        /\ chunks' = IF s = "errors" THEN chunks + 1 ELSE chunks
        /\ raw' = [raw EXCEPT ![s] = IF ~muted THEN "writing"
                                     ELSE IF s = "errors" THEN "buffering" ELSE "idle"]
        /\ UNCHANGED <<muted, relayed, errBuf, screen>>
    BY <1>3, <1>4 DEF BeginWrite
  <2> QED BY <1>t, <2>1 DEF Relay, Streams
<1>5. ASSUME NEW s \in Streams, EndWrite(s) PROVE Relay'
  <2>1. ~muted /\ main # "done" /\ main' = main /\ raw[s] = "writing"
        /\ UNCHANGED <<muted, chunks, errBuf>>
        /\ raw' = [raw EXCEPT ![s] = IF s = "errors" THEN "buffering" ELSE "idle"]
    BY <1>3, <1>5, NobodyElse DEF EndWrite, Turn, Exclusive
  <2>2. CASE s = "errors"
    <3>1. screen' = Append(screen, chunks) /\ relayed' = relayed + 1 /\ chunks = relayed + 1 /\ relayed \in Nat
      BY <1>5, <2>1, <2>2 DEF EndWrite, Relay
    <3>2. screen' = Count(relayed')
      BY <2>1, <3>1, CountNext DEF Relay
    <3> QED BY <1>t, <2>1, <2>2, <3>1, <3>2 DEF Relay
  <2>3. CASE s # "errors"
    BY <1>t, <1>5, <2>1, <2>3 DEF Relay, EndWrite
  <2> QED BY <2>2, <2>3
<1>6. CASE BufferErrors
  <2>1. /\ main # "done" /\ main' = main /\ raw["errors"] = "buffering"
        /\ errBuf' = Append(errBuf, chunks) /\ raw' = [raw EXCEPT !["errors"] = "idle"]
        /\ UNCHANGED <<muted, chunks, relayed, screen>>
    <3>1. run = "running"
      BY <1>6, <1>t DEF BufferErrors, Turn, Exclusive
    <3> QED BY <1>3, <1>6, <3>1 DEF BufferErrors
  <2>2. errBuf' = Count(chunks)
    <3>1. chunks - 1 \in Nat /\ errBuf = Count(chunks - 1) /\ (chunks - 1) + 1 = chunks
      BY <2>1 DEF Relay
    <3>2. Append(Count(chunks - 1), chunks) = Count(chunks)
      BY <3>1, CountNext
    <3> QED BY <2>1, <3>1, <3>2
  <2> QED BY <1>t, <2>1, <2>2 DEF Relay
<1>7. CASE Mute
  <2>1. main # "done" /\ main' = main /\ UNCHANGED <<raw, chunks, relayed, errBuf, screen>> /\ muted' = TRUE
    BY <1>3, <1>7 DEF Mute
  <2> QED BY <2>1 DEF Relay
<1>8. CASE Handle \/ Receive \/ Drained
  BY <1>1, <1>3, <1>8 DEF Handle, Receive, Drained, relayVars
<1>9. CASE RunReturns \/ WaitEnds \/ GraceElapses \/ Finish
  BY <1>9 DEF RunReturns, WaitEnds, GraceElapses, Finish, engineVars, relayVars, drainVars, Relay
<1>10. CASE Dump
  <2>1. /\ main = "dump" /\ main' = "done" /\ UNCHANGED <<run, printer, raw, muted, chunks, relayed, errBuf>>
        /\ screen' = IF run = "failed" /\ printer.failures = <<>>
                     THEN screen \o SubSeq(errBuf, relayed + 1, Len(errBuf)) ELSE screen
    BY <1>10 DEF Dump, engineVars, relayVars, drainVars
  <2>2. raw["errors"] = "idle"
    BY <1>t, <2>1 DEF Turn, Exclusive
  <2>3. errBuf = Count(chunks) /\ screen = Count(relayed)
    BY <2>1, <2>2 DEF Relay
  <2>4. screen \o SubSeq(errBuf, relayed + 1, Len(errBuf)) = Count(chunks)
    BY <2>3, CountRest DEF Relay
  <2>5. ~muted => screen = Count(chunks)
    BY <2>2, <2>3 DEF Relay
  <2> QED BY <2>1, <2>4, <2>5 DEF Relay
<1>11. CASE UNCHANGED vars
  BY <1>2, <1>11 DEF vars, engineVars, relayVars, drainVars
<1>12. ASSUME NEW r \in Res, StartStep(r) PROVE Relay'
  BY <1>1, <1>3, <1>12 DEF StartStep, relayVars
<1>13. ASSUME NEW r \in Res, NEW sev \in Severities, Diagnose(r, sev) PROVE Relay'
  BY <1>1, <1>3, <1>13 DEF Diagnose, relayVars
<1>14. ASSUME NEW r \in Res, NEW kind \in {"outputs", "failed"}, EndStep(r, kind) PROVE Relay'
  BY <1>1, <1>3, <1>14 DEF EndStep, relayVars
<1>15. ASSUME NEW result \in {"ok", "failed"}, EndRun(result) PROVE Relay'
  BY <1>1, <1>3, <1>15 DEF EndRun, relayVars
<1>16. CASE Send \/ Close
  BY <1>2, <1>16 DEF Send, Close, engineVars, relayVars, drainVars
<1> QED BY <1>t, <1>4, <1>5, <1>6, <1>7, <1>8, <1>9, <1>10, <1>11, <1>12, <1>13, <1>14, <1>15, <1>16 DEF Next

LEMMA RelayAlways == Spec => []Relay
BY RelayInitial, RelayStep, TurnAlways, PTL DEF Spec

(* Every error chunk reaches the terminal at once until the first event, and
   once, in order, when a run failed without a failed resource, wherever the
   first event cut the relay off (deploy.go:396-446). *)
THEOREM ErrorsShownOnceAlways == Spec => []ErrorsShownOnce
<1>1. Turn /\ Relay => ErrorsShownOnce
  <2>1. SUFFICES ASSUME Turn, Relay PROVE ErrorsShownOnce
    OBVIOUS
  <2>2. ASSUME ~muted PROVE screen = Count(chunks - (IF raw["errors"] = "writing" THEN 1 ELSE 0))
    <3>1. CASE main = "done"
      BY <2>1, <2>2, <3>1 DEF Turn, Exclusive, Relay, Streams
    <3> QED BY <2>1, <2>2, <3>1 DEF Relay
  <2> QED BY <2>1, <2>2 DEF Relay, ErrorsShownOnce, Count
<1> QED BY <1>1, TurnAlways, RelayAlways, PTL

-----------------------------------------------------------------------------
(* The report is the run.                                                   *)

Kinds == {"pre", "diag", "outputs", "failed", "summary"}
Messages == [kind : Kinds, res : Res \cup {Nobody}, sev : Severities \cup {"none"}, msg : Nat]
Proper(e) == e \in Messages /\ (e.kind # "summary" => e.res \in Res)
Events == {e \in Messages : Proper(e)}
Printers == [completed : [Ops -> Nat], failures : Seq([res : Res, msg : Nat]),
             errByURN : [Res -> Nat], destructive : SUBSET Res, summary : BOOLEAN]

(* One more event, seen from the events before it. *)
LEMMA OneMore ==
  ASSUME NEW es \in Seq(Events), NEW e \in Events
  PROVE  /\ Append(es, e) \in Seq(Events) /\ Len(es) \in Nat /\ Len(Append(es, e)) = Len(es) + 1
         /\ DOMAIN es = 1..Len(es) /\ DOMAIN Append(es, e) = DOMAIN es \cup {Len(es) + 1}
         /\ Append(es, e)[Len(es) + 1] = e
         /\ \A i \in DOMAIN es : Append(es, e)[i] = es[i] /\ i <= Len(es) /\ i \in Nat
OBVIOUS

LEMMA LoggedNext ==
  ASSUME NEW es \in Seq(Events), NEW e \in Events, NEW k
  PROVE  Logged(Append(es, e), k) = Logged(es, k) \cup (IF e.kind = k THEN {Len(es) + 1} ELSE {})
BY OneMore DEF Logged

LEMMA ErrorsNext ==
  ASSUME NEW es \in Seq(Events), NEW e \in Events, NEW r
  PROVE  Errors(Append(es, e), r) = Errors(es, r)
            \cup (IF e.kind = "diag" /\ e.sev = "error" /\ e.res = r THEN {Len(es) + 1} ELSE {})
<1>1. \A i \in Logged(es, "diag") : i \in DOMAIN es
  BY DEF Logged
<1> QED BY <1>1, OneMore, LoggedNext DEF Errors

LEMMA Latest == ASSUME NEW S \in SUBSET Nat, NEW m \in S, \A k \in S : k <= m PROVE Max(S) = m
<1>1. \A x \in S : (\A y \in S : x >= y) => x = m
  OBVIOUS
<1>2. \A y \in S : m >= y
  OBVIOUS
<1> QED BY <1>1, <1>2 DEF Max

(* The errors said of a resource have a last one, and it is the one just said
   or the one before it. *)
HasLast(es) == \A r \in Res : Errors(es, r) # {} => \E j \in Errors(es, r) : \A k \in Errors(es, r) : k <= j

LEMMA LastErrorNext ==
  ASSUME NEW es \in Seq(Events), NEW e \in Events, HasLast(es), NEW r \in Res
  PROVE  /\ Errors(Append(es, e), r) # {} =>
              \E j \in Errors(Append(es, e), r) : \A k \in Errors(Append(es, e), r) : k <= j
         /\ LastError(Append(es, e), r) =
              IF e.kind = "diag" /\ e.sev = "error" /\ e.res = r THEN e.msg ELSE LastError(es, r)
<1> DEFINE n == Len(es)
<1>1. \A k \in Errors(es, r) : k \in DOMAIN es /\ k <= n /\ k \in Nat
  BY OneMore DEF Errors, Logged
<1>n. n \in Nat
  BY OneMore
<1>2. CASE e.kind = "diag" /\ e.sev = "error" /\ e.res = r
  <2>1. Errors(Append(es, e), r) = Errors(es, r) \cup {n + 1}
    BY <1>2, ErrorsNext
  <2>2. Errors(Append(es, e), r) \in SUBSET Nat /\ n + 1 \in Errors(Append(es, e), r)
        /\ \A k \in Errors(Append(es, e), r) : k <= n + 1
    BY <1>1, <1>n, <2>1
  <2>3. Max(Errors(Append(es, e), r)) = n + 1
    BY <2>2, Latest
  <2> QED BY <1>2, <2>2, <2>3, OneMore DEF LastError
<1>3. CASE ~(e.kind = "diag" /\ e.sev = "error" /\ e.res = r)
  <2>1. Errors(Append(es, e), r) = Errors(es, r)
    <3>1. Errors(Append(es, e), r) = Errors(es, r) \cup {}
      BY <1>3, ErrorsNext
    <3> QED BY <3>1
  <2>2. ASSUME Errors(es, r) # {} PROVE Append(es, e)[Max(Errors(es, r))] = es[Max(Errors(es, r))]
    <3>1. PICK j \in Errors(es, r) : \A k \in Errors(es, r) : k <= j
      BY <2>2 DEF HasLast
    <3>2. Max(Errors(es, r)) = j /\ j \in DOMAIN es
      BY <1>1, <3>1, Latest
    <3> QED BY <3>2, OneMore
  <2> QED BY <1>3, <2>1, <2>2 DEF LastError, HasLast
<1> QED BY <1>2, <1>3

(* Counting the positions of a sequence of events that satisfy something. *)
LEMMA OnePlace ==
  ASSUME NEW n \in Nat, NEW S \in SUBSET (1..n)
  PROVE  /\ IsFiniteSet(S) /\ Cardinality(S) \in Nat
         /\ Cardinality(S \cup {n + 1}) = Cardinality(S) + 1
<1>1. IsFiniteSet(S)
  <2>1. IsFiniteSet(1..n)
    BY FS_Interval
  <2> QED BY <2>1, FS_Subset
<1>2. n + 1 \notin S
  OBVIOUS
<1> QED BY <1>1, <1>2, FS_AddElement, FS_CardinalityType

(* What the Printer keeps grows with every event into the report of one more. *)
LEMMA CompletedNext ==
  ASSUME NEW es \in Seq(Events), NEW e \in Events, NEW o \in Ops
  PROVE  Cardinality(Completed(Append(es, e), o)) = Cardinality(Completed(es, o))
            + (IF e.kind = "outputs" /\ ~Silent(e.res) /\ OpOf[e.res] = o THEN 1 ELSE 0)
<1>1. Completed(Append(es, e), o) = Completed(es, o)
        \cup (IF e.kind = "outputs" /\ ~Silent(e.res) /\ OpOf[e.res] = o THEN {Len(es) + 1} ELSE {})
  <2>1. \A i \in Logged(es, "outputs") : i \in DOMAIN es
    BY DEF Logged
  <2> QED BY <2>1, OneMore, LoggedNext DEF Completed
<1>2. Completed(es, o) \in SUBSET (1..Len(es)) /\ Len(es) \in Nat
  BY OneMore DEF Completed, Logged
<1>3. Cardinality(Completed(es, o)) \in Nat
      /\ Cardinality(Completed(es, o) \cup {Len(es) + 1}) = Cardinality(Completed(es, o)) + 1
  BY <1>2, OnePlace
<1>4. CASE e.kind = "outputs" /\ ~Silent(e.res) /\ OpOf[e.res] = o
  BY <1>1, <1>3, <1>4
<1>5. CASE ~(e.kind = "outputs" /\ ~Silent(e.res) /\ OpOf[e.res] = o)
  <2>1. Completed(Append(es, e), o) = Completed(es, o)
    <3>1. Completed(Append(es, e), o) = Completed(es, o) \cup {}
      BY <1>1, <1>5
    <3> QED BY <3>1
  <2> QED BY <1>3, <1>5, <2>1
<1> QED BY <1>4, <1>5

LEMMA FailedNext ==
  ASSUME NEW es \in Seq(Events), NEW e \in Events
  PROVE  /\ Failed(es) \in SUBSET (1..Len(es))
         /\ Failed(Append(es, e)) = Failed(es)
              \cup (IF e.kind = "failed" /\ e.res \notin System THEN {Len(es) + 1} ELSE {})
<1>1. \A i \in Logged(es, "failed") : i \in DOMAIN es
  BY DEF Logged
<1> QED BY <1>1, OneMore, LoggedNext DEF Failed

(* What the Printer makes of one more event is the report of one more. *)
LEMMA ReportNext ==
  ASSUME NEW es \in Seq(Events), NEW e \in Events, HasLast(es), NEW p \in Printers,
         IsReport(p, es), \A r \in Res : p.errByURN[r] = LastError(es, r)
  PROVE  /\ Recorded(p, e) \in Printers
         /\ IsReport(Recorded(p, e), Append(es, e))
         /\ \A r \in Res : Recorded(p, e).errByURN[r] = LastError(Append(es, e), r)
         /\ HasLast(Append(es, e))
<1> DEFINE q == Recorded(p, e)
           more == Append(es, e)
<1>e. e.kind \in Kinds /\ (e.kind # "summary" => e.res \in Res /\ OpOf[e.res] \in Ops) /\ e.msg \in Nat
  BY EngineStreamAssumption DEF Events, Proper, Messages
<1>p. /\ p.completed \in [Ops -> Nat] /\ p.failures \in Seq([res : Res, msg : Nat])
      /\ p.errByURN \in [Res -> Nat] /\ p.destructive \in SUBSET Res /\ p.summary \in BOOLEAN
  BY DEF Printers
<1>1. /\ q.completed = IF e.kind = "outputs" /\ ~Silent(e.res)
                       THEN [p.completed EXCEPT ![OpOf[e.res]] = @ + 1] ELSE p.completed
      /\ q.failures = IF e.kind = "failed" /\ e.res \notin System
                      THEN Append(p.failures, [res |-> e.res, msg |-> p.errByURN[e.res]]) ELSE p.failures
      /\ q.errByURN = IF e.kind = "diag" /\ e.sev = "error"
                      THEN [p.errByURN EXCEPT ![e.res] = e.msg] ELSE p.errByURN
      /\ q.destructive = IF e.kind = "pre" /\ Destroys(e.res) THEN p.destructive \cup {e.res} ELSE p.destructive
      /\ q.summary = (IF e.kind = "summary" THEN TRUE ELSE p.summary)
      /\ q = [completed |-> q.completed, failures |-> q.failures, errByURN |-> q.errByURN,
              destructive |-> q.destructive, summary |-> q.summary]
  <2>1. CASE e.kind = "pre"
    BY <2>1 DEF Recorded, Printers
  <2>2. CASE e.kind = "outputs"
    BY <2>2 DEF Recorded, Printers
  <2>3. CASE e.kind = "failed"
    BY <2>3 DEF Recorded, Printers
  <2>4. CASE e.kind = "diag"
    BY <2>4 DEF Recorded, Printers
  <2>5. CASE e.kind = "summary"
    BY <2>5 DEF Recorded, Printers
  <2> QED BY <1>e, <2>1, <2>2, <2>3, <2>4, <2>5 DEF Kinds
<1> HIDE DEF q
<1>2. q \in Printers
  <2>1. q.completed \in [Ops -> Nat]
    BY <1>1, <1>e, <1>p
  <2>2. q.failures \in Seq([res : Res, msg : Nat])
    <3>1. CASE e.kind = "failed"
      <4>1. [res |-> e.res, msg |-> p.errByURN[e.res]] \in [res : Res, msg : Nat]
        BY <1>e, <1>p, <3>1
      <4>2. Append(p.failures, [res |-> e.res, msg |-> p.errByURN[e.res]]) \in Seq([res : Res, msg : Nat])
        BY <1>p, <4>1
      <4> QED BY <1>1, <1>p, <4>2
    <3>2. CASE e.kind # "failed"
      BY <1>1, <1>p, <3>2
    <3> QED BY <3>1, <3>2
  <2>3. q.errByURN \in [Res -> Nat]
    BY <1>1, <1>e, <1>p
  <2>4. q.destructive \in SUBSET Res
    BY <1>1, <1>e, <1>p
  <2>5. q.summary \in BOOLEAN
    BY <1>1, <1>p
  <2> QED BY <1>1, <2>1, <2>2, <2>3, <2>4, <2>5 DEF Printers
<1>3. \A r \in Res : q.errByURN[r] = LastError(more, r)
  BY <1>1, <1>p, LastErrorNext
<1>4. HasLast(more)
  BY LastErrorNext DEF HasLast
<1>5. \A o \in Ops \ {"same"} : q.completed[o] = Cardinality(Completed(more, o))
  <2>1. SUFFICES ASSUME NEW o \in Ops \ {"same"} PROVE q.completed[o] = Cardinality(Completed(more, o))
    OBVIOUS
  <2>2. p.completed[o] = Cardinality(Completed(es, o)) /\ p.completed[o] \in Nat
    BY <1>p DEF IsReport
  <2>3. q.completed[o] = p.completed[o] + (IF e.kind = "outputs" /\ ~Silent(e.res) /\ OpOf[e.res] = o THEN 1 ELSE 0)
    BY <1>1, <1>e, <1>p, <2>2
  <2> QED BY <2>2, <2>3, CompletedNext
<1>6. q.destructive = {more[i].res : i \in {j \in Logged(more, "pre") : Destroys(more[j].res)}}
  <2>1. \A i \in Logged(es, "pre") : i \in DOMAIN es
    BY DEF Logged
  <2>2. p.destructive = {es[i].res : i \in {j \in Logged(es, "pre") : Destroys(es[j].res)}}
    BY DEF IsReport
  <2>3. Logged(more, "pre") = Logged(es, "pre") \cup (IF e.kind = "pre" THEN {Len(es) + 1} ELSE {})
    BY LoggedNext
  <2> QED BY <1>1, <2>1, <2>2, <2>3, OneMore
<1>7. /\ Len(q.failures) = Cardinality(Failed(more))
      /\ \A i \in Failed(more) : q.failures[Cardinality({j \in Failed(more) : j <= i})] =
           [res |-> more[i].res, msg |-> LastError(SubSeq(more, 1, i), more[i].res)]
  <2>f. /\ Failed(es) \in SUBSET (1..Len(es)) /\ Len(es) \in Nat
        /\ IsFiniteSet(Failed(es)) /\ Cardinality(Failed(es)) \in Nat
        /\ Cardinality(Failed(es) \cup {Len(es) + 1}) = Cardinality(Failed(es)) + 1
    BY OneMore, FailedNext, OnePlace
  <2>g. Len(p.failures) = Cardinality(Failed(es))
    BY DEF IsReport
  <2>1. ASSUME NEW i \in Failed(es)
        PROVE  /\ {j \in Failed(more) : j <= i} = {j \in Failed(es) : j <= i}
               /\ p.failures[Cardinality({j \in Failed(es) : j <= i})] =
                    [res |-> more[i].res, msg |-> LastError(SubSeq(more, 1, i), more[i].res)]
               /\ Cardinality({j \in Failed(es) : j <= i}) \in 1..Len(p.failures)
    <3>1. {j \in Failed(more) : j <= i} = {j \in Failed(es) : j <= i}
      BY <2>f, FailedNext
    <3>2. more[i] = es[i] /\ SubSeq(more, 1, i) = SubSeq(es, 1, i)
      BY <2>f, OneMore
    <3>3. p.failures[Cardinality({j \in Failed(es) : j <= i})] =
             [res |-> es[i].res, msg |-> LastError(SubSeq(es, 1, i), es[i].res)]
      BY DEF IsReport
    <3>4. Cardinality({j \in Failed(es) : j <= i}) \in 1..Len(p.failures)
      <4>1. {j \in Failed(es) : j <= i} \in SUBSET Failed(es) /\ {i} \in SUBSET {j \in Failed(es) : j <= i}
        BY <2>f
      <4>2. IsFiniteSet({j \in Failed(es) : j <= i})
            /\ Cardinality({j \in Failed(es) : j <= i}) <= Cardinality(Failed(es))
        BY <2>f, <4>1, FS_Subset
      <4>3. Cardinality({i}) <= Cardinality({j \in Failed(es) : j <= i})
        BY <4>1, <4>2, FS_Subset
      <4>4. Cardinality({i}) = 1 /\ Cardinality({j \in Failed(es) : j <= i}) \in Nat
        BY <4>2, FS_Singleton, FS_CardinalityType
      <4> QED BY <2>f, <2>g, <4>2, <4>3, <4>4
    <3> QED BY <3>1, <3>2, <3>3, <3>4
  <2>2. CASE e.kind = "failed" /\ e.res \notin System
    <3>1. Failed(more) = Failed(es) \cup {Len(es) + 1}
      BY <2>2, FailedNext
    <3>2. q.failures = Append(p.failures, [res |-> e.res, msg |-> LastError(es, e.res)])
      BY <1>1, <1>e, <2>2
    <3>3. Len(q.failures) = Cardinality(Failed(more)) /\ Len(q.failures) = Len(p.failures) + 1
      BY <1>p, <2>f, <2>g, <3>1, <3>2
    <3>4. ASSUME NEW i \in Failed(es)
          PROVE  q.failures[Cardinality({j \in Failed(more) : j <= i})] =
                    [res |-> more[i].res, msg |-> LastError(SubSeq(more, 1, i), more[i].res)]
      <4>1. \A k \in 1..Len(p.failures) : q.failures[k] = p.failures[k]
        BY <1>p, <3>2
      <4> QED BY <2>1, <4>1
    <3>5. q.failures[Cardinality({j \in Failed(more) : j <= Len(es) + 1})] =
             [res |-> more[Len(es) + 1].res, msg |-> LastError(SubSeq(more, 1, Len(es) + 1), more[Len(es) + 1].res)]
      <4>1. {j \in Failed(more) : j <= Len(es) + 1} = Failed(more)
        BY <2>f, <3>1
      <4>2. more[Len(es) + 1] = e /\ SubSeq(more, 1, Len(es) + 1) = more
        BY OneMore
      <4>3. LastError(more, e.res) = LastError(es, e.res)
        BY <1>e, <2>2, LastErrorNext
      <4>4. q.failures[Len(p.failures) + 1] = [res |-> e.res, msg |-> LastError(es, e.res)]
        BY <1>p, <3>2
      <4> QED BY <3>3, <4>1, <4>2, <4>3, <4>4
    <3> QED BY <3>1, <3>3, <3>4, <3>5
  <2>3. CASE ~(e.kind = "failed" /\ e.res \notin System)
    <3>1. Failed(more) = Failed(es) /\ q.failures = p.failures
      <4>1. Failed(more) = Failed(es) \cup {}
        BY <2>3, FailedNext
      <4> QED BY <1>1, <2>3, <4>1
    <3> QED BY <2>1, <2>g, <3>1
  <2> QED BY <2>2, <2>3
<1> QED BY <1>2, <1>3, <1>4, <1>5, <1>6, <1>7 DEF IsReport, q

-----------------------------------------------------------------------------
(* From the engine to the Printer: the channel holds the part of the log that *)
(* has been sent and not received, the drain holds the event after it.        *)

Arrived == tail - Len(channel)
Handled == IF drain \in {"mute", "handle"} THEN Arrived - 1 ELSE Arrived

Progress == [stage : {"planned", "started", "outputs", "failed"}, diags : Nat]

Pipeline ==
    /\ log \in Seq(Events) /\ channel \in Seq(Events)
    /\ work \in [Res -> Progress]
    /\ tail \in 0..Len(log) /\ Len(channel) <= tail
    /\ \A i \in 1..Len(channel) : channel[i] = log[Arrived + i]
    /\ drain \in {"mute", "handle"} => Arrived > 0 /\ event = log[Arrived]
    /\ closed => run # "running" /\ tail = Len(log)
    /\ drain = "drained" => stop \/ (closed /\ channel = <<>>)

Reported ==
    LET es == SubSeq(log, 1, Handled)
    IN  /\ printer \in Printers /\ HasLast(es) /\ IsReport(printer, es)
        /\ \A r \in Res : printer.errByURN[r] = LastError(es, r)

LEMMA Grown ==
  ASSUME NEW es \in Seq(Events), NEW e \in Events, NEW n \in 0..Len(es)
  PROVE  SubSeq(Append(es, e), 1, n) = SubSeq(es, 1, n)
OBVIOUS

LEMMA OneFurther ==
  ASSUME NEW es \in Seq(Events), NEW n \in Nat, n < Len(es)
  PROVE  /\ SubSeq(es, 1, n) \in Seq(Events) /\ es[n + 1] \in Events
         /\ SubSeq(es, 1, n + 1) = Append(SubSeq(es, 1, n), es[n + 1])
OBVIOUS

LEMMA PipelineInitial == Init => Pipeline /\ Reported
<1> SUFFICES ASSUME Init PROVE Pipeline /\ Reported
  OBVIOUS
<1>1. Pipeline
  BY DEF Init, Pipeline, Progress, Arrived
<1>2. SubSeq(log, 1, Handled) = <<>>
  BY DEF Init, Handled, Arrived
<1>3. \A k : Logged(<<>>, k) = {}
  BY DEF Logged
<1>4. \A r : Errors(<<>>, r) = {}
  BY <1>3 DEF Errors
<1>5. printer \in Printers
  BY DEF Init, NewPrinter, Printers
<1>6. IsReport(printer, <<>>)
  <2>1. Failed(<<>>) = {} /\ \A o : Completed(<<>>, o) = {}
    BY <1>3 DEF Failed, Completed
  <2>2. printer.completed = [o \in Ops |-> 0] /\ printer.failures = <<>> /\ printer.destructive = {}
    BY DEF Init, NewPrinter
  <2> QED BY <1>3, <2>1, <2>2, FS_EmptySet DEF IsReport
<1>7. \A r \in Res : printer.errByURN[r] = LastError(<<>>, r)
  BY <1>4 DEF Init, NewPrinter, LastError
<1> QED BY <1>1, <1>2, <1>4, <1>5, <1>6, <1>7 DEF Reported, HasLast

(* An event is added to the log while the engine runs. *)
LEMMA ProduceStep ==
  ASSUME Turn, Pipeline, Reported, NEW e \in Events, Produce(e), run = "running",
         UNCHANGED <<channelVars, drainVars, stop>>, work' \in [Res -> Progress]
  PROVE  Pipeline' /\ Reported'
<1>1. /\ log' = Append(log, e) /\ log \in Seq(Events) /\ log' \in Seq(Events)
      /\ Len(log') = Len(log) + 1 /\ Len(log) \in Nat
      /\ \A i \in 1..Len(log) : log'[i] = log[i]
  BY DEF Produce, Pipeline
<1>2. UNCHANGED <<tail, channel, closed, drain, event, printer, stop>> /\ ~closed
      /\ Arrived' = Arrived /\ Handled' = Handled
  BY DEF channelVars, drainVars, Pipeline, Arrived, Handled
<1>3. Arrived \in 0..Len(log) /\ Handled \in 0..Len(log) /\ Len(channel) \in Nat
  BY DEF Pipeline, Arrived, Handled
<1>4. ASSUME NEW i \in 1..Len(channel) PROVE log'[Arrived + i] = log[Arrived + i]
  <2>1. Arrived + i \in 1..Len(log)
    BY <1>3 DEF Pipeline, Arrived
  <2> QED BY <1>1, <2>1
<1>5. drain \in {"mute", "handle"} => log'[Arrived] = log[Arrived]
  BY <1>1, <1>3 DEF Pipeline
<1>6. Pipeline'
  <2>1. tail' \in 0..Len(log') /\ channel' \in Seq(Events) /\ Len(channel') <= tail'
    BY <1>1, <1>2 DEF Pipeline
  <2>2. \A i \in 1..Len(channel') : channel'[i] = log'[Arrived' + i]
    BY <1>2, <1>4 DEF Pipeline
  <2>3. drain' \in {"mute", "handle"} => Arrived' > 0 /\ event' = log'[Arrived']
    BY <1>2, <1>5 DEF Pipeline
  <2>4. drain' = "drained" => stop' \/ (closed' /\ channel' = <<>>)
    BY <1>2 DEF Pipeline
  <2> QED BY <1>1, <1>2, <2>1, <2>2, <2>3, <2>4 DEF Pipeline
<1>7. SubSeq(log', 1, Handled') = SubSeq(log, 1, Handled)
  BY <1>1, <1>2, <1>3, Grown
<1> QED BY <1>2, <1>6, <1>7 DEF Reported

LEMMA PipelineStep ==
  ASSUME Turn, Pipeline, Reported, [Next]_vars
  PROVE  Pipeline' /\ Reported'
<1>t. /\ log \in Seq(Events) /\ channel \in Seq(Events) /\ Len(log) \in Nat /\ Len(channel) \in Nat
      /\ tail \in 0..Len(log) /\ Arrived \in 0..Len(log) /\ Handled \in 0..Len(log)
  BY DEF Pipeline, Arrived, Handled
<1>1. CASE UNCHANGED <<log, work, channelVars, drainVars, stop>> /\ (run # "running" => run' # "running")
  BY <1>1 DEF channelVars, drainVars, Pipeline, Reported, Arrived, Handled
<1>w. \A r \in Res : work[r] \in Progress
  BY DEF Pipeline
<1>2. ASSUME NEW r \in Res, StartStep(r) PROVE Pipeline' /\ Reported'
  <2>1. Event("pre", r, "none", 0) \in Events
    BY DEF Event, Events, Messages, Proper, Kinds
  <2>2. work' \in [Res -> Progress]
    BY <1>2, <1>w DEF StartStep, Pipeline, Progress
  <2> QED BY <1>2, <2>1, <2>2, ProduceStep DEF StartStep
<1>3. ASSUME NEW r \in Res, NEW sev \in Severities, Diagnose(r, sev) PROVE Pipeline' /\ Reported'
  <2>1. Event("diag", r, sev, work[r].diags + 1) \in Events
    BY <1>w DEF Event, Events, Messages, Proper, Kinds, Progress
  <2>2. work' \in [Res -> Progress]
    BY <1>3, <1>w DEF Diagnose, Pipeline, Progress
  <2> QED BY <1>3, <2>1, <2>2, ProduceStep DEF Diagnose
<1>4. ASSUME NEW r \in Res, NEW kind \in {"outputs", "failed"}, EndStep(r, kind) PROVE Pipeline' /\ Reported'
  <2>1. Event(kind, r, "none", 0) \in Events
    BY DEF Event, Events, Messages, Proper, Kinds
  <2>2. work' \in [Res -> Progress]
    BY <1>4, <1>w DEF EndStep, Pipeline, Progress
  <2> QED BY <1>4, <2>1, <2>2, ProduceStep DEF EndStep
<1>5. ASSUME NEW result \in {"ok", "failed"}, EndRun(result) PROVE Pipeline' /\ Reported'
  <2>1. Event("summary", Nobody, "none", 0) \in Events
    BY DEF Event, Events, Messages, Proper, Kinds
  <2>2. work' \in [Res -> Progress] /\ run = "running"
        /\ UNCHANGED <<channelVars, drainVars, stop>>
    BY <1>5 DEF EndRun, Pipeline
  <2>3. CASE Produce(Event("summary", Nobody, "none", 0))
    BY <2>1, <2>2, <2>3, ProduceStep
  <2>4. CASE UNCHANGED log
    BY <1>1, <1>5, <2>4 DEF EndRun
  <2> QED BY <1>5, <2>3, <2>4 DEF EndRun
<1>6. CASE Send
  <2>1. /\ channel' = Append(channel, log[tail + 1]) /\ tail' = tail + 1 /\ tail < Len(log)
        /\ UNCHANGED <<log, work, run, closed, drain, event, printer, stop>>
    BY <1>6 DEF Send, engineVars, drainVars
  <2>2. /\ log[tail + 1] \in Events /\ channel' \in Seq(Events) /\ Len(channel') = Len(channel) + 1
        /\ channel'[Len(channel) + 1] = log[tail + 1]
        /\ \A i \in 1..Len(channel) : channel'[i] = channel[i]
    BY <1>t, <2>1
  <2>3. Arrived' = Arrived /\ Handled' = Handled
    BY <1>t, <2>1, <2>2 DEF Arrived, Handled
  <2>4. \A i \in 1..Len(channel') : channel'[i] = log'[Arrived' + i]
    <3>1. ASSUME NEW i \in 1..Len(channel') PROVE channel'[i] = log[Arrived + i]
      <4>1. CASE i = Len(channel) + 1
        BY <1>t, <2>2, <4>1 DEF Arrived
      <4>2. CASE i \in 1..Len(channel)
        BY <2>2, <4>2 DEF Pipeline
      <4> QED BY <1>t, <2>2, <4>1, <4>2
    <3> QED BY <2>1, <2>3, <3>1
  <2>5. ~closed /\ (drain = "drained" => stop)
    BY <1>t, <2>1 DEF Pipeline
  <2>6. tail' \in 0..Len(log) /\ Len(channel') <= tail'
    BY <1>t, <2>1, <2>2 DEF Pipeline
  <2>7. Pipeline'
    BY <2>1, <2>2, <2>3, <2>4, <2>5, <2>6 DEF Pipeline
  <2> QED BY <2>1, <2>3, <2>7 DEF Reported
<1>7. CASE Close
  <2>1. closed' = TRUE /\ run # "running" /\ tail = Len(log)
        /\ UNCHANGED <<log, work, run, tail, channel, drain, event, printer, stop>>
    BY <1>7 DEF Close, engineVars, drainVars
  <2> QED BY <2>1 DEF Pipeline, Reported, Arrived, Handled
<1>8. CASE Receive
  <2>1. /\ drain = "select" /\ drain' = "mute" /\ channel # <<>>
        /\ event' = Head(channel) /\ channel' = Tail(channel)
        /\ UNCHANGED <<log, work, run, tail, closed, printer, stop>>
    BY <1>8 DEF Receive, engineVars
  <2>2. /\ Len(channel) > 0 /\ Head(channel) = channel[1] /\ channel' \in Seq(Events)
        /\ Len(channel') = Len(channel) - 1
        /\ \A i \in 1..Len(channel') : channel'[i] = channel[i + 1]
    BY <1>t, <2>1
  <2>3. Arrived' = Arrived + 1 /\ Handled' = Handled
    BY <1>t, <2>1, <2>2 DEF Arrived, Handled
  <2>4. \A i \in 1..Len(channel') : channel'[i] = log'[Arrived' + i]
    <3>1. ASSUME NEW i \in 1..Len(channel') PROVE channel'[i] = log[(Arrived + 1) + i]
      <4>1. i + 1 \in 1..Len(channel) /\ Arrived + (i + 1) = (Arrived + 1) + i
        BY <1>t, <2>2
      <4> QED BY <2>2, <4>1 DEF Pipeline
    <3> QED BY <2>1, <2>3, <3>1
  <2>5. event' = log'[Arrived'] /\ Arrived' > 0
    <3>1. 1 \in 1..Len(channel)
      BY <1>t, <2>2
    <3> QED BY <1>t, <2>1, <2>2, <2>3, <3>1 DEF Pipeline
  <2>6. Len(channel') <= tail'
    BY <1>t, <2>1, <2>2 DEF Pipeline
  <2>7. Pipeline'
    BY <1>t, <2>1, <2>2, <2>4, <2>5, <2>6 DEF Pipeline
  <2> QED BY <2>1, <2>3, <2>7 DEF Reported
<1>9. CASE Drained
  BY <1>9 DEF Drained, engineVars, channelVars, Pipeline, Reported, Arrived, Handled
<1>10. CASE Mute
  BY <1>10 DEF Mute, engineVars, channelVars, Pipeline, Reported, Arrived, Handled
<1>11. CASE Handle
  <2>1. /\ drain = "handle" /\ drain' = "select" /\ printer' = Recorded(printer, event)
        /\ UNCHANGED <<log, work, run, tail, channel, closed, stop>>
    BY <1>11 DEF Handle, engineVars, channelVars
  <2>2. /\ Arrived' = Arrived /\ Handled' = Handled + 1 /\ Arrived = Handled + 1 /\ Handled \in Nat
        /\ Handled < Len(log) /\ event = log[Handled + 1]
    BY <1>t, <2>1 DEF Arrived, Handled, Pipeline
  <2>3. Pipeline'
    BY <1>t, <2>1, <2>2 DEF Pipeline
  <2> DEFINE es == SubSeq(log, 1, Handled)
  <2>4. es \in Seq(Events) /\ event \in Events /\ SubSeq(log', 1, Handled') = Append(es, event)
    BY <1>t, <2>1, <2>2, OneFurther
  <2>5. printer \in Printers /\ HasLast(es) /\ IsReport(printer, es)
        /\ \A r \in Res : printer.errByURN[r] = LastError(es, r)
    BY DEF Reported
  <2>6. /\ printer' \in Printers /\ IsReport(printer', Append(es, event)) /\ HasLast(Append(es, event))
        /\ \A r \in Res : printer'.errByURN[r] = LastError(Append(es, event), r)
    BY <2>1, <2>4, <2>5, ReportNext
  <2> QED BY <2>3, <2>4, <2>6 DEF Reported
<1>12. CASE RunReturns \/ WaitEnds \/ Finish \/ Dump
  BY <1>1, <1>12 DEF RunReturns, WaitEnds, Finish, Dump, engineVars
<1>13. CASE GraceElapses
  BY <1>13 DEF GraceElapses, engineVars, channelVars, drainVars, Pipeline, Reported, Arrived, Handled
<1>14. ASSUME NEW s \in DOMAIN raw, BeginWrite(s) \/ EndWrite(s) PROVE Pipeline' /\ Reported'
  BY <1>1, <1>14 DEF BeginWrite, EndWrite, engineVars
<1>15. CASE BufferErrors \/ UNCHANGED vars
  BY <1>1, <1>15 DEF BufferErrors, vars, engineVars
<1> QED BY <1>2, <1>3, <1>4, <1>5, <1>6, <1>7, <1>8, <1>9, <1>10, <1>11, <1>12, <1>13, <1>14, <1>15 DEF Next

(* Unless the grace cut the drain short, the report main prints is the report
   of every event the engine produced, in whatever order the goroutines ran
   (deploy.go:346-393, output/stream.go:94-163). *)
THEOREM ReportIsTheRunAlways == Spec => []ReportIsTheRun
<1>1. Init => Pipeline /\ Reported
  BY PipelineInitial
<1>2. Turn /\ Pipeline /\ Reported /\ [Next]_vars => (Pipeline /\ Reported)'
  BY PipelineStep
<1>3. Turn /\ Pipeline /\ Reported => ReportIsTheRun
  <2>1. SUFFICES ASSUME Turn, Pipeline, Reported, main = "done", ~stop PROVE IsReport(printer, log)
    BY DEF ReportIsTheRun
  <2>2. drain = "drained"
    BY <2>1 DEF Turn, Exclusive
  <2>3. closed /\ channel = <<>> /\ tail = Len(log) /\ log \in Seq(Events)
    BY <2>1, <2>2 DEF Pipeline
  <2>4. Handled = Len(log)
    BY <2>2, <2>3 DEF Handled, Arrived
  <2>5. SubSeq(log, 1, Handled) = log
    BY <2>3, <2>4
  <2> QED BY <2>1, <2>5 DEF Reported
<1> QED BY <1>1, <1>2, <1>3, TurnAlways, PTL DEF Spec
=============================================================================
