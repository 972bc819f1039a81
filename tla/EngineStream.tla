---------------------------- MODULE EngineStream ----------------------------
(***************************************************************************)
(* What a deploy prints while the engine runs: streamEngineRun of          *)
(* src/cmd/inforge/deploy.go and the Printer of src/internal/output.       *)
(*                                                                         *)
(* Five goroutines meet here. The engine's two raw streams (progress and   *)
(* errors) are relayed to the terminal until the first event, under the    *)
(* relay's mutex; a tailer sends the engine's events into a bounded        *)
(* channel; the drain hands them to the Printer; and main waits for the    *)
(* drain, for a grace only, before it prints the summary and dumps the     *)
(* error bytes nobody has shown. The engine itself is external: it works   *)
(* on Res in any order, may fail on each, and may die before its event     *)
(* stream starts, in which case the channel is never closed.               *)
(*                                                                         *)
(* An error chunk is its number; an event is a record. Layout, colours and *)
(* wording are left out.                                                   *)
(***************************************************************************)
EXTENDS Integers, Sequences, FiniteSets, FiniteSetsExt

CONSTANTS Res,          \* the resources the run works on
          System,       \* those of Res that are Pulumi's own (stack, providers)
          OpOf,         \* the operation planned for each resource
          Routine,      \* those of Res whose replacement destroys nothing (suppressOnReplace)
          Harmless,     \* those of Res whose deletion destroys nothing on a host either
          BufSize,      \* eventBufSize (128 in the code)
          MaxChunks,    \* bound: writes to the engine's error stream
          MaxDiags,     \* bound: diagnostics per resource
          Nobody

Ops == {"same", "create", "delete", "delete-replaced"}
Severities == {"error", "warning"}

ASSUME EngineStreamAssumption ==
    /\ System \subseteq Res /\ Routine \subseteq Res /\ Harmless \subseteq Res
    /\ OpOf \in [Res -> Ops]
    /\ BufSize \in Nat \ {0} /\ MaxChunks \in Nat /\ MaxDiags \in Nat
    /\ Nobody \notin {"progress", "errors", "drain"}

VARIABLES
    run,        \* "running", then "ok" or "failed": what run returned
    work,       \* [Res -> how far the engine is with a resource]
    log,        \* every event the engine has produced, in order
    tail,       \* how many of log are in the channel's past: the tailer's position
    channel,    \* the event channel
    closed,     \* whether it was closed
    mu,         \* who holds the relay's mutex
    muted,      \* preludeRelay.muted
    raw,        \* what each raw stream's goroutine is doing
    chunks,     \* error chunks written by the engine, complete or not
    relayed,    \* preludeBranch.n of the error branch
    errBuf,     \* the error buffer
    screen,     \* the error chunks on the terminal, in order
    drain,      \* "select", "mute", "handle" or "drained"
    event,      \* the event the drain holds
    stop,       \* the stop channel is closed: the grace has elapsed
    printer,    \* what the Printer has recorded
    main        \* "run", "wait", "stopping", "finish", "dump" or "done"

engineVars == <<run, work, log>>
channelVars == <<tail, channel, closed>>
relayVars == <<mu, muted, raw, chunks, relayed, errBuf>>
drainVars == <<drain, event, printer>>
vars == <<engineVars, channelVars, relayVars, screen, drainVars, stop, main>>

Event(kind, r, sev, msg) == [kind |-> kind, res |-> r, sev |-> sev, msg |-> msg]
NoEvent == [kind |-> "none"]

NewPrinter == [completed |-> [o \in Ops |-> 0],
               failures |-> <<>>,
               errByURN |-> [r \in Res |-> 0],
               destructive |-> {},
               summary |-> FALSE]

Init ==
    /\ run = "running" /\ work = [r \in Res |-> [stage |-> "planned", diags |-> 0]]
    /\ log = <<>> /\ tail = 0 /\ channel = <<>> /\ closed = FALSE
    /\ mu = Nobody /\ muted = FALSE
    /\ raw = [s \in {"progress", "errors"} |-> "idle"]
    /\ chunks = 0 /\ relayed = 0 /\ errBuf = <<>> /\ screen = <<>>
    /\ drain = "select" /\ event = NoEvent /\ stop = FALSE
    /\ printer = NewPrinter /\ main = "run"

----------------------------------------------------------------------------
(* The engine (external).                                                  *)

Produce(e) == log' = Append(log, e)

(* A resource's step starts: ResourcePreEvent.                             *)
StartStep(r) ==
    /\ run = "running" /\ work[r].stage = "planned"
    /\ work' = [work EXCEPT ![r].stage = "started"]
    /\ Produce(Event("pre", r, "none", 0))
    /\ UNCHANGED <<run, channelVars, relayVars, screen, drainVars, stop, main>>

(* The provider says something about it.                                   *)
Diagnose(r, sev) ==
    /\ run = "running" /\ work[r].stage = "started" /\ work[r].diags < MaxDiags
    /\ work' = [work EXCEPT ![r].diags = @ + 1]
    /\ Produce(Event("diag", r, sev, work[r].diags + 1))
    /\ UNCHANGED <<run, channelVars, relayVars, screen, drainVars, stop, main>>

(* It ends: ResOutputsEvent or ResOpFailedEvent.                           *)
EndStep(r, kind) ==
    /\ run = "running" /\ work[r].stage = "started"
    /\ work' = [work EXCEPT ![r].stage = kind]
    /\ Produce(Event(kind, r, "none", 0))
    /\ UNCHANGED <<run, channelVars, relayVars, screen, drainVars, stop, main>>

(* The run is over: with a summary when every step ended, without one when *)
(* the engine died. Its raw streams are complete by then.                  *)
EndRun(result) ==
    /\ run = "running" /\ \A s \in DOMAIN raw : raw[s] = "idle"
    /\ IF \A r \in Res : work[r].stage \in {"outputs", "failed"}
       THEN /\ result = IF \E r \in Res : work[r].stage = "failed" THEN "failed" ELSE "ok"
            /\ Produce(Event("summary", Nobody, "none", 0))
       ELSE result = "failed" /\ UNCHANGED log
    /\ run' = result
    /\ UNCHANGED <<work, channelVars, relayVars, screen, drainVars, stop, main>>

(* The tailer copies the next event into the channel, blocking while it is *)
(* full; it may still be at it when run has returned.                      *)
Send ==
    /\ tail < Len(log) /\ Len(channel) < BufSize
    /\ channel' = Append(channel, log[tail + 1])
    /\ tail' = tail + 1
    /\ UNCHANGED <<engineVars, closed, relayVars, screen, drainVars, stop, main>>

(* It closes the channel behind the last event; a run that died before its *)
(* event stream started leaves it open for good.                           *)
Close ==
    /\ run # "running" /\ ~closed /\ tail = Len(log) /\ log # <<>>
    /\ closed' = TRUE
    /\ UNCHANGED <<engineVars, tail, channel, relayVars, screen, drainVars, stop, main>>

----------------------------------------------------------------------------
(* The prelude relay.                                                      *)

(* preludeBranch.Write takes the mutex; a muted relay swallows the bytes.  *)
(* The error stream is a MultiWriter: the branch first, then the buffer.   *)
BeginWrite(s) ==
    /\ run = "running" /\ raw[s] = "idle" /\ mu = Nobody
    /\ s = "errors" => chunks < MaxChunks
    /\ chunks' = IF s = "errors" THEN chunks + 1 ELSE chunks
    /\ raw' = [raw EXCEPT ![s] = IF ~muted THEN "writing"
                                 ELSE IF s = "errors" THEN "buffering" ELSE "idle"]
    /\ mu' = IF muted THEN Nobody ELSE s
    /\ UNCHANGED <<engineVars, channelVars, muted, relayed, errBuf, screen, drainVars, stop, main>>

(* Mutant: one byte count for the relay instead of one for each branch.    *)
EndWriteShared(s) ==
    /\ raw[s] = "writing"
    /\ mu' = Nobody
    /\ raw' = [raw EXCEPT ![s] = IF s = "errors" THEN "buffering" ELSE "idle"]
    /\ screen' = IF s = "errors" THEN Append(screen, chunks) ELSE screen
    /\ relayed' = IF relayed < MaxChunks THEN relayed + 1 ELSE relayed
    /\ UNCHANGED <<engineVars, channelVars, muted, chunks, errBuf, drainVars, stop, main>>

(* The bytes are out: they are counted and the mutex is released.          *)
EndWrite(s) ==
    /\ raw[s] = "writing"
    /\ mu' = Nobody
    /\ raw' = [raw EXCEPT ![s] = IF s = "errors" THEN "buffering" ELSE "idle"]
    /\ IF s = "errors"
       THEN screen' = Append(screen, chunks) /\ relayed' = relayed + 1
       ELSE UNCHANGED <<screen, relayed>>
    /\ UNCHANGED <<engineVars, channelVars, muted, chunks, errBuf, drainVars, stop, main>>

(* The second half of the MultiWriter.                                     *)
BufferErrors ==
    /\ raw["errors"] = "buffering"
    /\ errBuf' = Append(errBuf, chunks)
    /\ raw' = [raw EXCEPT !["errors"] = "idle"]
    /\ UNCHANGED <<engineVars, channelVars, mu, muted, chunks, relayed, screen, drainVars, stop, main>>

----------------------------------------------------------------------------
(* The drain goroutine and the Printer.                                    *)

(* select: an event, the closed channel, or stop, whichever is ready.      *)
Receive ==
    /\ drain = "select" /\ channel # <<>>
    /\ event' = Head(channel) /\ channel' = Tail(channel)
    /\ drain' = "mute"
    /\ UNCHANGED <<engineVars, tail, closed, relayVars, screen, printer, stop, main>>

(* Mutant: the drain ranges over the channel and cannot be stopped.        *)
DrainedByClose ==
    /\ drain = "select" /\ closed /\ channel = <<>>
    /\ drain' = "drained"
    /\ UNCHANGED <<engineVars, channelVars, relayVars, screen, event, printer, stop, main>>

Drained ==
    /\ drain = "select" /\ (stop \/ (closed /\ channel = <<>>))
    /\ drain' = "drained"
    /\ UNCHANGED <<engineVars, channelVars, relayVars, screen, event, printer, stop, main>>

(* prelude.mute waits for a write in progress.                             *)
Mute ==
    /\ drain = "mute" /\ mu = Nobody
    /\ muted' = TRUE /\ drain' = "handle"
    /\ UNCHANGED <<engineVars, channelVars, mu, raw, chunks, relayed, errBuf, screen,
                   event, printer, stop, main>>

(* isSystemResource, and operations that change nothing.                   *)
Silent(r) == r \in System \/ OpOf[r] = "same"

(* Whether the step is shown with a warning.                               *)
Destroys(r) ==
    /\ ~Silent(r) /\ r \notin Harmless
    /\ OpOf[r] = "delete" \/ (OpOf[r] = "delete-replaced" /\ r \notin Routine)

(* Mutant: the stash keeps warnings too.                                   *)
RecordedAnyDiag(p, e) ==
    CASE e.kind = "pre" ->
            IF Destroys(e.res)
            THEN [p EXCEPT !.destructive = @ \union {e.res}] ELSE p
      [] e.kind = "outputs" ->
            IF ~Silent(e.res) THEN [p EXCEPT !.completed[OpOf[e.res]] = @ + 1] ELSE p
      [] e.kind = "failed" ->
            IF e.res \notin System
            THEN [p EXCEPT !.failures = Append(@, [res |-> e.res, msg |-> p.errByURN[e.res]])]
            ELSE p
      [] e.kind = "diag" ->
            [p EXCEPT !.errByURN[e.res] = e.msg]
      [] e.kind = "summary" -> [p EXCEPT !.summary = TRUE]

(* Handle: what one event adds to the Printer's record. A failure carries  *)
(* no message of its own: it takes the resource's latest error diagnostic. *)
Recorded(p, e) ==
    CASE e.kind = "pre" ->
            IF Destroys(e.res)
            THEN [p EXCEPT !.destructive = @ \union {e.res}] ELSE p
      [] e.kind = "outputs" ->
            IF ~Silent(e.res) THEN [p EXCEPT !.completed[OpOf[e.res]] = @ + 1] ELSE p
      [] e.kind = "failed" ->
            IF e.res \notin System
            THEN [p EXCEPT !.failures = Append(@, [res |-> e.res, msg |-> p.errByURN[e.res]])]
            ELSE p
      [] e.kind = "diag" ->
            IF e.sev = "error" THEN [p EXCEPT !.errByURN[e.res] = e.msg] ELSE p
      [] e.kind = "summary" -> [p EXCEPT !.summary = TRUE]

Handle ==
    /\ drain = "handle"
    /\ printer' = Recorded(printer, event)
    /\ drain' = "select" /\ event' = NoEvent
    /\ UNCHANGED <<engineVars, channelVars, relayVars, screen, stop, main>>

----------------------------------------------------------------------------
(* streamEngineRun itself.                                                 *)

(* run has returned.                                                       *)
RunReturns ==
    /\ main = "run" /\ run # "running"
    /\ main' = "wait"
    /\ UNCHANGED <<engineVars, channelVars, relayVars, screen, drainVars, stop>>

(* The drain has ended by itself.                                          *)
WaitEnds ==
    /\ main \in {"wait", "stopping"} /\ drain = "drained"
    /\ main' = "finish"
    /\ UNCHANGED <<engineVars, channelVars, relayVars, screen, drainVars, stop>>

(* Mutant: the drain is abandoned instead of stopped.                      *)
GraceAbandons ==
    /\ main = "wait" /\ drain # "drained"
    /\ stop' = TRUE /\ main' = "finish"
    /\ UNCHANGED <<engineVars, channelVars, relayVars, screen, drainVars>>

(* The grace elapses, however far the drain is: stop is closed and main    *)
(* waits on.                                                               *)
GraceElapses ==
    /\ main = "wait" /\ drain # "drained"
    /\ stop' = TRUE /\ main' = "stopping"
    /\ UNCHANGED <<engineVars, channelVars, relayVars, screen, drainVars>>

(* p.Finish prints the summary.                                            *)
Finish ==
    /\ main = "finish"
    /\ main' = "dump"
    /\ UNCHANGED <<engineVars, channelVars, relayVars, screen, drainVars, stop>>

(* The fallback: a failed run without a Failure shows the error bytes the  *)
(* relay has not.                                                          *)
Dump ==
    /\ main = "dump"
    /\ main' = "done"
    /\ screen' = IF run = "failed" /\ printer.failures = <<>>
                 THEN screen \o SubSeq(errBuf, relayed + 1, Len(errBuf)) ELSE screen
    /\ UNCHANGED <<engineVars, channelVars, relayVars, drainVars, stop>>

Next ==
    \/ \E r \in Res : StartStep(r)
    \/ \E r \in Res, sev \in Severities : Diagnose(r, sev)
    \/ \E r \in Res, kind \in {"outputs", "failed"} : EndStep(r, kind)
    \/ \E result \in {"ok", "failed"} : EndRun(result)
    \/ Send \/ Close
    \/ \E s \in DOMAIN raw : BeginWrite(s) \/ EndWrite(s)
    \/ BufferErrors
    \/ Receive \/ Drained \/ Mute \/ Handle
    \/ RunReturns \/ WaitEnds \/ GraceElapses \/ Finish \/ Dump

(* Goroutines that can run do, writes return and the grace elapses. Nothing *)
(* is assumed of the engine, nor of the tailer's close.                    *)
Fairness ==
    /\ \A s \in {"progress", "errors"} : WF_vars(EndWrite(s))
    /\ WF_vars(BufferErrors)
    /\ WF_vars(Receive \/ Drained \/ Mute \/ Handle)
    /\ WF_vars(RunReturns \/ WaitEnds \/ Finish \/ Dump)
    /\ WF_vars(GraceElapses)

Spec == Init /\ [][Next]_vars
FairSpec == Spec /\ Fairness

----------------------------------------------------------------------------
(* Properties.                                                             *)

Writers ==
    {s \in {"progress", "errors"} : raw[s] = "writing"}
    \union (IF drain = "handle" THEN {"drain"} ELSE {})
    \union (IF main \in {"finish", "dump"} THEN {"main"} ELSE {})

(* The terminal and the Printer have one user at a time, although the two  *)
(* raw streams, the drain and main all write: the relay is muted before    *)
(* the first event is handled, and the drain has ended before the summary, *)
(* also when the grace ran out.                                            *)
OneWriter == Cardinality(Writers) <= 1

(* What the engine writes to its error stream reaches the terminal once.   *)
(* Before the first event (the wait for a stack lock, a refused state      *)
(* write) it is there as soon as it is written; and a run that failed      *)
(* without a failed resource explains itself: when streamEngineRun         *)
(* returns, everything is there in order, wherever the first event cut the *)
(* relay off.                                                              *)
ErrorsShownOnce ==
    /\ ~muted =>
          screen = [i \in 1..(chunks - (IF raw["errors"] = "writing" THEN 1 ELSE 0)) |-> i]
    /\ main = "done" /\ run = "failed" /\ printer.failures = <<>> =>
          screen = [i \in 1..chunks |-> i]

(* Of the events es: those of a kind, the operations the report counts, the *)
(* failures it lists, and the last error said of a resource.               *)
Logged(es, kind) == {i \in DOMAIN es : es[i].kind = kind}
Completed(es, o) == {i \in Logged(es, "outputs") : ~Silent(es[i].res) /\ OpOf[es[i].res] = o}
Failed(es) == {i \in Logged(es, "failed") : es[i].res \notin System}
Errors(es, r) == {j \in Logged(es, "diag") : es[j].res = r /\ es[j].sev = "error"}
LastError(es, r) == IF Errors(es, r) = {} THEN 0 ELSE es[Max(Errors(es, r))].msg

(* p is the report of the events es: every completed operation is counted   *)
(* once, every failed resource is listed in its turn with the error the     *)
(* engine gave last for it, and the destructive section is every deletion   *)
(* that destroys something.                                                *)
IsReport(p, es) ==
    /\ \A o \in Ops \ {"same"} : p.completed[o] = Cardinality(Completed(es, o))
    /\ Len(p.failures) = Cardinality(Failed(es))
    /\ \A i \in Failed(es) : p.failures[Cardinality({j \in Failed(es) : j <= i})] =
          [res |-> es[i].res, msg |-> LastError(SubSeq(es, 1, i), es[i].res)]
    /\ p.destructive = {es[i].res : i \in {j \in Logged(es, "pre") : Destroys(es[j].res)}}

(* The report is the run: unless the grace cut the drain short, what main   *)
(* prints at the end is the report of every event the engine produced.     *)
ReportIsTheRun == main = "done" /\ ~stop => IsReport(printer, log)

(* streamEngineRun returns once run has, also when the channel is never    *)
(* closed: a deploy that fails early ends instead of holding its CI job.   *)
MainReturns == (run # "running") ~> (main = "done")
=============================================================================
