------------------------------- MODULE Service -------------------------------
(***************************************************************************)
(* The serve command of cmd/compactd/main.go around the handlers of        *)
(* Server: construction with its failures, the serving goroutine and its   *)
(* buffered channel, the signal, the graceful shutdown with its deadline,  *)
(* the forced close, and the exit; also kills and restarts.  One action    *)
(* per statement that can fail, block or race.                             *)
(***************************************************************************)
EXTENDS Server

CONSTANT MaxStarts      \* bound: how often the command is started

VARIABLES
    proc,       \* the process, see Fresh
    starts      \* how often it was started

handlers == <<conn, ended, slots, told, present, acked>>
all == <<handlers, proc, starts>>

\* A process that has begun.
Fresh ==
    [main      |-> "build",   \* build, listen, select, shutdown, wait; exited, killed
     signaled  |-> FALSE,     \* has signal.NotifyContext's context ended?
     client    |-> "none",    \* the scoring client: none, open, closed
     listener  |-> "none",
     serving   |-> "none",    \* the goroutine: none, starting, accepting, returned
     stopping  |-> FALSE,     \* http.Server.inShutdown
     doneCh    |-> Nil,       \* buffered: Nil, closed (ErrServerClosed), failed
     overdue   |-> FALSE,     \* shutdownErr
     exit      |-> Nil,       \* ok, error
     failed    |-> FALSE,     \* history: Serve has failed
     cut       |-> {}]        \* history: clients whose request died with the process

InitService == Init /\ proc = Fresh /\ starts = 1

At(place) == proc.main = place
Becomes(q) == proc' = q /\ UNCHANGED <<handlers, starts>>

\* The requests under way end with the process.
Under == {r \in Clients : conn[r].at # "idle"}
HandlersDie == /\ conn' = [r \in Clients |-> NoRequest] /\ ended' = {} /\ slots' = 0
               /\ UNCHANGED told

Shut(x) == IF x = "open" THEN "closed" ELSE x

\* serve returns: the deferred calls, then the end of the process.
Exit(code) ==
    /\ proc' = [proc EXCEPT !.main = "exited", !.exit = code, !.cut = Under,
                            !.client = Shut(@), !.listener = Shut(@)]
    /\ HandlersDie /\ UNCHANGED <<archive, starts>>

-----------------------------------------------------------------------------
\* Construction, and the serving goroutine.

\* Flags (other than -h), address, archive, counter, scores, scorer, engine: nothing is open yet,
\* or build closes it.
BuildFails == At("build") /\ Exit("error")
Build      == At("build") /\ Becomes([proc EXCEPT !.main = "listen", !.client = "open"])

\* server.New, or Listen, also because the signal has come already.
SetupFails == At("listen") /\ Exit("error")
Listen     == At("listen") /\ Becomes([proc EXCEPT !.main = "select", !.listener = "open",
                                                   !.serving = "starting"])

ServeStarts == proc.serving = "starting" /\ ~proc.stopping
               /\ Becomes([proc EXCEPT !.serving = "accepting"])

\* ErrServerClosed, also when Shutdown was called before Serve had begun.
ServeStops == proc.serving \in {"starting", "accepting"} /\ proc.stopping
              /\ Becomes([proc EXCEPT !.serving = "returned", !.doneCh = "closed"])

\* A permanent error of Accept.
ServeFails == proc.serving = "accepting" /\ ~proc.stopping
              /\ Becomes([proc EXCEPT !.serving = "returned", !.doneCh = "failed",
                                      !.listener = "closed", !.failed = TRUE])

-----------------------------------------------------------------------------
\* The command.

Signal == proc.main \notin {"exited", "killed"} /\ ~proc.signaled
          /\ Becomes([proc EXCEPT !.signaled = TRUE])

\* select takes either case when both are ready.
ServeEnded == At("select") /\ proc.doneCh # Nil
              /\ Exit(IF proc.doneCh = "closed" THEN "ok" ELSE "error")

\* Mutant of StartShutdown: waits for the requests, but goes on accepting.
StartWaiting == At("select") /\ proc.signaled
                /\ Becomes([proc EXCEPT !.main = "shutdown"])

StartShutdown == At("select") /\ proc.signaled
                 /\ Becomes([proc EXCEPT !.main = "shutdown", !.stopping = TRUE,
                                         !.listener = "closed"])

\* Mutant of Drained: does not wait for the requests.
DrainedAtOnce == At("shutdown") /\ Becomes([proc EXCEPT !.main = "wait"])

Drained == At("shutdown") /\ Under = {} /\ Becomes([proc EXCEPT !.main = "wait"])

\* Five seconds have passed: Close ends the connections and with them the contexts.
Overdue == /\ At("shutdown")
           /\ proc' = [proc EXCEPT !.main = "wait", !.overdue = TRUE]
           /\ ended' = ended \cup Under
           /\ UNCHANGED <<conn, slots, told, archive, starts>>

\* <-done, and the errors joined.
Joined == At("wait") /\ proc.doneCh # Nil
          /\ Exit(IF proc.overdue \/ proc.doneCh = "failed" THEN "error" ELSE "ok")

Command == BuildFails \/ Build \/ SetupFails \/ Listen
           \/ ServeEnded \/ StartShutdown \/ Drained \/ Overdue \/ Joined
Goroutine == ServeStarts \/ ServeStops

-----------------------------------------------------------------------------
\* Kills, crashes and restarts; requests.

\* The process dies where it stands, and what was not acknowledged may be lost.
Kill ==
    /\ proc.main \notin {"exited", "killed"}
    /\ proc' = [Fresh EXCEPT !.main = "killed"]
    /\ HandlersDie /\ UNCHANGED starts
    /\ \E S \in SUBSET Snapshots : Archive!Lose(S)

Restart ==
    /\ proc.main \in {"exited", "killed"} /\ starts < MaxStarts
    /\ proc' = Fresh /\ starts' = starts + 1
    /\ UNCHANGED handlers

\* Shutdown and the end of the process close idle connections; until then they bring
\* further requests.
Accept(r) == /\ proc.serving \in {"accepting", "returned"} /\ ~proc.stopping /\ ~At("exited")
             /\ Arrive(r)
Served(r) == Handle(r) /\ UNCHANGED <<proc, starts>>
Request(r) == Served(r) \/ ((Accept(r) \/ ContextEnds(r) \/ Panics(r)) /\ UNCHANGED <<proc, starts>>)

NextService == (\E r \in Clients : Request(r)) \/ Command \/ Goroutine \/ ServeFails
               \/ Signal \/ Kill \/ Restart

\* Construction, the deadline of five seconds and the scheduler move the command on;
\* bodies end by the connection's ReadTimeout, the engine's calls by their contexts.
FairService == /\ InitService /\ [][NextService]_all
               /\ WF_all(Command) /\ WF_all(Goroutine)
               /\ \A r \in Clients : WF_all(Served(r))

-----------------------------------------------------------------------------
\* Properties.

(***************************************************************************)
(* The end of serve is clean.  On any path the scoring client and the port *)
(* are closed and the goroutine it started has ended (main_test.go:18      *)
(* checks for leaks); and exit status zero is the truth: the command was   *)
(* told to stop, every request it had accepted was answered, and Serve had *)
(* not failed, whichever case select took and in which order shutdown,     *)
(* deadline and failure came (main.go:125-168).                            *)
(***************************************************************************)
CleanExit ==
    At("exited") =>
        /\ proc.client # "open" /\ proc.listener # "open"
        /\ proc.serving \in {"none", "returned"}
        /\ proc.exit = "ok" => proc.signaled /\ ~proc.failed /\ proc.cut = {}

(***************************************************************************)
(* A signal stops the process, whatever requests are under way and         *)
(* whether or not serving had begun (main.go:156-167).                     *)
(***************************************************************************)
Stops == proc.signaled ~> proc.main \in {"exited", "killed"}

=============================================================================
