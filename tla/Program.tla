------------------------------- MODULE Program -------------------------------
(***************************************************************************)
(* main and the constructor of BaseSystem on a POSIX system: configuration,*)
(* archives, carts, the variation thread, the server, the wait for a stop  *)
(* signal.  The process ends while the variation thread goes on, wherever  *)
(* that is.                                                                *)
(***************************************************************************)
EXTENDS VariationLoader

VARIABLES
    main,    \* what the main thread is about to do; "down" when no process runs
    signal,  \* a stop signal (SIGINT, SIGQUIT, SIGTERM) waits to be taken
    serving  \* the threads of the server are at requests

program == <<main, signal, serving>>

\* PromoCalculator.ini: good; without a number as Node.Id, which is "aborting
\* start" in the log and nowhere else; or so that an exception reaches main
\* (no file, no Web.Threads).
Configurations == {"good", "bad", "unusable"}

ProgramTypeOK ==
    /\ TypeOK
    /\ main \in {"down", "configuration", "archives", "carts", "server",
                 "sigwait", "stop", "join"}
    /\ signal \in BOOLEAN
    /\ serving \in BOOLEAN
    /\ serving => main \in {"sigwait", "stop", "join"}

ProgramInit ==
    /\ Init
    /\ main = "down"
    /\ signal = FALSE
    /\ serving = FALSE

MainStep(from, to) == main = from /\ main' = to

\* The process ends: the variation thread, if there is one, ends with it.
Exit ==
    /\ main' = "down"
    /\ signal' = FALSE
    /\ serving' = FALSE
    /\ IF pc = "off" THEN UNCHANGED vars ELSE Die

Launch ==
    /\ MainStep("down", "configuration")
    /\ UNCHANGED <<signal, serving, vars>>

\* loadConfiguration and what the constructor makes of it.
LoadConfiguration(configuration) ==
    /\ main = "configuration"
    /\ CASE configuration = "good" -> main' = "archives" /\ UNCHANGED <<signal, serving, vars>>
         [] configuration = "bad"  -> main' = "server" /\ UNCHANGED <<signal, serving, vars>>
         [] configuration = "unusable" -> Exit

\* readArchives: departments, items, barcodes and promotions; exit(-1) when one
\* of the four files is not there, ITEMS.CSV or another.
ReadArchives ==
    /\ main = "archives"
    /\ \/ items_csv # NoFile /\ main' = "carts" /\ ReadArchive /\ UNCHANGED <<signal, serving>>
       \/ Exit

\* loadCartsInProgress, then the thread.
LoadCarts ==
    /\ MainStep("carts", "server")
    /\ StartThread
    /\ UNCHANGED <<signal, serving>>

\* Ten seconds later the constructor returns and main makes the server and its
\* thread; an address in use throws, and main returns.
StartServer ==
    /\ main = "server"
    /\ \/ main' = "sigwait" /\ UNCHANGED <<signal, serving, vars>>
       \/ Exit

\* Every signal is blocked from the beginning: one that came early is there.
Sigwait ==
    /\ signal
    /\ MainStep("sigwait", "stop")
    /\ signal' = FALSE
    /\ UNCHANGED <<serving, vars>>

\* s.stop(): the server begins no more work.
StopServer ==
    /\ MainStep("stop", "join")
    /\ UNCHANGED <<signal, serving, vars>>

\* t.join() waits for the requests the server is at; the pid file is deleted and
\* main returns.
Return ==
    /\ main = "join"
    /\ ~serving
    /\ Exit

\* (mutant) a stop does not keep the server from new requests
BeginRequestAlways ==
    /\ main \in {"sigwait", "stop", "join"}
    /\ ~serving
    /\ serving' = TRUE
    /\ UNCHANGED <<main, signal, vars>>

\* The server is made before the wait for a signal begins, and a stop keeps it
\* from new requests.
BeginRequest ==
    /\ main \in {"sigwait", "stop"}
    /\ ~serving
    /\ serving' = TRUE
    /\ UNCHANGED <<main, signal, vars>>

\* The last of the requests ends; one that throws ends the process (Kill).
EndRequests ==
    /\ serving
    /\ serving' = FALSE
    /\ UNCHANGED <<main, signal, vars>>

\* A signal comes (a second one is never taken); a kill or a fault ends the
\* process anywhere.
Signal ==
    /\ main \notin {"down", "stop", "join"}
    /\ signal' = TRUE
    /\ UNCHANGED <<main, serving, vars>>

Kill ==
    /\ main # "down"
    /\ Exit

Main ==
    \/ \E configuration \in Configurations : LoadConfiguration(configuration)
    \/ ReadArchives \/ LoadCarts \/ StartServer
    \/ Sigwait \/ StopServer \/ Return

Others ==
    /\ VariationThread \/ \E f \in VarFiles : Deliver(f)
    /\ UNCHANGED program

Next == Launch \/ Main \/ BeginRequest \/ EndRequests \/ Signal \/ Kill \/ Others

Spec == ProgramInit /\ [][Next]_<<vars, program>>

\* The system schedules the threads.  A request ends: what it waits for, the mutex
\* of sendToPos, others give back, and after a stop no others come.
FairSpec ==
    /\ Spec
    /\ WF_<<vars, program>>(Main)
    /\ WF_<<vars, program>>(EndRequests)
    /\ WF_<<vars, program>>(VariationThread /\ UNCHANGED program)

-----------------------------------------------------------------------------
\* A stop signal ends the process, whenever it comes: while the archives are
\* read, before the server is there, in the middle of a save or of requests,
\* for which main waits.
StopIsHonoured == signal ~> main = "down"
=============================================================================
