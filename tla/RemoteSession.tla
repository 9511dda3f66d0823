---------------------------- MODULE RemoteSession ----------------------------
(***************************************************************************)
(* The polling task of pdd/remote_session.py: it fetches the commands      *)
(* users queued in the cloud, has the local job server run them one after  *)
(* the other, watches the job and posts what became of it.  The job server *)
(* is taken at its promise, JobLifecycle.  The cloud is external: it keeps *)
(* a status per command, and `final` says whether it refuses to change the *)
(* status of a command that has ended; the code does not say.              *)
(*                                                                         *)
(* A request may be lost, may take effect later than its timeout, or may   *)
(* be refused for an expired token, MaxFaults times in all.  Output, cost  *)
(* and the heartbeat are left out.                                         *)
(***************************************************************************)
EXTENDS Naturals, Sequences, FiniteSets

CONSTANTS Commands, None,
          Max,          \* max_concurrent of the job server
          MaxTries,     \* max_retries of update_command
          Unlucky,      \* the commands requests about which may fail
          MaxFaults     \* how often

Ended == {"completed", "failed", "cancelled"}

ASSUME TriesAssumption == /\ MaxTries \in Nat \ {0} /\ MaxFaults \in Nat /\ IsFiniteSet(Commands)
                          /\ None \notin Commands \cup {"processing"} \cup Ended /\ Unlucky \subseteq Commands

VARIABLES
    cloud,      \* the status of each command in the cloud; "absent" before it is queued
    final,      \* the cloud keeps the status of a command that has ended
    flight,     \* updates that timed out and may still reach the cloud
    job,        \* the local job of each command, the last one if there are several
    starts,     \* how many there were
    pc, cmd, batch,         \* the task, the command it executes, those it fetched and has not begun
    say, tries, refreshed,  \* update_command: the status it posts, attempt, token_refreshed
    handling,   \* the update is made by a handler of _execute_command
    stopping,   \* _stop_event is set and the server accepts no request
    faults,
    asked,      \* ghost: commands the user cancelled
    early,      \* ghost: those cancelled before the task had posted anything about them
    hit,        \* ghost: commands a request about which failed
    given,      \* ghost: commands whose failure could not be posted either
    silent      \* ghost: commands an update of which was not made, and did not raise

session == <<pc, cmd, batch, say, tries, refreshed, handling>>
ghosts == <<asked, early, hit, given, silent>>
vars == <<cloud, final, flight, job, starts, session, stopping, faults, ghosts>>

Local == INSTANCE JobLifecycle WITH Jobs <- Commands, status <- job

TypeOK ==
    /\ cloud \in [Commands -> {"absent", "pending", "processing"} \cup Ended]
    /\ final \in BOOLEAN /\ flight \subseteq Commands \X ({"processing"} \cup Ended)
    /\ job \in [Commands -> {"new"} \cup Local!Active \cup Local!Finished]
    /\ starts \in [Commands -> Nat] /\ faults \in 0..MaxFaults
    /\ pc \in {"idle", "take", "post", "check", "submit", "watch", "poll", "cancel", "stopped"}
    /\ cmd \in Commands \cup {None} /\ (cmd = None <=> pc \in {"idle", "take", "stopped"})
    /\ batch \in Seq(Commands) /\ say \in {None, "processing"} \cup Ended
    /\ (say = None <=> pc # "post") /\ tries \in 0..(MaxTries - 1)
    /\ refreshed \in BOOLEAN /\ handling \in BOOLEAN /\ stopping \in BOOLEAN
    /\ {asked, early, hit, given, silent} \subseteq SUBSET Commands

Init ==
    /\ cloud = [c \in Commands |-> "absent"] /\ final \in BOOLEAN /\ flight = {}
    /\ job = [c \in Commands |-> "new"] /\ starts = [c \in Commands |-> 0]
    /\ pc = "idle" /\ cmd = None /\ batch = <<>>
    /\ say = None /\ tries = 0 /\ refreshed = FALSE /\ handling = FALSE
    /\ stopping = FALSE /\ faults = 0
    /\ asked = {} /\ early = {} /\ hit = {} /\ given = {} /\ silent = {}

-----------------------------------------------------------------------------
(* The cloud and its users *)

\* The cloud is told the status s of c.
Told(c, s) == IF final /\ cloud[c] \in Ended THEN cloud ELSE [cloud EXCEPT ![c] = s]

Queue(c) ==
    /\ cloud[c] = "absent" /\ ~ stopping /\ cloud' = [cloud EXCEPT ![c] = "pending"]
    /\ UNCHANGED <<final, flight, job, starts, session, stopping, faults, ghosts>>

UserCancel(c) ==
    /\ cloud[c] \in {"pending", "processing"} /\ pc # "stopped"
    /\ cloud' = [cloud EXCEPT ![c] = "cancelled"]
    /\ asked' = asked \cup {c}
    /\ early' = IF cmd # c /\ cloud[c] = "pending" THEN early \cup {c} ELSE early
    /\ UNCHANGED <<final, flight, job, starts, session, stopping, faults, hit, given, silent>>

Arrive == \E m \in flight :
    /\ pc # "stopped"
    /\ cloud' = Told(m[1], m[2]) /\ flight' = flight \ {m}
    /\ UNCHANGED <<final, job, starts, session, stopping, faults, ghosts>>

\* A request about the current command fails.
Fault == /\ cmd \in Unlucky /\ faults < MaxFaults /\ faults' = faults + 1
         /\ hit' = hit \cup {cmd} /\ UNCHANGED <<asked, early>>
NoFault == UNCHANGED <<faults, ghosts>>

-----------------------------------------------------------------------------
(* update_command *)

Post(s, inHandler) ==
    /\ pc' = "post" /\ say' = s /\ tries' = 0 /\ refreshed' = FALSE /\ handling' = inHandler
    /\ UNCHANGED <<cmd, batch>>

Quit(next) == /\ pc' = next /\ say' = None /\ tries' = 0 /\ refreshed' = FALSE /\ handling' = FALSE

\* update_command returns.
Returned ==
    IF say = "processing"
    THEN Quit("check") /\ UNCHANGED <<cmd, batch>>
    ELSE Quit("take") /\ cmd' = None /\ UNCHANGED batch

\* Mutant: the error of an update ends the command without a report.
ThrewMutant == /\ Quit("idle") /\ cmd' = None /\ batch' = <<>> /\ UNCHANGED given

\* update_command raises: the handler posts "failed", and when that raises too the
\* commands that were fetched are dropped.
Threw ==
    IF ~ handling
    THEN Post("failed", TRUE) /\ UNCHANGED given
    ELSE /\ Quit("idle") /\ cmd' = None /\ batch' = <<>>
         /\ given' = given \cup {cmd}

LastTry == tries + 1 = MaxTries

Again == /\ tries' = tries + 1 /\ UNCHANGED <<pc, cmd, batch, say, handling>>

PostOk ==
    /\ pc = "post" /\ cloud' = Told(cmd, say) /\ Returned
    /\ NoFault /\ UNCHANGED <<final, flight, job, starts, stopping>>

\* Refused, lost, or later than the timeout.
PostFails ==
    /\ pc = "post" /\ Fault
    /\ flight' \in {flight, flight \cup {<<cmd, say>>}}
    /\ IF LastTry THEN Threw ELSE Again /\ UNCHANGED <<refreshed, given>>
    /\ UNCHANGED <<cloud, final, job, starts, stopping, silent>>

\* The token has expired and is renewed, which uses up the attempt; after the last one
\* update_command returns as if the update had been made.
PostExpired ==
    /\ pc = "post" /\ ~ refreshed /\ Fault
    /\ IF LastTry
       THEN Returned /\ silent' = silent \cup {cmd}
       ELSE Again /\ refreshed' = TRUE /\ UNCHANGED silent
    /\ UNCHANGED <<cloud, final, flight, job, starts, stopping, given>>

-----------------------------------------------------------------------------
(* The task *)

\* Mutant: commands that are being processed are fetched as well.
FetchedMutant == {c \in Commands : cloud[c] \in {"pending", "processing"}}
\* get_pending_commands.  A failing request fetches nothing.
Fetched == {c \in Commands : cloud[c] = "pending"}

\* The order the cloud lists them in.
Orders(S) == {b \in [1..Cardinality(S) -> S] : \A c \in S : \E i \in DOMAIN b : b[i] = c}

Poll ==
    /\ pc = "idle" /\ ~ stopping /\ Fetched # {}
    /\ pc' = "take" /\ batch' \in Orders(Fetched)
    /\ NoFault /\ UNCHANGED <<cmd, say, tries, refreshed, handling>>
    /\ UNCHANGED <<cloud, final, flight, job, starts, stopping>>

Take ==
    /\ pc = "take" /\ NoFault /\ UNCHANGED <<cloud, final, flight, job, starts, stopping>>
    /\ IF batch = <<>> \/ stopping
       THEN pc' = "idle" /\ batch' = <<>> /\ UNCHANGED <<cmd, say, tries, refreshed, handling>>
       ELSE /\ cmd' = Head(batch) /\ batch' = Tail(batch)
            /\ pc' = "post" /\ say' = "processing" /\ tries' = 0
            /\ refreshed' = FALSE /\ handling' = FALSE

GoTo(next) == pc' = next /\ UNCHANGED <<cmd, batch, say, tries, refreshed, handling>>

\* _is_cancelled, which a failing request answers with no.
IsCancelled(yes, no) ==
    /\ \/ cloud[cmd] = "cancelled" /\ yes /\ NoFault
       \/ cloud[cmd] # "cancelled" /\ no /\ NoFault
       \/ no /\ Fault /\ UNCHANGED <<given, silent>>
    /\ UNCHANGED <<cloud, final, flight, job, starts, stopping>>

Check == pc = "check" /\ IsCancelled(Post("cancelled", FALSE), GoTo("submit"))

\* The job is submitted.  An answer that does not come is an error, whether or not the
\* server took the request; after the shutdown began it takes none.
Submitted == /\ job' = [job EXCEPT ![cmd] = "queued"]
             /\ starts' = [starts EXCEPT ![cmd] = @ + 1]
Submit ==
    /\ pc = "submit" /\ UNCHANGED <<cloud, final, flight, stopping>>
    /\ \/ ~ stopping /\ Submitted /\ GoTo("watch") /\ NoFault
       \/ ~ stopping /\ Submitted /\ Post("failed", TRUE) /\ Fault /\ UNCHANGED <<given, silent>>
       \/ /\ Post("failed", TRUE) /\ UNCHANGED <<job, starts>>
          /\ (stopping /\ NoFault) \/ (Fault /\ UNCHANGED <<given, silent>>)

\* The loop of _do_execute: the cloud is asked first.
Watch == pc = "watch" /\ IsCancelled(GoTo("cancel"), GoTo("poll"))

\* Mutant: the local job is left alone.
CancelLocalMutant ==
    /\ pc = "cancel" /\ Post("cancelled", FALSE)
    /\ UNCHANGED job /\ NoFault /\ UNCHANGED <<cloud, final, flight, starts, stopping>>

\* _cancel_local_job; its answer is not looked at.
CancelLocal ==
    /\ pc = "cancel" /\ Post("cancelled", FALSE)
    /\ \/ /\ ~ stopping /\ NoFault
          /\ IF job[cmd] \in Local!Active THEN Local!Cancel({cmd}) ELSE UNCHANGED job
       \/ stopping /\ UNCHANGED job /\ NoFault
       \/ UNCHANGED job /\ Fault /\ UNCHANGED <<given, silent>>
    /\ UNCHANGED <<cloud, final, flight, starts, stopping>>

\* Mutant: whatever did not fail has completed.
AnswerMutant == IF job[cmd] = "failed" THEN "failed" ELSE "completed"
Answer == job[cmd]

\* The job is asked for its status, and its output so far goes to the cloud as an update
\* "processing" that is not repeated.
PollJob ==
    /\ pc = "poll" /\ UNCHANGED <<final, job, starts, stopping>>
    /\ \/ /\ ~ stopping /\ NoFault
          /\ IF job[cmd] \in Local!Finished THEN Post(Answer, FALSE) ELSE GoTo("watch")
          /\ \/ UNCHANGED <<cloud, flight>>
             \/ cloud' = Told(cmd, "processing") /\ UNCHANGED flight
       \/ /\ ~ stopping /\ Fault /\ UNCHANGED <<given, silent, cloud>>
          /\ IF job[cmd] \in Local!Finished THEN Post(Answer, FALSE) ELSE GoTo("watch")
          /\ flight' = flight \cup {<<cmd, "processing">>}
       \/ /\ (stopping /\ NoFault) \/ (Fault /\ UNCHANGED <<given, silent>>)
          /\ Post("failed", TRUE) /\ UNCHANGED <<cloud, flight>>

\* Shutdown: the server closes, the task ends, the remaining jobs are cancelled.
Stop == /\ ~ stopping /\ stopping' = TRUE
        /\ NoFault /\ UNCHANGED <<cloud, final, flight, job, starts, session>>
Stopped ==
    /\ stopping /\ pc = "idle" /\ pc' = "stopped"
    /\ Local!Cancel({c \in Commands : job[c] \in Local!Active})
    /\ NoFault /\ UNCHANGED <<cloud, final, flight, starts, stopping>>
    /\ UNCHANGED <<cmd, batch, say, tries, refreshed, handling>>

Task == \/ Poll \/ Take \/ PostOk \/ PostFails \/ PostExpired
        \/ Check \/ Submit \/ Watch \/ CancelLocal \/ PollJob \/ Stopped

\* The job server, and its other clients.
Server(c) ==
    /\ Local!Run(c) \/ Local!End(c)
    /\ NoFault /\ UNCHANGED <<cloud, final, flight, starts, session, stopping>>
LocalCancel(c) ==
    /\ job[c] \in Local!Active /\ Local!Cancel({c})
    /\ NoFault /\ UNCHANGED <<cloud, final, flight, starts, session, stopping>>

Next == \/ Task \/ Stop \/ Arrive
        \/ \E c \in Commands : Queue(c) \/ UserCancel(c) \/ Server(c) \/ LocalCancel(c)

Spec == Init /\ [][Next]_vars
FairSpec == Spec /\ WF_vars(Task) /\ \A c \in Commands : WF_vars(Server(c))

-----------------------------------------------------------------------------
(* Properties *)

\* What the cloud says of a command that ended is so: completed only when the job completed,
\* cancelled only when the user or another client cancelled it, failed only when the job
\* or a request failed or the session stopped.  (The job of a command executed once.)
AnswerIsTrue ==
    \A c \in Commands : starts[c] <= 1 =>
        /\ cloud[c] = "completed" => job[c] = "completed"
        /\ cloud[c] = "cancelled" => c \in asked \/ job[c] = "cancelled"
        /\ cloud[c] = "failed" => job[c] = "failed" \/ c \in hit \/ stopping

\* The form of the state, and the truth of what the cloud says.
CloudIsRight == TypeOK /\ AnswerIsTrue

\* A command is submitted to the job server once, whatever is lost, repeated or late,
\* unless an update of it was silently dropped.
ExecutedOnce == \A c \in Commands : starts[c] <= 1 \/ c \in silent

\* A command the user cancelled before its turn is not executed, provided the cloud keeps
\* the cancellation and the question about it is answered.
EarlyCancel == \A c \in early : final => starts[c] = 0 \/ c \in hit

\* Every command is executed as often as it was asked for.
ExecutedAsAsked == ExecutedOnce /\ EarlyCancel

\* An unfinished job is the one the task watches, or a request about it failed.
NoOrphan == \A c \in Commands : job[c] \in Local!Active => c = cmd \/ c \in hit \/ stopping

\* Every queued command ends in the cloud, unless its failure could not be posted or an
\* update was silently dropped; requests fail finitely often, and the cloud keeps ends.
Answered ==
    \A c \in Commands :
        cloud[c] = "pending" /\ final
            ~> cloud[c] \in Ended \/ c \in given \cup silent \/ stopping

=============================================================================
