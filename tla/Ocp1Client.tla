------------------------------ MODULE Ocp1Client ------------------------------
(***************************************************************************)
(* The OCP.1 controller (crates/ocp1/src/client.rs): requests with a handle *)
(* each, whose answers come back on one TCP connection in any order, late   *)
(* or never, and the reader task that hands each to the caller waiting.     *)
(***************************************************************************)
EXTENDS Integers, Sequences, FiniteSets

CONSTANTS None, Callers,
          Handles,      \* how many handles a u32 holds: fewer here
          FirstHandle,  \* where the counter is as the run begins, near its end
          MaxRequests,  \* bound: at most Handles - 1, so that none is used twice
          InFlight      \* bound: answers on their way

VARIABLES next,      \* next_handle
          requests,  \* bound: requests so far; a request is known by its number
          pending,   \* the waiters: by handle, the caller
          calls,     \* by caller: None, or its request [id, handle, line as it began]
          got,       \* by caller: what its last request came to
          asked,     \* requests the device has not answered
          answers,   \* answers on the connection
          reader,    \* read_loop: "reads", "closed", "desynced"
          writer     \* the writer task takes what is sent
vars == <<next, requests, pending, calls, got, asked, answers, reader, writer>>

Init ==
    /\ next = FirstHandle /\ requests = 0
    /\ pending = [h \in {} |-> None]
    /\ calls = [c \in Callers |-> None]
    /\ got = [c \in Callers |-> None]
    /\ asked = {} /\ answers = <<>>
    /\ reader = "reads" /\ writer = TRUE

Without(h) == [k \in DOMAIN pending \ {h} |-> pending[k]]
Wrap(h) == h % Handles

-----------------------------------------------------------------------------
\* Mutants: the counter is read and not advanced; 0, "no handle", is not skipped.
NotAdvanced(h) == h
TakesZero(h) == h
\* request - 0 is skipped as the counter wraps.
Advanced(h) == Wrap(h + 1)
Handle(h) == IF h = 0 THEN 1 ELSE h

\* The waiter is registered before the command goes out; with no writer task
\* it is taken back at once.
Request(c) ==
    /\ calls[c] = None /\ requests < MaxRequests
    /\ LET h == Handle(next) IN
       /\ next' = Advanced(h) /\ requests' = requests + 1
       /\ IF writer
          THEN /\ calls' = [calls EXCEPT ![c] = [id |-> requests + 1, handle |-> h, line |-> reader]]
               /\ pending' = [k \in DOMAIN pending \cup {h} |-> IF k = h THEN c ELSE pending[k]]
               /\ asked' = asked \cup {[id |-> requests + 1, handle |-> h]}
               /\ UNCHANGED got
          ELSE got' = [got EXCEPT ![c] = "disconnected"] /\ UNCHANGED <<calls, pending, asked>>
    /\ UNCHANGED <<answers, reader, writer>>

\* Mutant: the waiter of a request that timed out is left behind.
LeftBehind(h) == pending
TakenBack(h) == Without(h)

\* The caller gives up, and takes its waiter back.
Timeout(c) ==
    /\ calls[c] # None
    /\ pending' = TakenBack(calls[c].handle)
    /\ calls' = [calls EXCEPT ![c] = None]
    /\ got' = [got EXCEPT ![c] = "timeout"]
    /\ UNCHANGED <<next, requests, asked, answers, reader, writer>>

-----------------------------------------------------------------------------
\* External: the device answers what it was asked, in any order, or never does.
Answer ==
    /\ Len(answers) < InFlight /\ reader = "reads"
    /\ \E q \in asked : /\ asked' = asked \ {q}
                        /\ answers' = Append(answers, q)
    /\ UNCHANGED <<next, requests, pending, calls, got, reader, writer>>

Forget == /\ \E q \in asked : asked' = asked \ {q}
          /\ UNCHANGED <<next, requests, pending, calls, got, answers, reader, writer>>

\* Mutant: an answer is given to whoever waits, whatever its handle.
WhoeverWaits(h) == IF pending = <<>> THEN {} ELSE {CHOOSE k \in DOMAIN pending : TRUE}
WhoAsked(h) == {h} \cap DOMAIN pending

\* read_loop - an answer wakes the waiter of its handle, if there is one still.
ReadAnswer ==
    /\ reader = "reads" /\ answers # <<>> /\ answers' = Tail(answers)
    /\ LET answer == Head(answers) IN
       IF WhoAsked(answer.handle) = {} THEN UNCHANGED <<pending, calls, got>>
       ELSE LET h == CHOOSE k \in WhoAsked(answer.handle) : TRUE
                c == pending[h] IN
            /\ pending' = Without(h)
            /\ calls' = [calls EXCEPT ![c] = None]
            /\ got' = [got EXCEPT ![c] =
                  IF calls[c] # None /\ calls[c].id = answer.id THEN "answer" ELSE "another's"]
    /\ UNCHANGED <<next, requests, asked, reader, writer>>

\* Mutant: the reader just ends.
NoneWoken == {}
AllWoken == {c \in Callers : \E h \in DOMAIN pending : pending[h] = c}

\* The device hangs up, or the read fails: pending is cleared.
Hangup ==
    /\ reader = "reads" /\ reader' = "closed"
    /\ answers' = <<>> /\ asked' = {}
    /\ pending' = [h \in {k \in DOMAIN pending : pending[k] \notin AllWoken} |-> pending[h]]
    /\ calls' = [c \in Callers |-> IF c \in AllWoken THEN None ELSE calls[c]]
    /\ got' = [c \in Callers |-> IF c \in AllWoken THEN "disconnected" ELSE got[c]]
    /\ UNCHANGED <<next, requests, writer>>

\* A length that cannot be one: the reader returns, past the clearing, and the
\* write half stays open.
Desync ==
    /\ reader = "reads" /\ reader' = "desynced" /\ answers' = <<>>
    /\ UNCHANGED <<next, requests, pending, calls, got, asked, writer>>

\* The writer finds the connection closed, on a command or a keepalive.
WriteFails ==
    /\ reader = "closed" /\ writer /\ writer' = FALSE
    /\ UNCHANGED <<next, requests, pending, calls, got, asked, answers, reader>>

Next == Answer \/ Forget \/ ReadAnswer \/ Hangup \/ Desync \/ WriteFails
        \/ \E c \in Callers : Request(c) \/ Timeout(c)

Spec == Init /\ [][Next]_vars

-----------------------------------------------------------------------------
\* A late, lost or reordered answer never becomes the answer to another request.
AnswersAreTheirs == \A c \in Callers : got[c] # "another's"

\* pending holds the waiters there are, one each, under the handle they asked
\* with: nothing is left of a request that ended, and 0 is never a handle.
WaitersArePending ==
    /\ \A h \in DOMAIN pending : /\ h # 0
                                 /\ calls[pending[h]] # None
                                 /\ calls[pending[h]].handle = h
    /\ \A c \in Callers : calls[c] # None => calls[c].handle \in DOMAIN pending

\* "Wake everyone still waiting so they fail fast rather than time out": after
\* the device hung up nobody waits for an answer it asked for before.
HangupWakes ==
    reader = "closed" => \A c \in Callers : calls[c] # None => calls[c].line = "closed"

\* The same of the reader's other end.
EveryEndWakes ==
    reader # "reads" => \A c \in Callers : calls[c] # None => calls[c].line # "reads"
=============================================================================
