-------------------------- MODULE Ocp1ClientProofs --------------------------
(***************************************************************************)
(* Requests that overlap on one OCP.1 connection, for any number of        *)
(* callers and handles: each gets its own answer, and none is left waiting *)
(* when the device hangs up.                                               *)
(***************************************************************************)
EXTENDS Ocp1Client, TLAPS

Lines == {"reads", "closed", "desynced"}

\* What a waiting caller has.
Call == [id : Nat, handle : Nat, line : Lines]

\* A connection does not live to use a handle twice: the counter has 2^32
\* values, of which 0 is skipped.
HandlesSuffice ==
    /\ Handles \in Nat /\ FirstHandle \in 0..(Handles - 1)
    /\ MaxRequests \in Nat /\ MaxRequests < Handles
    /\ Handles > 1 /\ None \notin Call \cup {"another's"}

\* The handle of the i-th request: the counter passes over 0 as it wraps.
First == Handle(FirstHandle)
HandleOf(i) ==
    IF First + i - 1 < Handles THEN First + i - 1 ELSE First + i - Handles

Ids == 1..requests
Asked(q) == q.id \in Ids /\ q.handle = HandleOf(q.id)

\* The request of a caller is one of those made, is not nothing, and waits
\* under the handle that it was made with.
Waits(c) ==
    calls[c] # None => /\ calls[c] \in Call /\ Asked(calls[c])
                       /\ calls[c].handle \in DOMAIN pending /\ pending[calls[c].handle] = c

\* A waiter is that of a caller whose request has the handle.
Waited(h) == pending[h] \in Callers /\ calls[pending[h]] # None /\ calls[pending[h]].handle = h

Shapes ==
    /\ requests \in 0..MaxRequests /\ next \in 0..(Handles - 1) /\ reader \in Lines
    /\ Handle(next) = HandleOf(requests + 1)
    /\ DOMAIN calls = Callers /\ calls = [c \in Callers |-> calls[c]]
    /\ DOMAIN got = Callers /\ got = [c \in Callers |-> got[c]]
    /\ pending = [h \in DOMAIN pending |-> pending[h]]
    /\ answers \in Seq([id : Nat, handle : Nat])

Inv ==
    /\ Shapes
    /\ \A c \in Callers : Waits(c)
    /\ \A h \in DOMAIN pending : Waited(h)
    /\ \A q \in asked : q \in [id : Nat, handle : Nat] /\ Asked(q)
    /\ \A i \in 1..Len(answers) : Asked(answers[i])
    /\ AnswersAreTheirs
    /\ HangupWakes

----------------------------------------------------------------------------
(* The counter *)

\* No two requests of a connection have one handle, and none has 0.
LEMMA HandlesDiffer ==
    ASSUME HandlesSuffice, NEW i \in 1..MaxRequests
    PROVE  /\ HandleOf(i) \in 1..(Handles - 1)
           /\ \A j \in 1..MaxRequests : HandleOf(i) = HandleOf(j) => i = j
<1>1. First \in 1..(Handles - 1)  BY DEF First, Handle, HandlesSuffice
<1> QED  BY <1>1 DEF HandleOf, HandlesSuffice

\* Taking a handle leads to the next one.
LEMMA Counts ==
    ASSUME HandlesSuffice, NEW i \in 1..MaxRequests
    PROVE  /\ Advanced(HandleOf(i)) \in 0..(Handles - 1)
           /\ Handle(Advanced(HandleOf(i))) = HandleOf(i + 1)
<1>1. First \in 1..(Handles - 1)  BY DEF First, Handle, HandlesSuffice
<1>2. HandleOf(i) \in 1..(Handles - 1)  BY <1>1 DEF HandleOf, HandlesSuffice
<1>3. \A h \in 0..(Handles - 1) : h % Handles = h  BY DEF HandlesSuffice
<1>4. Handles % Handles = 0  BY DEF HandlesSuffice
<1>5. Advanced(HandleOf(i)) = IF HandleOf(i) = Handles - 1 THEN 0 ELSE HandleOf(i) + 1
  <2>1. CASE HandleOf(i) = Handles - 1  BY <2>1, <1>4 DEF Advanced, Wrap, HandlesSuffice
  <2>2. CASE HandleOf(i) # Handles - 1
    <3>1. HandleOf(i) + 1 \in 0..(Handles - 1)  BY <1>2, <2>2 DEF HandlesSuffice
    <3> QED  BY <1>3, <2>2, <3>1 DEF Advanced, Wrap
  <2> QED  BY <2>1, <2>2
<1> QED  BY <1>1, <1>2, <1>5 DEF HandleOf, Handle, HandlesSuffice

LEMMA InvInit == HandlesSuffice /\ Init => Inv
<1> SUFFICES ASSUME HandlesSuffice, Init PROVE Inv  OBVIOUS
<1>1. HandleOf(1) = Handle(FirstHandle)
  BY DEF HandlesSuffice, HandleOf, First, Handle
<1>2. Shapes
  BY <1>1 DEF HandlesSuffice, Init, Shapes, Lines
<1>3. \A c \in Callers : calls[c] = None /\ got[c] = None  BY DEF Init
<1>4. None # "another's"  BY DEF HandlesSuffice, Call
<1> QED
  BY <1>2, <1>3, <1>4 DEF Init, Inv, Waits, AnswersAreTheirs, HangupWakes

----------------------------------------------------------------------------
(* The callers *)

LEMMA StepRequest ==
    ASSUME HandlesSuffice, Inv, NEW c \in Callers, Request(c)
    PROVE  Inv'
<1> PICK h : h = Handle(next)  OBVIOUS
<1> PICK id : id = requests + 1  OBVIOUS
<1>1. /\ calls[c] = None /\ id \in 1..MaxRequests /\ requests' = id
      /\ h = HandleOf(id) /\ h \in 1..(Handles - 1)
      /\ next' = Advanced(h)
      /\ UNCHANGED <<answers, reader, writer>>
  <2>1. /\ calls[c] = None /\ requests' = id /\ h = HandleOf(id) /\ next' = Advanced(h)
        /\ UNCHANGED <<answers, reader, writer>>
    BY DEF Request, Inv, Shapes
  <2>2. id \in 1..MaxRequests  BY DEF Request, Inv, Shapes, HandlesSuffice
  <2> QED  BY <2>1, <2>2, HandlesDiffer
<1>2. \A i \in Ids : HandleOf(i) # h
  <2>1. \A i \in Ids : i \in 1..MaxRequests /\ i # id
    BY <1>1 DEF Ids, Inv, Shapes, HandlesSuffice
  <2> QED  BY <1>1, <2>1, HandlesDiffer
<1>3. requests' \in 0..MaxRequests /\ next' \in 0..(Handles - 1) /\ Handle(next') = HandleOf(requests' + 1)
  BY <1>1, Counts DEF HandlesSuffice
<1>4. \A q : Asked(q) => Asked(q)'
  BY <1>1 DEF Asked, Ids, Inv, Shapes
<1>5. CASE ~writer
  <2>1. got' = [got EXCEPT ![c] = "disconnected"] /\ UNCHANGED <<calls, pending, asked>>
    BY <1>5 DEF Request
  <2>2. Shapes'  BY <1>1, <1>3, <2>1 DEF Inv, Shapes
  <2>3. AnswersAreTheirs'  BY <2>1 DEF Inv, Shapes, AnswersAreTheirs
  <2>4. \A b \in Callers : Waits(b)'  BY <1>4, <2>1 DEF Inv, Waits
  <2>5. \A k \in DOMAIN pending' : Waited(k)'  BY <2>1 DEF Inv, Waited
  <2> QED  BY <1>1, <1>4, <2>1, <2>2, <2>3, <2>4, <2>5 DEF Inv, HangupWakes
<1>6. CASE writer
  <2> PICK call : call = [id |-> id, handle |-> h, line |-> reader]  OBVIOUS
  <2>1. /\ calls' = [calls EXCEPT ![c] = call]
        /\ pending' = [k \in DOMAIN pending \cup {h} |-> IF k = h THEN c ELSE pending[k]]
        /\ asked' = asked \cup {[id |-> id, handle |-> h]} /\ got' = got
    BY <1>6 DEF Request
  <2>2. call \in Call /\ call # None /\ call.id = id /\ call.handle = h /\ call.line = reader
    BY <1>1 DEF Call, HandlesSuffice, Inv, Shapes
  <2>3. calls'[c] = call /\ \A b \in Callers : b # c => calls'[b] = calls[b]
    BY <2>1 DEF Inv, Shapes
  <2>4. h \notin DOMAIN pending
    <3>1. ASSUME h \in DOMAIN pending PROVE FALSE
      <4>1. Waited(h) /\ Waits(pending[h])  BY <3>1 DEF Inv, Waited
      <4>2. calls[pending[h]].handle = h /\ Asked(calls[pending[h]])  BY <4>1 DEF Waits, Waited
      <4> QED  BY <1>2, <4>2 DEF Asked
    <3> QED  BY <3>1
  <2>5. /\ DOMAIN pending' = DOMAIN pending \cup {h} /\ pending'[h] = c
        /\ \A k \in DOMAIN pending : pending'[k] = pending[k]
    BY <2>1, <2>4
  <2>6. Shapes'
    <3>1. DOMAIN calls' = Callers /\ calls' = [b \in Callers |-> calls'[b]]  BY <2>1 DEF Inv, Shapes
    <3>2. pending' = [k \in DOMAIN pending' |-> pending'[k]]  BY <2>1
    <3> QED  BY <1>1, <1>3, <2>1, <3>1, <3>2 DEF Inv, Shapes
  <2>7. ASSUME NEW b \in Callers PROVE Waits(b)'
    <3>1. CASE b = c  BY <1>1, <2>2, <2>3, <2>5, <3>1 DEF Waits, Asked, Ids
    <3>2. CASE b # c
      <4>1. Waits(b) /\ calls'[b] = calls[b]  BY <2>3, <3>2 DEF Inv
      <4> QED  BY <1>4, <2>5, <4>1 DEF Waits
    <3> QED  BY <3>1, <3>2
  <2>8. ASSUME NEW k \in DOMAIN pending' PROVE Waited(k)'
    <3>1. CASE k = h  BY <2>2, <2>3, <2>5, <3>1 DEF Waited
    <3>2. CASE k # h
      <4>1. k \in DOMAIN pending /\ Waited(k) /\ pending'[k] = pending[k]  BY <2>5, <3>2 DEF Inv
      <4>2. pending[k] # c  BY <1>1, <4>1 DEF Waited
      <4> QED  BY <2>3, <4>1, <4>2 DEF Waited
    <3> QED  BY <3>1, <3>2
  <2>9. ASSUME NEW q \in asked' PROVE q \in [id : Nat, handle : Nat] /\ Asked(q)'
    <3>1. CASE q \in asked  BY <1>4, <3>1 DEF Inv
    <3>2. CASE q = [id |-> id, handle |-> h]  BY <1>1, <3>2 DEF Asked, Ids
    <3> QED  BY <2>1, <3>1, <3>2
  <2>10. HangupWakes'  BY <1>1, <2>2, <2>3 DEF Inv, HangupWakes
  <2>11. AnswersAreTheirs'  BY <2>1 DEF Inv, AnswersAreTheirs
  <2> QED  BY <1>1, <1>4, <2>6, <2>7, <2>8, <2>9, <2>10, <2>11 DEF Inv
<1> QED  BY <1>5, <1>6

\* A caller's request ends, and its waiter goes.
Ends(c) ==
    /\ calls[c] # None
    /\ pending' = Without(calls[c].handle)
    /\ calls' = [calls EXCEPT ![c] = None]

LEMMA StepEnds ==
    ASSUME HandlesSuffice, Inv, NEW c \in Callers, Ends(c), UNCHANGED <<next, requests, reader>>
    PROVE  /\ DOMAIN calls' = Callers /\ calls' = [b \in Callers |-> calls'[b]]
           /\ pending' = [k \in DOMAIN pending' |-> pending'[k]]
           /\ \A b \in Callers : Waits(b)'
           /\ \A k \in DOMAIN pending' : Waited(k)'
           /\ HangupWakes'
<1> PICK h : h = calls[c].handle  OBVIOUS
<1>1. h \in DOMAIN pending /\ pending[h] = c  BY DEF Ends, Inv, Waits
<1>2. /\ DOMAIN pending' = DOMAIN pending \ {h}
      /\ \A k \in DOMAIN pending' : pending'[k] = pending[k]
      /\ pending' = [k \in DOMAIN pending' |-> pending'[k]]
  BY DEF Ends, Without
<1>3. /\ calls'[c] = None /\ \A b \in Callers : b # c => calls'[b] = calls[b]
      /\ DOMAIN calls' = Callers /\ calls' = [b \in Callers |-> calls'[b]]
  BY DEF Ends, Inv, Shapes
<1>4. ASSUME NEW b \in Callers PROVE Waits(b)'
  <2>1. CASE b = c  BY <1>3, <2>1 DEF Waits
  <2>2. CASE b # c
    <3>1. Waits(b) /\ calls'[b] = calls[b]  BY <1>3, <2>2 DEF Inv
    <3>2. calls[b] # None => calls[b].handle # h  BY <1>1, <2>2, <3>1 DEF Waits
    <3> QED  BY <1>2, <3>1, <3>2 DEF Waits, Asked, Ids
  <2> QED  BY <2>1, <2>2
<1>5. ASSUME NEW k \in DOMAIN pending' PROVE Waited(k)'
  <2>1. k \in DOMAIN pending /\ k # h /\ pending'[k] = pending[k] /\ Waited(k)  BY <1>2 DEF Inv
  <2>2. pending[k] # c  BY <2>1 DEF Waited
  <2> QED  BY <1>3, <2>1, <2>2 DEF Waited
<1>6. HangupWakes'  BY <1>3 DEF Inv, HangupWakes
<1> QED  BY <1>2, <1>3, <1>4, <1>5, <1>6

LEMMA StepTimeout ==
    ASSUME HandlesSuffice, Inv, NEW c \in Callers, Timeout(c)
    PROVE  Inv'
<1>1. /\ Ends(c) /\ UNCHANGED <<next, requests, asked, answers, reader, writer>>
      /\ got' = [got EXCEPT ![c] = "timeout"]
  BY DEF Timeout, Ends, TakenBack
<1>2. AnswersAreTheirs' /\ DOMAIN got' = Callers /\ got' = [b \in Callers |-> got'[b]]
  BY <1>1 DEF Inv, Shapes, AnswersAreTheirs
<1>3. /\ DOMAIN calls' = Callers /\ calls' = [b \in Callers |-> calls'[b]]
      /\ pending' = [k \in DOMAIN pending' |-> pending'[k]]
      /\ \A b \in Callers : Waits(b)'
      /\ \A k \in DOMAIN pending' : Waited(k)'
      /\ HangupWakes'
  BY <1>1, StepEnds
<1>4. Shapes'  BY <1>1, <1>2, <1>3 DEF Inv, Shapes
<1> QED  BY <1>1, <1>2, <1>3, <1>4 DEF Inv, Asked, Ids

----------------------------------------------------------------------------
(* The connection *)

LEMMA StepDevice ==
    ASSUME HandlesSuffice, Inv, Answer \/ Forget
    PROVE  Inv'
<1>1. UNCHANGED <<next, requests, pending, calls, got, reader, writer>>  BY DEF Answer, Forget
<1>2. PICK q \in asked : asked' = asked \ {q} /\ (answers' = answers \/ answers' = Append(answers, q))
  BY DEF Answer, Forget
<1>3. q \in [id : Nat, handle : Nat] /\ Asked(q) /\ answers \in Seq([id : Nat, handle : Nat])
  BY <1>2 DEF Inv, Shapes
<1>4. /\ answers' \in Seq([id : Nat, handle : Nat])
      /\ \A i \in 1..Len(answers') : answers'[i] = q \/ (i \in 1..Len(answers) /\ answers'[i] = answers[i])
  <2>1. CASE answers' = answers  BY <1>3, <2>1
  <2>2. CASE answers' = Append(answers, q)
    <3>1. answers' \in Seq([id : Nat, handle : Nat]) /\ Len(answers') = Len(answers) + 1
      BY <1>3, <2>2
    <3>2. ASSUME NEW i \in 1..Len(answers')
          PROVE  answers'[i] = q \/ (i \in 1..Len(answers) /\ answers'[i] = answers[i])
      <4>1. CASE i = Len(answers) + 1  BY <1>3, <2>2, <4>1
      <4>2. CASE i \in 1..Len(answers)  BY <1>3, <2>2, <4>2
      <4> QED  BY <1>3, <3>1, <4>1, <4>2
    <3> QED  BY <3>1, <3>2
  <2> QED  BY <1>2, <2>1, <2>2
<1>5. Shapes'  BY <1>1, <1>4 DEF Inv, Shapes
<1>6. \A r : Asked(r)' <=> Asked(r)  BY <1>1 DEF Asked, Ids
<1>7. (\A c \in Callers : Waits(c)') /\ (\A h \in DOMAIN pending' : Waited(h)')
  BY <1>1, <1>6 DEF Inv, Waits, Waited
<1>8. \A i \in 1..Len(answers') : Asked(answers[i])'
  <2>1. \A i \in 1..Len(answers') : Asked(answers'[i])  BY <1>3, <1>4 DEF Inv
  <2> QED  BY <1>1, <2>1 DEF Asked, Ids
<1> QED  BY <1>1, <1>2, <1>5, <1>6, <1>7, <1>8 DEF Inv, AnswersAreTheirs, HangupWakes

LEMMA StepReadAnswer ==
    ASSUME HandlesSuffice, Inv, ReadAnswer
    PROVE  Inv'
<1> PICK answer : answer = Head(answers)  OBVIOUS
<1> PICK h : h = answer.handle  OBVIOUS
<1>1. /\ answers # <<>> /\ answers' = Tail(answers)
      /\ UNCHANGED <<next, requests, asked, reader, writer>>
  BY DEF ReadAnswer
<1>2. /\ answers \in Seq([id : Nat, handle : Nat]) /\ answer = answers[1] /\ 1 \in 1..Len(answers)
      /\ answers' \in Seq([id : Nat, handle : Nat])
      /\ \A i \in 1..Len(answers') : answers'[i] = answers[i + 1] /\ i + 1 \in 1..Len(answers)
  <2>1. answers \in Seq([id : Nat, handle : Nat]) /\ answers # <<>> /\ answers' = Tail(answers)
    BY <1>1 DEF Inv, Shapes
  <2>2. answer = answers[1] /\ 1 \in 1..Len(answers)  BY <2>1
  <2>3. answers' \in Seq([id : Nat, handle : Nat]) /\ Len(answers') = Len(answers) - 1  BY <2>1
  <2>4. ASSUME NEW i \in 1..Len(answers')
        PROVE  answers'[i] = answers[i + 1] /\ i + 1 \in 1..Len(answers)
    BY <2>1, <2>3, <2>4
  <2> QED  BY <2>1, <2>2, <2>3, <2>4
<1>3. Asked(answer) /\ \A i \in 1..Len(answers') : Asked(answers[i])'
  <2>1. Asked(answer) /\ \A i \in 1..Len(answers') : Asked(answers'[i])  BY <1>2 DEF Inv
  <2> QED  BY <1>1, <2>1 DEF Asked, Ids
<1>4. CASE h \notin DOMAIN pending
  <2>1. UNCHANGED <<pending, calls, got>>  BY <1>4 DEF ReadAnswer, WhoAsked
  <2>2. Shapes'  BY <1>1, <1>2, <2>1 DEF Inv, Shapes
  <2>3. (\A c \in Callers : Waits(c)') /\ (\A k \in DOMAIN pending' : Waited(k)')
    BY <1>1, <2>1 DEF Inv, Waits, Waited, Asked, Ids
  <2> QED  BY <1>1, <1>3, <2>1, <2>2, <2>3 DEF Inv, AnswersAreTheirs, HangupWakes, Asked, Ids
<1>5. CASE h \in DOMAIN pending
  <2> PICK c : c = pending[h]  OBVIOUS
  <2>1. c \in Callers /\ calls[c] # None /\ calls[c].handle = h /\ Waits(c)
    BY <1>5 DEF Inv, Waited
  <2>2. calls[c].id = answer.id
    <3>1. Asked(calls[c])  BY <2>1 DEF Waits
    <3>2. Ids \subseteq 1..MaxRequests  BY DEF Ids, Inv, Shapes, HandlesSuffice
    <3>3. answer.id \in 1..MaxRequests /\ HandleOf(answer.id) = h  BY <1>3, <3>2 DEF Asked
    <3>4. calls[c].id \in 1..MaxRequests /\ HandleOf(calls[c].id) = h  BY <2>1, <3>1, <3>2 DEF Asked
    <3> QED  BY <3>3, <3>4, HandlesDiffer
  <2>3. WhoAsked(answer.handle) = {h} /\ (CHOOSE k \in WhoAsked(answer.handle) : TRUE) = h
    BY <1>5 DEF WhoAsked
  <2>4. /\ pending' = Without(h) /\ calls' = [calls EXCEPT ![c] = None]
        /\ got' = [got EXCEPT ![c] = "answer"]
    BY <2>1, <2>2, <2>3 DEF ReadAnswer
  <2>5. Ends(c)  BY <2>1, <2>4 DEF Ends
  <2>6. /\ DOMAIN calls' = Callers /\ calls' = [b \in Callers |-> calls'[b]]
        /\ pending' = [k \in DOMAIN pending' |-> pending'[k]]
        /\ \A b \in Callers : Waits(b)'
        /\ \A k \in DOMAIN pending' : Waited(k)'
        /\ HangupWakes'
    BY <1>1, <2>1, <2>5, StepEnds
  <2>7. AnswersAreTheirs' /\ DOMAIN got' = Callers /\ got' = [b \in Callers |-> got'[b]]
    BY <2>4 DEF Inv, Shapes, AnswersAreTheirs
  <2>8. Shapes'  BY <1>1, <1>2, <2>6, <2>7 DEF Inv, Shapes
  <2> QED  BY <1>1, <1>3, <2>6, <2>7, <2>8 DEF Inv, Asked, Ids
<1> QED  BY <1>4, <1>5

LEMMA StepHangup ==
    ASSUME HandlesSuffice, Inv, Hangup
    PROVE  Inv'
<1>1. /\ reader' = "closed" /\ answers' = <<>> /\ asked' = {} /\ UNCHANGED <<next, requests, writer>>
      /\ pending' = [h \in {k \in DOMAIN pending : pending[k] \notin AllWoken} |-> pending[h]]
      /\ calls' = [c \in Callers |-> IF c \in AllWoken THEN None ELSE calls[c]]
      /\ got' = [c \in Callers |-> IF c \in AllWoken THEN "disconnected" ELSE got[c]]
  BY DEF Hangup
<1>2. \A h \in DOMAIN pending : pending[h] \in AllWoken  BY DEF AllWoken, Inv, Waited
<1>3. \A c \in Callers : calls[c] # None => c \in AllWoken  BY DEF AllWoken, Inv, Waits
<1>4. DOMAIN pending' = {}  BY <1>1, <1>2
<1>5. \A c \in Callers : calls'[c] = None  BY <1>1, <1>3
<1>6. Shapes'
  <2>1. DOMAIN calls' = Callers /\ calls' = [b \in Callers |-> calls'[b]]  BY <1>1
  <2>2. DOMAIN got' = Callers /\ got' = [b \in Callers |-> got'[b]]  BY <1>1
  <2>3. pending' = [h \in DOMAIN pending' |-> pending'[h]]  BY <1>1
  <2> QED  BY <1>1, <2>1, <2>2, <2>3 DEF Inv, Shapes, Lines
<1>7. AnswersAreTheirs'  BY <1>1 DEF Inv, AnswersAreTheirs
<1> QED  BY <1>1, <1>4, <1>5, <1>6, <1>7 DEF Inv, Waits, HangupWakes

LEMMA StepEnd ==
    ASSUME HandlesSuffice, Inv, Desync \/ WriteFails \/ UNCHANGED vars
    PROVE  Inv'
<1>1. /\ UNCHANGED <<next, requests, pending, calls, got, asked>>
      /\ (reader' = "desynced" /\ answers' = <<>>) \/ UNCHANGED <<reader, answers>>
  BY DEF Desync, WriteFails, vars
<1>2. Shapes'
  <2>1. reader' \in Lines /\ answers' \in Seq([id : Nat, handle : Nat])
    <3>1. CASE reader' = "desynced" /\ answers' = <<>>  BY <3>1 DEF Lines
    <3>2. CASE UNCHANGED <<reader, answers>>  BY <3>2 DEF Inv, Shapes
    <3> QED  BY <1>1, <3>1, <3>2
  <2> QED  BY <1>1, <2>1 DEF Inv, Shapes
<1>3. (\A c \in Callers : Waits(c)') /\ (\A h \in DOMAIN pending' : Waited(h)')
  BY <1>1 DEF Inv, Waits, Waited, Asked, Ids
<1>4. (\A q \in asked' : Asked(q)') /\ (\A i \in 1..Len(answers') : Asked(answers[i])')
  BY <1>1 DEF Inv, Asked, Ids
<1> QED  BY <1>1, <1>2, <1>3, <1>4 DEF Inv, AnswersAreTheirs, HangupWakes

LEMMA InvStep == HandlesSuffice /\ Inv /\ [Next]_vars => Inv'
  BY StepRequest, StepTimeout, StepDevice, StepReadAnswer, StepHangup, StepEnd DEF Next

\* The table holds the waiters, and the invariant the properties.
LEMMA InvEnough == HandlesSuffice /\ Inv => AnswersAreTheirs /\ WaitersArePending /\ HangupWakes
<1> SUFFICES ASSUME HandlesSuffice, Inv PROVE WaitersArePending
  BY DEF Inv
<1>1. ASSUME NEW h \in DOMAIN pending PROVE h # 0
  <2>1. Waited(h) /\ Waits(pending[h])  BY DEF Inv, Waited
  <2>2. Asked(calls[pending[h]]) /\ calls[pending[h]].handle = h  BY <2>1 DEF Waits, Waited
  <2> QED  BY <2>2, HandlesDiffer DEF Asked, Ids, Inv, Shapes, HandlesSuffice
<1> QED  BY <1>1 DEF Inv, Waits, Waited, WaitersArePending

----------------------------------------------------------------------------
(* Theorems *)

\* "Responses are matched back to their waiter by handle": however requests of
\* however many callers overlap, time out and are answered late or out of
\* order, none gets the answer to another, as long as handles are not used twice.
THEOREM NoOneElsesAnswer == ASSUME HandlesSuffice PROVE Spec => []AnswersAreTheirs
<1> QED  BY InvInit, InvStep, InvEnough, PTL DEF Spec

\* pending holds the waiters there are, one each, under the handle they asked
\* with: a request that ended has left nothing behind, and 0 is never used.
THEOREM WaitersKept == ASSUME HandlesSuffice PROVE Spec => []WaitersArePending
<1> QED  BY InvInit, InvStep, InvEnough, PTL DEF Spec

\* "Wake everyone still waiting so they fail fast rather than time out": once
\* the device has hung up nobody waits for what was asked before.
THEOREM NoneLeftWaiting == ASSUME HandlesSuffice PROVE Spec => []HangupWakes
<1> QED  BY InvInit, InvStep, InvEnough, PTL DEF Spec
=============================================================================
