----------------------- MODULE ObservableStatusProofs -----------------------
(***************************************************************************)
(* Proofs about ObservableStatus.                                          *)
(***************************************************************************)
EXTENDS ObservableStatus, TLAPS

-----------------------------------------------------------------------------
(***************************************************************************)
(* Types                                                                   *)
(***************************************************************************)
LEMMA TypeStep ==
  ASSUME TypeOK, [Next]_vars
  PROVE  TypeOK'
<1>0. /\ Capacity \in Nat \ {0} /\ None \notin Status /\ Status \cap Error = {}
      /\ Len(sent) \in Nat
      /\ \A r \in Reader : next[r] \in Int /\ next[r] >= -1 /\ next[r] <= Len(sent)
  BY CapacityAssumption, StatusAssumption DEF TypeOK, Unsubscribed
<1>1. ASSUME NEW s \in Status, Set(s) PROVE TypeOK'
  BY <1>1 DEF TypeOK, Set, Change, readerVars
<1>2. CASE Publish
  <2>1. sending \in Status
    BY <1>2 DEF Publish, TypeOK
  <2>2. sent' \in Seq(Status \cup Error) /\ Len(sent') = Len(sent) + 1
    BY <1>2, <2>1 DEF Publish, TypeOK
  <2>3. next' \in [Reader -> Unsubscribed..Len(sent')]
    BY <1>0, <1>2, <2>2 DEF Publish, readerVars, TypeOK, Unsubscribed
  <2> QED
    BY <1>2, <2>2, <2>3 DEF Publish, readerVars, TypeOK
<1>3. ASSUME NEW e \in Error, TellError(e) PROVE TypeOK'
  <2>1. sent' \in Seq(Status \cup Error) /\ Len(sent') = Len(sent) + 1
    BY <1>3 DEF TellError, TypeOK
  <2>2. next' \in [Reader -> Unsubscribed..Len(sent')]
    BY <1>0, <1>3, <2>1 DEF TellError, readerVars, TypeOK, Unsubscribed
  <2> QED
    BY <1>3, <2>1, <2>2 DEF TellError, readerVars, TypeOK
<1>4. CASE End \/ Drop
  BY <1>4 DEF TypeOK, End, Drop, taskVars, readerVars
<1>5. ASSUME NEW r \in Reader, Subscribe(r) \/ Get(r) \/ Closed(r) PROVE TypeOK'
  <2>1. CASE Subscribe(r)
    BY <1>0, <2>1 DEF TypeOK, Subscribe, taskVars, Unsubscribed
  <2>2. CASE Get(r)
    BY <2>2 DEF TypeOK, Get, taskVars
  <2>3. CASE Closed(r)
    <3>1. over \in [Reader -> BOOLEAN] => [over EXCEPT ![r] = TRUE] \in [Reader -> BOOLEAN]
      BY Zenon
    <3>2. over' \in [Reader -> BOOLEAN]
      BY <2>3, <3>1 DEF TypeOK, Closed
    <3> QED
      BY <2>3, <3>2 DEF TypeOK, Closed, taskVars
  <2> QED
    BY <1>5, <2>1, <2>2, <2>3
<1>6. ASSUME NEW r \in Reader, Lagged(r) PROVE TypeOK'
  <2>1. Resume \in Unsubscribed..Len(sent)
    BY <1>0, <1>6 DEF Lagged, Behind, Subscribed, Unsubscribed, Resume
  <2> QED
    BY <1>6, <2>1 DEF TypeOK, Lagged, taskVars
<1>7. ASSUME NEW r \in Reader, Receive(r) PROVE TypeOK'
  <2>1. next[r] + 1 \in 1..Len(sent)
    BY <1>0, <1>7 DEF Receive, Behind, Subscribed, Unsubscribed
  <2>2. Learnt(r, sent[next[r] + 1]) \in Status \cup {None}
    BY <2>1 DEF TypeOK, Learnt
  <2>3. next' \in [Reader -> Unsubscribed..Len(sent)]
    BY <1>7, <2>1 DEF TypeOK, Receive, Unsubscribed
  <2> QED
    BY <1>7, <2>2, <2>3 DEF TypeOK, Receive, taskVars
<1>8. CASE UNCHANGED vars
  BY <1>8 DEF TypeOK, vars, taskVars, readerVars
<1> QED
  BY <1>1, <1>2, <1>3, <1>4, <1>5, <1>6, <1>7, <1>8 DEF Next

(* Users know statuses, and a reader never runs ahead of the broadcast,    *)
(* whatever the capacity and however many readers there are.               *)
THEOREM TypeCorrect == Spec => []TypeOK
<1>1. Init => TypeOK
  <2> SUFFICES ASSUME Init PROVE TypeOK
    OBVIOUS
  <2>1. failing \in BOOLEAN /\ ended \in BOOLEAN /\ handle \in BOOLEAN
    BY DEF Init
  <2>2. over \in [Reader -> BOOLEAN]
    BY Zenon DEF Init
  <2>3. sent \in Seq(Status \cup Error) /\ Len(sent) = 0
    BY DEF Init
  <2>4. next \in [Reader -> Unsubscribed..Len(sent)]
    BY <2>3 DEF Init, Unsubscribed
  <2> QED
    BY <2>1, <2>2, <2>3, <2>4 DEF Init, TypeOK
<1> QED
  BY <1>1, TypeStep, PTL DEF Spec

-----------------------------------------------------------------------------
(***************************************************************************)
(* What a reader knows                                                     *)
(***************************************************************************)
(* The broadcast ends with the status, unless a value of it is to come: an *)
(* error is followed by the wait that it is the reason of.                 *)
LastSent ==
  /\ sending # None => ~failing /\ sending = status
  /\ sending = None /\ ~failing /\ sent # <<>> => sent[Len(sent)] = status
  /\ \A r \in Reader : ~Subscribed(r) => known[r] = None

LEMMA UpToDateStep ==
  ASSUME TypeOK, LastSent, UpToDate, [Next]_vars
  PROVE  LastSent' /\ UpToDate'
<1> USE DEF LastSent, UpToDate, Subscribed, Behind
<1>0. /\ Capacity \in Nat \ {0} /\ None \notin Status
      /\ Len(sent) \in Nat
      /\ \A r \in Reader : next[r] \in Int /\ next[r] <= Len(sent)
  BY CapacityAssumption, StatusAssumption DEF TypeOK, Unsubscribed
<1>1. ASSUME NEW s \in Status, Set(s) PROVE LastSent' /\ UpToDate'
  BY <1>0, <1>1 DEF Set, Change, Running, readerVars
<1>2. CASE Publish
  <2>1. sent' # <<>> /\ Len(sent') = Len(sent) + 1 /\ sent'[Len(sent')] = sending
    <3>1. sending \in Status \cup Error /\ sent \in Seq(Status \cup Error)
      BY <1>2 DEF Publish, TypeOK
    <3>2. sent' = Append(sent, sending)
      BY <1>2 DEF Publish
    <3> QED
      BY <3>1, <3>2
  <2>2. \A r \in Reader : Len(sent') - next'[r] # 0
    BY <1>0, <1>2, <2>1 DEF Publish, readerVars
  <2> QED
    BY <1>2, <2>1, <2>2 DEF Publish, readerVars
<1>3. ASSUME NEW e \in Error, TellError(e) PROVE LastSent' /\ UpToDate'
  BY <1>3 DEF TellError, Running, readerVars
<1>4. CASE End \/ Drop \/ UNCHANGED vars
  BY <1>4 DEF End, Drop, vars, taskVars, readerVars
<1>5. ASSUME NEW r \in Reader, Subscribe(r) PROVE LastSent' /\ UpToDate'
  BY <1>0, <1>5 DEF Subscribe, taskVars, TypeOK, Unsubscribed
<1>6. ASSUME NEW r \in Reader, Get(r) \/ Closed(r) PROVE LastSent' /\ UpToDate'
  BY <1>6 DEF Get, Closed, taskVars, TypeOK
<1>7. ASSUME NEW r \in Reader, Lagged(r) PROVE LastSent' /\ UpToDate'
  <2>1. next' = [next EXCEPT ![r] = Resume] /\ Resume < Len(sent)
    BY <1>0, <1>7 DEF Lagged, Resume
  <2>2. \A q \in Reader : next'[q] = Unsubscribed => next[q] = Unsubscribed
    BY <1>0, <1>7, <2>1 DEF TypeOK, Lagged, Resume, Unsubscribed
  <2>3. UNCHANGED <<status, sending, failing, sent, known>>
    BY <1>7 DEF Lagged, taskVars
  <2>4. LastSent'
    BY <2>2, <2>3
  <2>5. \A q \in Reader : q # r => next'[q] = next[q]
    BY <2>1 DEF TypeOK
  <2>6. Len(sent) - next'[r] # 0
    BY <1>0, <2>1 DEF TypeOK, Resume
  <2> QED
    BY <2>3, <2>4, <2>5, <2>6
<1>8. ASSUME NEW r \in Reader, Receive(r) PROVE LastSent' /\ UpToDate'
  <2>1. next' = [next EXCEPT ![r] = @ + 1] /\ next[r] \in Nat
    BY <1>0, <1>8 DEF Receive, TypeOK, Unsubscribed
  <2>2. \A q \in Reader : next'[q] = Unsubscribed => q # r /\ next[q] = Unsubscribed
    BY <2>1 DEF TypeOK, Unsubscribed
  <2>3. Len(sent) - next'[r] = 0 /\ sending = None /\ ~failing => known'[r] = status
    <3>1. SUFFICES ASSUME Len(sent) - next'[r] = 0, sending = None, ~failing
                   PROVE  known'[r] = status
      OBVIOUS
    <3>2. next[r] + 1 = Len(sent) /\ sent # <<>>
      BY <1>0, <2>1, <3>1 DEF TypeOK
    <3>3. sent[next[r] + 1] = status /\ status \in Status
      BY <3>1, <3>2 DEF TypeOK
    <3> QED
      BY <1>8, <3>3 DEF Receive, Learnt, TypeOK
  <2> QED
    BY <1>8, <2>1, <2>2, <2>3 DEF Receive, taskVars, TypeOK
<1> QED
  BY <1>1, <1>2, <1>3, <1>4, <1>5, <1>6, <1>7, <1>8 DEF Next

(* Who has read all there is knows the status, whatever lag and errors     *)
(* took from it and whenever it looked for itself.                         *)
THEOREM ReadersUpToDate == Spec => []UpToDate
<1>1. Init => LastSent /\ UpToDate
  BY DEF Init, LastSent, UpToDate, Subscribed
<1>2. TypeOK /\ LastSent /\ UpToDate /\ [Next]_vars => (LastSent /\ UpToDate)'
  BY UpToDateStep
<1> QED
  BY <1>1, <1>2, TypeCorrect, PTL DEF Spec

-----------------------------------------------------------------------------
(***************************************************************************)
(* What is broadcast                                                       *)
(***************************************************************************)
ErrorsBetween(i, j) == \A k \in (i + 1)..(j - 1) : sent[k] \in Error

(* The last status that was broadcast, with nothing but errors behind it,  *)
(* is the status the task is in, and not the one that is to be broadcast.  *)
LastStatusSent ==
  \A i \in 1..Len(sent) :
    sent[i] \in Status /\ ErrorsBetween(i, Len(sent) + 1) =>
      IF sending = None THEN sent[i] = status ELSE sent[i] # sending

(* A value is broadcast behind all others.                                 *)
LEMMA Sends ==
  ASSUME TypeOK, OnlyChanges, NEW v \in Status \cup Error, sent' = Append(sent, v),
         \A i \in 1..Len(sent) :
           v \in Status /\ sent[i] \in Status /\ ErrorsBetween(i, Len(sent) + 1) => sent[i] # v
  PROVE  OnlyChanges'
<1>1. /\ sent \in Seq(Status \cup Error) /\ Len(sent) \in Nat
      /\ Len(sent') = Len(sent) + 1 /\ sent'[Len(sent) + 1] = v
      /\ \A i \in 1..Len(sent) : sent'[i] = sent[i]
  BY DEF TypeOK
<1> SUFFICES ASSUME NEW i \in 1..Len(sent'), NEW j \in 1..Len(sent'), i < j,
                    sent'[i] \in Status, sent'[j] \in Status,
                    \A k \in (i + 1)..(j - 1) : sent'[k] \in Error
             PROVE  sent'[i] # sent'[j]
  BY DEF OnlyChanges
<1>2. i \in 1..Len(sent) /\ sent'[i] = sent[i]
  BY <1>1
<1>3. ErrorsBetween(i, j)
  BY <1>1 DEF ErrorsBetween
<1>4. CASE j = Len(sent) + 1
  BY <1>1, <1>2, <1>3, <1>4
<1>5. CASE j \in 1..Len(sent)
  BY <1>1, <1>2, <1>3, <1>5 DEF OnlyChanges, ErrorsBetween
<1> QED
  BY <1>1, <1>4, <1>5

LEMMA ChangesStep ==
  ASSUME TypeOK, LastSent, LastStatusSent, OnlyChanges, [Next]_vars
  PROVE  LastStatusSent' /\ OnlyChanges'
<1>0. None \notin Status /\ Status \cap Error = {} /\ sent \in Seq(Status \cup Error)
  BY StatusAssumption DEF TypeOK
<1>1. ASSUME NEW s \in Status, Set(s) PROVE LastStatusSent' /\ OnlyChanges'
  <2>1. sent' = sent /\ sending = None /\ status' = s
    BY <1>1 DEF Set, Running
  <2>2. sending' = IF s = status THEN None ELSE s
    BY <1>1 DEF Set, Change
  <2> QED
    BY <1>0, <2>1, <2>2 DEF LastStatusSent, OnlyChanges, ErrorsBetween
<1>2. CASE Publish
  <2>1. sending \in Status /\ sending = status /\ sending # None
    BY <1>2 DEF Publish, TypeOK, LastSent
  <2>2. sent' = Append(sent, sending) /\ sending' = None /\ status' = status
    BY <1>2 DEF Publish
  <2>3. OnlyChanges'
    BY <2>1, <2>2, Sends DEF LastStatusSent
  <2>4. LastStatusSent'
    <3> SUFFICES ASSUME NEW i \in 1..Len(sent'), sent'[i] \in Status,
                        \A k \in (i + 1)..Len(sent') : sent'[k] \in Error
                 PROVE  sent'[i] = status
      BY <2>2 DEF LastStatusSent, ErrorsBetween
    <3>1. Len(sent') = Len(sent) + 1 /\ sent'[Len(sent')] = sending /\ Len(sent) \in Nat
      BY <1>0, <2>1, <2>2
    <3>2. ~(i < Len(sent'))
      BY <1>0, <2>1, <3>1
    <3> QED
      BY <2>1, <3>1, <3>2
  <2> QED
    BY <2>3, <2>4
<1>3. ASSUME NEW e \in Error, TellError(e) PROVE LastStatusSent' /\ OnlyChanges'
  <2>1. sent' = Append(sent, e) /\ UNCHANGED <<status, sending>> /\ e \notin Status
    BY <1>0, <1>3 DEF TellError
  <2>2. OnlyChanges'
    BY <2>1, Sends
  <2>3. /\ Len(sent') = Len(sent) + 1 /\ sent'[Len(sent')] = e /\ Len(sent) \in Nat
        /\ \A i \in 1..Len(sent) : sent'[i] = sent[i]
    BY <1>0, <2>1
  <2>4. ASSUME NEW i \in 1..Len(sent'), sent'[i] \in Status,
               \A k \in (i + 1)..Len(sent') : sent'[k] \in Error
        PROVE  i \in 1..Len(sent) /\ sent[i] \in Status /\ ErrorsBetween(i, Len(sent) + 1)
    BY <2>1, <2>3, <2>4 DEF ErrorsBetween
  <2>5. LastStatusSent'
    BY <2>1, <2>3, <2>4 DEF LastStatusSent, ErrorsBetween
  <2> QED
    BY <2>2, <2>5
<1>4. CASE UNCHANGED <<sent, sending, status>>
  BY <1>4 DEF LastStatusSent, OnlyChanges, ErrorsBetween
<1> QED
  BY <1>1, <1>2, <1>3, <1>4 DEF Next, End, Drop, Subscribe, Get, Receive, Lagged, Closed,
    taskVars, vars

(* No status is broadcast twice in a row, whatever errors lie between.     *)
THEOREM ChangesOnly == Spec => []OnlyChanges
<1>1. Init => LastSent /\ UpToDate /\ LastStatusSent /\ OnlyChanges
  BY DEF Init, LastSent, UpToDate, LastStatusSent, OnlyChanges, Subscribed
<1>2. TypeOK /\ LastSent /\ UpToDate /\ LastStatusSent /\ OnlyChanges /\ [Next]_vars
        => (LastSent /\ UpToDate /\ LastStatusSent /\ OnlyChanges)'
  BY UpToDateStep, ChangesStep
<1> QED
  BY <1>1, <1>2, TypeCorrect, PTL DEF Spec
=============================================================================
