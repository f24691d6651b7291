--------------------------- MODULE ObservableStatus ---------------------------
(***************************************************************************)
(* How users follow the status of a socket or a channel                    *)
(* (src/rust/observable_status.rs): the task sets it, anybody may get it,  *)
(* and those who have subscribed are sent its changes, and the errors the  *)
(* task tells of, over a broadcast that keeps the last values only.        *)
(*                                                                         *)
(* The task and the users of the socket or channel are the environment.    *)
(***************************************************************************)
EXTENDS Integers, Sequences

CONSTANTS Status,     \* statuses a task can be in
          ShutDown,   \* the one it sets when it ends as it should
          Waiting,    \* the ones that say until when it waits to try again
          Error,      \* what the task tells of besides: a rejected join, a failed connect
          None,       \* no status
          Reader,     \* Statuses: what users have subscribed with
          Capacity,   \* values the broadcast keeps (10 in the code)
          MaxSent     \* values sent in a behaviour

ASSUME StatusAssumption ==
  /\ ShutDown \in Status /\ Waiting \subseteq Status \ {ShutDown}
  /\ None \notin Status \cup Error
  /\ Status \cap Error = {}
ASSUME CapacityAssumption == Capacity \in Nat \ {0} /\ MaxSent \in Nat

VARIABLES
  status,   \* ObservableStatus::status
  sending,  \* what set is to broadcast, once it has swapped the status
  failing,  \* the task has told of an error, and is about to wait
  sent,     \* what has been broadcast; the last Capacity values of it are kept
  ended,    \* the task, and with it its sender, is gone
  handle,   \* a user holds the Socket or Channel, and with it a sender
  next,     \* per reader: how many of `sent` are behind it, or Unsubscribed
  known,    \* per reader: the status its user knows of
  over      \* per reader: its user was told NoMoreStatuses

taskVars == <<status, sending, failing, sent, ended>>
readerVars == <<next, known, over>>
vars == <<taskVars, handle, readerVars>>

Unsubscribed == -1
Subscribed(r) == next[r] # Unsubscribed

Init ==
  /\ status \in Status \ {ShutDown} /\ sending = None /\ failing = FALSE
  /\ sent = <<>> /\ ended = FALSE
  /\ handle = TRUE
  /\ next = [r \in Reader |-> Unsubscribed]
  /\ known = [r \in Reader |-> None] /\ over = [r \in Reader |-> FALSE]

-----------------------------------------------------------------------------
(***************************************************************************)
(* The task                                                                *)
(***************************************************************************)
\* Mutant: every status is broadcast, changed or not.
ChangeAny(s) == s
\* Mutant: to wait again is no change.
ChangeOfKind(s) == IF s = status \/ {s, status} \subseteq Waiting THEN None ELSE s
(* What set has to broadcast: nothing, when the status is what it was.     *)
Change(s) == IF s = status THEN None ELSE s

Running == ~ended /\ sending = None /\ status # ShutDown

(* set: the swap, of which a reader can know before it is broadcast.  The  *)
(* deadline of a wait is like no other.                                    *)
Set(s) ==
  /\ Running /\ Len(sent) < MaxSent
  /\ failing => s \in Waiting \ {status}
  /\ status' = s /\ sending' = Change(s) /\ failing' = FALSE
  /\ UNCHANGED <<sent, ended, handle, readerVars>>

(* set: the broadcast.                                                     *)
Publish ==
  /\ sending # None
  /\ sent' = Append(sent, sending) /\ sending' = None
  /\ UNCHANGED <<status, failing, ended, handle, readerVars>>

(* error: the status stays what it is, until the handler that failed has   *)
(* the task wait.                                                          *)
TellError(e) ==
  /\ Running /\ ~failing /\ Len(sent) + 1 < MaxSent
  /\ sent' = Append(sent, e) /\ failing' = TRUE
  /\ UNCHANGED <<status, sending, ended, handle, readerVars>>

(* The task ends after its last status, or on an error without one.        *)
End ==
  /\ ~ended /\ sending = None /\ ~failing
  /\ ended' = TRUE
  /\ UNCHANGED <<status, sending, failing, sent, handle, readerVars>>

-----------------------------------------------------------------------------
(***************************************************************************)
(* Users                                                                   *)
(***************************************************************************)
Subscribe(r) ==
  /\ handle /\ ~Subscribed(r)
  /\ next' = [next EXCEPT ![r] = Len(sent)]
  /\ UNCHANGED <<taskVars, handle, known, over>>

(* The user asks for the status, having subscribed first.                  *)
Get(r) ==
  /\ handle /\ Subscribed(r)
  /\ known' = [known EXCEPT ![r] = status]
  /\ UNCHANGED <<taskVars, handle, next, over>>

Behind(r) == Len(sent) - next[r]

\* Mutant: an error is taken for a status.
LearntAny(r, v) == v
(* Statuses::status gives Ok(status) or the error.                         *)
Learnt(r, v) == IF v \in Status THEN v ELSE known[r]

Receive(r) ==
  /\ Subscribed(r) /\ Behind(r) \in 1..Capacity
  /\ next' = [next EXCEPT ![r] = @ + 1]
  /\ known' = [known EXCEPT ![r] = Learnt(r, sent[next[r] + 1])]
  /\ UNCHANGED <<taskVars, handle, over>>

\* Mutant: a reader that lags starts over with what comes next.
ResumeAtEnd == Len(sent)
(* Lagged is MissedStatuses, and the next value the oldest that is kept.   *)
Resume == Len(sent) - Capacity
Lagged(r) ==
  /\ Subscribed(r) /\ Behind(r) > Capacity
  /\ next' = [next EXCEPT ![r] = Resume]
  /\ UNCHANGED <<taskVars, handle, known, over>>

\* Mutant: a reader goes on waiting for a task that is gone.
NoMoreWhileHeld == ~handle /\ ~ended
NoMore == ~handle /\ ended
(* Closed is NoMoreStatuses: all senders are gone, and everything is read. *)
Closed(r) ==
  /\ Subscribed(r) /\ Behind(r) = 0 /\ NoMore /\ ~over[r]
  /\ over' = [over EXCEPT ![r] = TRUE]
  /\ UNCHANGED <<taskVars, handle, next, known>>

(* The last handle goes: a channel's task shuts down by that when it comes *)
(* back to its select, a socket's task does not notice.                    *)
Drop ==
  /\ handle /\ handle' = FALSE
  /\ UNCHANGED <<taskVars, readerVars>>

Next ==
  \/ \E s \in Status : Set(s)
  \/ Publish \/ End \/ Drop
  \/ \E e \in Error : TellError(e)
  \/ \E r \in Reader : Subscribe(r) \/ Get(r) \/ Receive(r) \/ Lagged(r) \/ Closed(r)

Spec == Init /\ [][Next]_vars

(* Readers go on reading and handlers end; a task need not, even when      *)
(* nobody holds it any more: a socket that is not shut down runs on.       *)
FairSpec ==
  /\ Spec
  /\ WF_vars(Publish) /\ WF_vars(failing /\ \E s \in Status : Set(s))
  /\ \A r \in Reader : WF_vars(Receive(r) \/ Lagged(r) \/ Closed(r))

-----------------------------------------------------------------------------
(***************************************************************************)
(* Properties                                                              *)
(***************************************************************************)
(* Users know statuses only, and no reader is ahead of the broadcast.      *)
TypeOK ==
  /\ status \in Status /\ sending \in Status \cup {None}
  /\ failing \in BOOLEAN
  /\ sent \in Seq(Status \cup Error)
  /\ ended \in BOOLEAN /\ handle \in BOOLEAN
  /\ next \in [Reader -> Unsubscribed..Len(sent)]
  /\ known \in [Reader -> Status \cup {None}]
  /\ over \in [Reader -> BOOLEAN]

(* A user who has subscribed, and read all there is, knows the status, or  *)
(* it has not changed since: however many values were lost on the way, to  *)
(* errors among others, and wherever a look at the status fell between its *)
(* swap and its broadcast.                                                 *)
UpToDate ==
  \A r \in Reader : Subscribed(r) /\ Behind(r) = 0 /\ sending = None /\ ~failing =>
    known[r] \in {status, None}

(* Who is told of a status is told of a change: the statuses broadcast,    *)
(* whatever errors are between them, are never the same twice in a row.    *)
OnlyChanges ==
  \A i, j \in 1..Len(sent) :
    /\ i < j /\ sent[i] \in Status /\ sent[j] \in Status
    /\ \A k \in (i + 1)..(j - 1) : sent[k] \in Error
    => sent[i] # sent[j]

(* Who keeps reading comes to know the status, or it changes again.        *)
ReadersCatchUp ==
  \A r \in Reader, s \in Status :
    Subscribed(r) /\ known[r] # None /\ status = s ~> known[r] = s \/ status # s

(* Who keeps reading is told of the end once the task has ended and nobody *)
(* holds the socket or channel: whatever it lost to lag on the way, it     *)
(* does not wait for a status for ever (NoMoreStatuses).                   *)
EndIsNoticed == \A r \in Reader : ended /\ ~handle /\ Subscribed(r) ~> over[r]
=============================================================================
