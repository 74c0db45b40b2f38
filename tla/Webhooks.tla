------------------------------ MODULE Webhooks ------------------------------
(***************************************************************************)
(* runs/webhook.ts, TaskWebhook: the deliveries of one run's changes to    *)
(* the webhooks of its project.  A change is queued when the store reports *)
(* it; the queue of the run reads the settings and hands it to the queue   *)
(* of every webhook that wants it; that queue reads the settings again and *)
(* posts it, a few times if need be.  Every await is a step, and the       *)
(* settings may change between any two.  A restart forgets it all.         *)
(***************************************************************************)
EXTENDS Integers, Sequences, FiniteSets

CONSTANTS
  Hook,         \* the webhooks of the project
  Attempts,     \* WEBHOOK_ATTEMPTS
  MaxChanges,   \* bound: the changes of the run's state
  MaxSettings   \* bound: the changes of the settings

VARIABLES
  changes,    \* the changes the store has reported, numbered in their order
  settings,   \* the webhooks that are there and want such changes
  dispatches, \* the run's queue, of changes
  queues,     \* the queue of each webhook
  sending,    \* what each webhook is being sent: a change, its seq and the attempts
  seqs,       \* the last seq used for each webhook
  posted,     \* the change and the seq last posted to each webhook
  error,      \* run.webhook.lastErrorWebhookId
  edits

vars == <<changes, settings, dispatches, queues, sending, seqs, posted, error, edits>>

Nobody == "nobody"
Idle   == [change |-> 0, seq |-> 0, attempts |-> 0]
Change == 0..MaxChanges

TypeOK ==
  /\ changes \in Change /\ settings \subseteq Hook
  /\ dispatches \in Seq(Change) /\ queues \in [Hook -> Seq(Change)]
  /\ sending \in [Hook -> [change : Change, seq : Change, attempts : 0..Attempts]]
  /\ seqs \in [Hook -> Change] /\ posted \in [Hook -> [change : Change, seq : Change]]
  /\ error \in Hook \cup {Nobody} /\ edits \in 0..MaxSettings

Init ==
  /\ changes = 0 /\ settings = Hook /\ dispatches = <<>>
  /\ queues = [w \in Hook |-> <<>>] /\ sending = [w \in Hook |-> Idle]
  /\ seqs = [w \in Hook |-> 0] /\ posted = [w \in Hook |-> [change |-> 0, seq |-> 0]]
  /\ error = Nobody /\ edits = 0

-----------------------------------------------------------------------------
(* observe(), enqueue(): the run enters a state that is to be reported.    *)
Observe ==
  /\ changes < MaxChanges
  /\ changes' = changes + 1 /\ dispatches' = Append(dispatches, changes + 1)
  /\ UNCHANGED <<settings, queues, sending, seqs, posted, error, edits>>

(* Webhooks are added, removed, and select what they want to hear of.      *)
Edit ==
  /\ edits < MaxSettings /\ edits' = edits + 1
  /\ \E wanting \in SUBSET Hook : wanting # settings /\ settings' = wanting
  /\ UNCHANGED <<changes, dispatches, queues, sending, seqs, posted, error>>

(* dispatch(): the settings as they are when the change's turn comes.      *)
Dispatch ==
  /\ dispatches # <<>>
  /\ queues' = [w \in Hook |-> IF w \in settings THEN Append(queues[w], Head(dispatches))
                               ELSE queues[w]]
  /\ dispatches' = Tail(dispatches)
  /\ UNCHANGED <<changes, settings, sending, seqs, posted, error, edits>>

(* deliver(), current(), payload(): the settings are read again when the   *)
(* send has reached the head; a change that is skipped uses no number.     *)
Oldest(w) == Head(queues[w])

\* Mutant of Start: a delivery is taken from the queue before it is made
MutStart(w) ==
  /\ sending[w] = Idle /\ queues[w] # <<>>
  /\ queues' = [queues EXCEPT ![w] = Tail(@)]
  /\ seqs' = [seqs EXCEPT ![w] = @ + 1]
  /\ sending' = IF w \notin settings THEN sending
                ELSE [sending EXCEPT ![w] = [change |-> Oldest(w), seq |-> seqs[w] + 1, attempts |-> 0]]
  /\ UNCHANGED <<changes, settings, dispatches, posted, error, edits>>

Start(w) ==
  /\ sending[w] = Idle /\ queues[w] # <<>>
  /\ queues' = [queues EXCEPT ![w] = Tail(@)]
  /\ IF w \notin settings THEN UNCHANGED <<seqs, sending>>
     ELSE /\ seqs' = [seqs EXCEPT ![w] = @ + 1]
          /\ sending' = [sending EXCEPT ![w] = [change |-> Oldest(w), seq |-> seqs[w] + 1,
                                                attempts |-> 0]]
  /\ UNCHANGED <<changes, settings, dispatches, posted, error, edits>>

(* deliverWithRetries(), recordOutcome(): a success clears the error of    *)
(* the same webhook; the last failure replaces whatever was there.         *)
Recorded(w, ok) ==
  /\ sending' = [sending EXCEPT ![w] = Idle]
  /\ error' = IF ~ok THEN w ELSE IF error = w THEN Nobody ELSE error

Post(w, answer) ==
  /\ sending[w] # Idle
  /\ posted' = [posted EXCEPT ![w] = [change |-> sending[w].change, seq |-> sending[w].seq]]
  /\ CASE answer = "ok"      -> Recorded(w, TRUE)
       [] answer = "refused" -> Recorded(w, FALSE)
       [] answer = "retry"   ->
            IF sending[w].attempts + 1 = Attempts THEN Recorded(w, FALSE)
            ELSE /\ sending' = [sending EXCEPT ![w].attempts = @ + 1]
                 /\ UNCHANGED error
  /\ UNCHANGED <<changes, settings, dispatches, queues, seqs, edits>>

Next ==
  \/ Observe \/ Edit \/ Dispatch
  \/ \E w \in Hook : Start(w) \/ \E answer \in {"ok", "refused", "retry"} : Post(w, answer)

Spec == Init /\ [][Next]_vars

-----------------------------------------------------------------------------
(* What a webhook hears of comes in the order in which it happened, again  *)
(* only with the number it had, and a new number follows the last one, so  *)
(* that the receiver can tell a loss from a change it did not ask for.     *)
Follows(old, new) ==
  \/ new = old
  \/ new.seq = old.seq + 1 /\ new.change > old.change

DeliveriesInOrder == [][\A w \in Hook : Follows(posted[w], posted'[w])]_vars
=============================================================================
