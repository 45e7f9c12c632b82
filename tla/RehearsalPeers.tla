---------------------------- MODULE RehearsalPeers -----------------------------
(***************************************************************************)
(* The tabs of one browser tell one another what they are about to lose    *)
(* (useRehearsalPeers.ts), over a BroadcastChannel: a message reaches the  *)
(* tabs that are open when it is posted, in the order in which it was.     *)
(*                                                                         *)
(* A Tick is one heartbeat period.  A tab that is not throttled beats once *)
(* a period and has handled its messages by the end of it.  A hidden tab   *)
(* is in the back/forward cache: it runs nothing and hears nothing.  A tab *)
(* identifier is used for one mount.                                       *)
(***************************************************************************)
EXTENDS Integers, Sequences, SequencesExt, FiniteSets

CONSTANTS
  Tabs,
  Throttled,          \* tabs whose timers the browser may hold back
  Expiry,             \* PEER_EXPIRY_MS in heartbeat periods
  States,             \* what a tab may be about to lose
  MaxInbox,           \* bound
  MaxChanges          \* bound, of a tab in one period

Flags == [actionPending : BOOLEAN, fileReviewPending : BOOLEAN, hasSessionWork : BOOLEAN]

PeersAssumption ==
  /\ Throttled \subseteq Tabs /\ States \subseteq Flags
  /\ {Expiry, MaxInbox, MaxChanges} \subseteq Nat

VARIABLES
  phase,              \* of a tab: unborn, open, hidden, gone
  state,              \* currentStateRef
  peers,              \* peersRef: peer -> its record, or Unknown
  inbox,              \* messages on the way to a tab, oldest first
  beaten,             \* tabs whose heartbeat of this period has run
  changes             \* of a tab in this period

vars == <<phase, state, peers, inbox, beaten, changes>>

Idle == [actionPending |-> FALSE, fileReviewPending |-> FALSE, hasSessionWork |-> FALSE]
Unknown == [unknown |-> TRUE]
Nobody == [p \in Tabs |-> Unknown]
Open == {t \in Tabs : phase[t] = "open"}

Init ==
  /\ phase = [t \in Tabs |-> "unborn"] /\ state = [t \in Tabs |-> Idle]
  /\ peers = [t \in Tabs |-> Nobody] /\ inbox = [t \in Tabs |-> <<>>] /\ beaten = {}
  /\ changes = [t \in Tabs |-> 0]

\* What a tab says of itself: a busy file review is changed work too.
Posted(s) == [s EXCEPT !.hasSessionWork = s.hasSessionWork \/ s.fileReviewPending]

\* post, to every other open tab, of inboxes `boxes`.
Post(boxes, type, t, s) ==
  [p \in Tabs |-> IF p \in Open \ {t}
                  THEN Append(boxes[p], [type |-> type, from |-> t, state |-> Posted(s)])
                  ELSE boxes[p]]

HasRoom == \A t \in Tabs : Len(inbox[t]) < MaxInbox

Changes(t) ==
  changes[t] < MaxChanges /\ HasRoom /\ changes' = [changes EXCEPT ![t] = @ + 1]

OpenTab(t) ==
  /\ phase[t] = "unborn" /\ HasRoom
  /\ phase' = [phase EXCEPT ![t] = "open"]
  /\ inbox' = Post(inbox, "hello", t, state[t])
  /\ UNCHANGED <<state, peers, beaten, changes>>

ChangeState(t, s) ==
  /\ t \in Open /\ s # state[t] /\ Changes(t)
  /\ state' = [state EXCEPT ![t] = s] /\ inbox' = Post(inbox, "state", t, s)
  /\ UNCHANGED <<phase, peers, beaten>>

\* Fault: a tab that greets is noted, and not answered.
Unanswered(boxes, t, type) == boxes

Answer(boxes, t, type) == IF type = "hello" THEN Post(boxes, "state", t, state[t]) ELSE boxes

RecordOf(message) ==
  IF message.type = "leave" THEN Unknown ELSE [state |-> message.state, age |-> 0]

Receive(t) ==
  /\ t \in Open /\ inbox[t] # <<>>
  /\ LET message == Head(inbox[t]) IN
     /\ peers' = [peers EXCEPT ![t][message.from] = RecordOf(message)]
     /\ inbox' = Answer([inbox EXCEPT ![t] = Tail(@)], t, message.type)
     /\ \A p \in Tabs : Len(inbox'[p]) <= MaxInbox
  /\ UNCHANGED <<phase, state, beaten, changes>>

Expired(record) == record # Unknown /\ record.age > Expiry

Heartbeat(t) ==
  /\ t \in Open \ beaten /\ HasRoom /\ beaten' = beaten \cup {t}
  /\ peers' = [peers EXCEPT ![t] = [p \in Tabs |-> IF Expired(@[p]) THEN Unknown ELSE @[p]]]
  /\ inbox' = Post(inbox, "state", t, state[t])
  /\ UNCHANGED <<phase, state, changes>>

\* pagehide: what is on the way to the tab is lost.
Leave(t) ==
  /\ t \in Open /\ Changes(t)
  /\ phase' = [phase EXCEPT ![t] = "hidden"]
  /\ inbox' = [Post(inbox, "leave", t, state[t]) EXCEPT ![t] = <<>>]
  /\ UNCHANGED <<state, peers, beaten>>

\* pageshow, of a page that was kept.
Rejoin(t) ==
  /\ phase[t] = "hidden" /\ Changes(t)
  /\ phase' = [phase EXCEPT ![t] = "open"] /\ inbox' = Post(inbox, "hello", t, state[t])
  /\ UNCHANGED <<state, peers, beaten>>

\* A hidden page is discarded, or an open one dies without a word.
Vanish(t) ==
  /\ phase[t] \in {"open", "hidden"}
  /\ phase' = [phase EXCEPT ![t] = "gone"] /\ inbox' = [inbox EXCEPT ![t] = <<>>]
  /\ state' = [state EXCEPT ![t] = Idle] /\ peers' = [peers EXCEPT ![t] = Nobody]
  /\ UNCHANGED <<beaten, changes>>

Older(record) ==
  IF record = Unknown THEN record
  ELSE [record EXCEPT !.age = IF @ > Expiry THEN @ ELSE @ + 1]

Tick ==
  /\ Open \ Throttled \subseteq beaten
  /\ \A t \in Open \ Throttled : inbox[t] = <<>>
  /\ beaten' = {} /\ changes' = [t \in Tabs |-> 0]
  /\ peers' = [t \in Tabs |-> [p \in Tabs |-> Older(peers[t][p])]]
  /\ UNCHANGED <<phase, state, inbox>>

Next ==
  \/ \E t \in Tabs : \/ OpenTab(t) \/ Receive(t) \/ Heartbeat(t)
                     \/ Leave(t) \/ Rejoin(t) \/ Vanish(t)
                     \/ \E s \in States : ChangeState(t, s)
  \/ Tick

Spec == Init /\ [][Next]_vars

Fairness == WF_vars(Tick) /\ \A t \in Tabs : WF_vars(Receive(t)) /\ WF_vars(Heartbeat(t))

\* summarizePeers: what holds a destructive action of this tab.
Blocks(s) == s.actionPending \/ s.fileReviewPending \/ s.hasSessionWork
BlockedBy(t) == {p \in Tabs : peers[t][p] # Unknown /\ Blocks(peers[t][p].state)}
-----------------------------------------------------------------------------
(* Properties.                                                             *)

\* A record that tells of a file review tells of changed work too, for the tabs
\* that know only of that (the readers of before fileReviewPending).
Records ==
  [state : {s \in Flags : s.fileReviewPending => s.hasSessionWork}, age : 0..Expiry + 1]
    \cup {Unknown}
TypeOK ==
  /\ phase \in [Tabs -> {"unborn", "open", "hidden", "gone"}]
  /\ state \in [Tabs -> Flags] /\ peers \in [Tabs -> [Tabs -> Records]]
  /\ \A t \in Tabs : Len(inbox[t]) <= MaxInbox /\ (inbox[t] # <<>> => t \in Open)

From(t, p) == \E i \in DOMAIN inbox[t] : inbox[t][i].from = p
Greets(t, p) == \E i \in DOMAIN inbox[p] : inbox[p][i].type = "hello" /\ inbox[p][i].from = t

\* Whatever tabs came, left, came back or changed, and in whatever order they
\* hear of it: once two open tabs have nothing on the way between them, each
\* holds its destructive actions exactly when the other has something to lose.
PresenceAgrees ==
  \A t \in Open, p \in Open \ Throttled :
    t # p /\ ~From(t, p) /\ ~Greets(t, p) => (p \in BlockedBy(t) <=> Blocks(state[p]))

=============================================================================
