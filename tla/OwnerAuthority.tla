--------------------------- MODULE OwnerAuthority ---------------------------
(***************************************************************************)
(* Who may act as the Owner, and how that can change: without commands,    *)
(* revisions, epochs, revocation marks or proofs.  A sign-in is live from  *)
(* the authentication that made it until something ends it; it also times  *)
(* out.  Authority changes hands in two ways only: a recently              *)
(* authenticated sign-in says so, or a recovery has been pending for the   *)
(* whole cooling-off, during which every sign-in could have cancelled it.  *)
(*                                                                         *)
(* OwnerIdentity is shown to implement this specification.                 *)
(***************************************************************************)
EXTENDS Integers

CONSTANTS CredentialIds, SessionIds, ChannelRefs,
          RecoveryCoolingOff, ChannelCoolingOff, RecentWindow, Lifetime

VARIABLES
  active, retired,   \* credentials that may sign in, that once could
  live,              \* sign-ins that nothing has ended
  used,              \* every session there ever was
  channel,           \* where notices go
  recoverySince,     \* when the pending recovery began, or None
  changeSince, nextChannel,   \* the pending channel change, or None
  clock

None == -1

authority == <<active, retired, live, used, channel, recoverySince,
               changeSince, nextChannel, clock>>

SignIns == [session : SessionIds, credential : CredentialIds, since : Nat]

\* A sign-in that has neither timed out nor become too old to be trusted with
\* a change of authority.
RecentOwner ==
  \E l \in live : l.since <= clock /\ clock <= l.since + Lifetime
                  /\ clock - l.since <= RecentWindow

Init ==
  /\ \E c \in CredentialIds : active = {c}
  /\ retired = {} /\ live = {} /\ used = {}
  /\ channel \in ChannelRefs
  /\ recoverySince = None /\ changeSince = None /\ nextChannel = channel
  /\ clock \in Nat

Credentials == <<active, retired>>
Channels == <<channel, changeSince, nextChannel>>

\* A sign-in replaces at most other sign-ins, and its session was never used.
SignIn ==
  /\ \E l \in live' :
       /\ l.session \notin used /\ l.credential \in active /\ l.since = clock
       /\ live' \ {l} \subseteq live
       /\ used' = used \cup {l.session}
  /\ UNCHANGED <<Credentials, Channels, recoverySince, clock>>

SignOut ==
  /\ RecentOwner /\ live' \subseteq live
  /\ UNCHANGED <<Credentials, Channels, used, recoverySince, clock>>

Enrol ==
  /\ RecentOwner
  /\ \E c \in CredentialIds \ (active \cup retired) : active' = active \cup {c}
  /\ UNCHANGED <<retired, live, used, Channels, recoverySince, clock>>

\* Never the last one, and its sign-ins end with it.
Retire ==
  /\ RecentOwner
  /\ \E c \in active :
       /\ active' = active \ {c} /\ active' # {}
       /\ retired' = retired \cup {c}
       /\ live' = {l \in live : l.credential # c}
  /\ UNCHANGED <<used, Channels, recoverySince, clock>>

BeginRecovery ==
  /\ recoverySince = None /\ recoverySince' = clock
  /\ UNCHANGED <<Credentials, live, used, Channels, clock>>

CancelRecovery ==
  /\ RecentOwner /\ recoverySince # None /\ recoverySince' = None
  /\ UNCHANGED <<Credentials, live, used, Channels, clock>>

\* One new credential replaces them all, and nobody stays signed in.
Recover ==
  /\ recoverySince # None /\ clock >= recoverySince + RecoveryCoolingOff
  /\ \E c \in CredentialIds \ (active \cup retired) : active' = {c}
  /\ retired' = retired \cup active
  /\ live' = {} /\ recoverySince' = None
  /\ UNCHANGED <<used, Channels, clock>>

BeginChannelChange ==
  /\ RecentOwner /\ changeSince = None
  /\ changeSince' = clock /\ nextChannel' \in ChannelRefs
  /\ UNCHANGED <<Credentials, live, used, channel, recoverySince, clock>>

CancelChannelChange ==
  /\ RecentOwner /\ changeSince # None
  /\ changeSince' = None /\ nextChannel' = channel
  /\ UNCHANGED <<Credentials, live, used, channel, recoverySince, clock>>

ChangeChannel ==
  /\ RecentOwner
  /\ changeSince # None /\ clock >= changeSince + ChannelCoolingOff
  /\ channel' = nextChannel /\ changeSince' = None /\ nextChannel' = channel'
  /\ live' = {}
  /\ UNCHANGED <<Credentials, used, recoverySince, clock>>

Tick == clock' = clock + 1
        /\ UNCHANGED <<Credentials, live, used, Channels, recoverySince>>

Next ==
  \/ SignIn \/ SignOut \/ Enrol \/ Retire
  \/ BeginRecovery \/ CancelRecovery \/ Recover
  \/ BeginChannelChange \/ CancelChannelChange \/ ChangeChannel \/ Tick

Spec == Init /\ [][Next]_authority
=============================================================================
