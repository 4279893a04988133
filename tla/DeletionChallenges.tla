------------------------- MODULE DeletionChallenges -------------------------
(***************************************************************************)
(* The confirmation a person gives before a profile is deleted: a page     *)
(* with a random nonce, and a submission that must bring it back from the  *)
(* same session for the same, unchanged profile (deletion.py and the       *)
(* routes that use it).  Every operation holds the lifecycle lock; between *)
(* the page and the submission anything may happen to the profile, the     *)
(* session, the table of challenges and the process.                       *)
(*                                                                         *)
(* Simplifications.  A profile is its configuration (the hash) and its     *)
(* deletion protection; its owner and device name follow from its name.    *)
(* A session's tokens are one number.  Nonces and configurations are       *)
(* numbered in the order they were made.                                   *)
(***************************************************************************)
EXTENDS Integers, Sequences, FiniteSets

CONSTANTS Sessions, Profiles,
          May,            \* which session may manage which profile
          MaxChallenges,
          MaxMade,        \* bounds: nonces, configurations per profile,
          MaxConfigs,
          MaxRotations    \* and logins of a session

ASSUME MayAssumption == May \subseteq Sessions \X Profiles
ASSUME ChallengesAssumption == MaxChallenges \in Nat \ {0} /\ MaxConfigs \in Nat \ {0}
ASSUME BoundsAssumption == MaxMade \in Nat /\ MaxRotations \in Nat

VARIABLES
    peer,       \* per name: its profile's configuration (0: none) and protection
    rotation,   \* per session: changes with every login and CSRF rotation
    challenges, \* _challenges
    made,       \* the last nonce
    intact,     \* ghost: nonces whose session and profile are still those the
                \* page was rendered for
    accepted    \* ghost: the accepted submissions in order, and whether each
                \* was for what its page showed

challengeVars == <<peer, rotation, challenges, made, intact, accepted>>

\* The nonces still held that were issued to a session, or for a profile.
IssuedTo(s) == {c.nonce : c \in {x \in challenges : x.actor[1] = s}}
IssuedFor(d) == {c.nonce : c \in {x \in challenges : x.identity[1] = d}}

\* _deletion_actor, _deletion_identity
Actor(s) == <<s, rotation[s]>>
Identity(d) == <<d, peer[d].config, peer[d].protected>>

\* _authorized_device
Authorized(s, d) == <<s, d>> \in May /\ peer[d].config # 0

\* fresh: younger than CHALLENGE_TTL_SECONDS.
Challenge == [nonce : 1..MaxMade, actor : Sessions \X (0..MaxRotations),
              identity : Profiles \X (1..MaxConfigs) \X BOOLEAN, fresh : BOOLEAN]

\* issue: expired challenges go, then the oldest while there is no room.
\* Mutant: only the expired ones go.
Unexpired == {c \in challenges : c.fresh}
RoomyUnbounded == Unexpired
Roomy == LET excess == Cardinality(Unexpired) - (MaxChallenges - 1)
         IN  {c \in Unexpired : Cardinality({x \in Unexpired : x.nonce < c.nonce}) >= excess}

Confirm(s, d) ==
    /\ Authorized(s, d) /\ made < MaxMade
    /\ made' = made + 1
    /\ challenges' = Roomy \cup
          {[nonce |-> made + 1, actor |-> Actor(s), identity |-> Identity(d), fresh |-> TRUE]}
    /\ intact' = intact \cup {made + 1}
    /\ UNCHANGED <<peer, rotation, accepted>>

\* consume.  Mutant: the profile is compared by its name only.
SameName(c, s, d) == c.fresh /\ c.actor = Actor(s) /\ c.identity[1] = d
Valid(c, s, d) == c.fresh /\ c.actor = Actor(s) /\ c.identity = Identity(d)

\* What c's page was: rendered for this session and this profile, neither
\* replaced since, under the protection the profile has.
Shown(c, s, d) ==
    /\ c.nonce \in intact /\ c.actor[1] = s
    /\ c.identity[1] = d /\ c.identity[3] = peer[d].protected

\* delete_device_confirmed: the challenge is spent whatever the verdict, and
\* consent is the checkbox and, for a protected profile, its typed name.  The
\* helper may fail and leave the profile.
Submit(s, d, c, consent) ==
    /\ Authorized(s, d) /\ c \in challenges
    /\ challenges' = challenges \ {c}
    /\ IF Valid(c, s, d) /\ consent
       THEN /\ accepted' = Append(accepted, [nonce |-> c.nonce, asShown |-> Shown(c, s, d)])
            /\ \/ peer' = [peer EXCEPT ![d].config = 0, ![d].protected = FALSE]
                  /\ intact' = intact \ IssuedFor(d)
               \/ UNCHANGED <<peer, intact>>
       ELSE UNCHANGED <<accepted, peer, intact>>
    /\ UNCHANGED <<rotation, made>>

-----------------------------------------------------------------------------
(* Meanwhile *)

\* The profile goes another way: another session's deletion, the cleanup, its
\* account's.  Its owner may make one of the same name again.
RemovedElsewhere(d) ==
    /\ peer[d].config # 0 /\ ~peer[d].protected
    /\ peer' = [peer EXCEPT ![d].config = 0]
    /\ intact' = intact \ IssuedFor(d)
    /\ UNCHANGED <<rotation, challenges, made, accepted>>

MadeAgain(d) ==
    /\ peer[d].config = 0 /\ peer[d].last < MaxConfigs
    /\ peer' = [peer EXCEPT ![d].config = peer[d].last + 1, ![d].last = @ + 1]
    /\ UNCHANGED <<rotation, challenges, made, intact, accepted>>

\* set_device_deletion_protected, on the server.
Protect(d) ==
    /\ peer[d].config # 0
    /\ peer' = [peer EXCEPT ![d].protected = ~@]
    /\ UNCHANGED <<rotation, challenges, made, intact, accepted>>

Rotate(s) ==
    /\ rotation[s] < MaxRotations
    /\ rotation' = [rotation EXCEPT ![s] = @ + 1]
    /\ intact' = intact \ IssuedTo(s)
    /\ UNCHANGED <<peer, challenges, made, accepted>>

Lapse(c) ==
    /\ c.fresh /\ challenges' = (challenges \ {c}) \cup {[c EXCEPT !.fresh = FALSE]}
    /\ UNCHANGED <<peer, rotation, made, intact, accepted>>

ChallengesLost ==
    /\ challenges' = {}
    /\ UNCHANGED <<peer, rotation, made, intact, accepted>>

ChallengesInit ==
    /\ peer = [d \in Profiles |-> [config |-> 1, protected |-> FALSE, last |-> 1]]
    /\ rotation = [s \in Sessions |-> 0]
    /\ challenges = {} /\ made = 0 /\ intact = {} /\ accepted = <<>>

ChallengesNext ==
    \/ \E s \in Sessions, d \in Profiles :
          \/ Confirm(s, d)
          \/ \E c \in challenges, consent \in BOOLEAN : Submit(s, d, c, consent)
    \/ \E d \in Profiles : Protect(d) \/ RemovedElsewhere(d) \/ MadeAgain(d)
    \/ \E s \in Sessions : Rotate(s)
    \/ \E c \in challenges : Lapse(c)
    \/ ChallengesLost

ChallengesSpec == ChallengesInit /\ [][ChallengesNext]_challengeVars

-----------------------------------------------------------------------------
(* Properties *)

\* Every variable holds what the process and its table can hold.
ChallengesTypeOK ==
    /\ peer \in [Profiles -> [config : 0..MaxConfigs, protected : BOOLEAN, last : 1..MaxConfigs]]
    /\ rotation \in [Sessions -> 0..MaxRotations]
    /\ challenges \subseteq Challenge /\ Cardinality(challenges) <= MaxChallenges
    /\ made \in 0..MaxMade /\ intact \subseteq 1..made

\* A confirmed deletion acts on the profile its page showed, for the session
\* that saw the page, and every page counts once: also after the profile was
\* deleted and made again under its name, its protection changed, somebody else
\* logged in, the table overflowed, a challenge aged or the panel restarted.
ConfirmedAsShown ==
    \A i \in DOMAIN accepted :
        /\ accepted[i].asShown
        /\ \A j \in DOMAIN accepted : accepted[i].nonce = accepted[j].nonce => i = j

=============================================================================
