---------------------------- MODULE HelperCalls ----------------------------
(***************************************************************************)
(* What the panel may assume of the root helpers: a call takes the store   *)
(* from one state to the next at once, and its answer and the state it     *)
(* leaves are one of the results of PeerStore.  Module HelperScripts shows *)
(* that the scripts, run command by command, behave like this.             *)
(***************************************************************************)
EXTENDS PeerStore

CONSTANT InfraAddrs

VARIABLES store,   \* what the helpers keep
          wg0,     \* "up", or "down" between a reboot and wg-quick
          answer   \* the last call and whether it reported success

vars == <<store, wg0, answer>>

Scripts == {"add", "prepare", "remove", "pause", "resume"}

Results(script, d) ==
    CASE script = "add"     -> AddClient(store, d, InfraAddrs, wg0)
      [] script = "prepare" -> PrepareClient(store, d, InfraAddrs)
      [] script = "remove"  -> RemoveClient(store, d, wg0)
      [] script = "pause"   -> PauseClient(store, d, wg0)
      [] script = "resume"  -> ResumeClient(store, d, wg0)

Init == store = EmptyStore /\ wg0 = "up" /\ answer = [script |-> "none"]

Call(script, d) ==
    /\ \E r \in Results(script, d) :
          /\ store' = r.store
          /\ answer' = [script |-> script, dev |-> d, ok |-> r.ok]
    /\ UNCHANGED wg0

Reboot == /\ wg0' = "down" /\ store' = [store EXCEPT !.live = {}]
          /\ UNCHANGED answer

WgQuickUp == /\ wg0 = "down"
             /\ wg0' = "up" /\ store' = [store EXCEPT !.live = store.active]
             /\ UNCHANGED answer

Next == (\E script \in Scripts, d \in Devices : Call(script, d)) \/ Reboot \/ WgQuickUp

Spec == Init /\ [][Next]_vars
=============================================================================
