--------------------------- MODULE HelperScripts ---------------------------
(***************************************************************************)
(* The root helpers command by command: scripts/add-client.sh (with and    *)
(* without --prepare), remove-client.sh and set-client-state.sh.           *)
(*                                                                         *)
(* A script holds flock .wg-panel.lock from its first read to its end, so  *)
(* one runs at a time.  It is a list of commands; under set -e the first   *)
(* one that fails hands over to the EXIT trap, which chooses its own       *)
(* commands from the flags the script had set by then, and ignores their   *)
(* failures.  SIGKILL (the panel's subprocess timeout) ends either.        *)
(*                                                                         *)
(* Simplifications.  A rename, rm or install happens or fails.  A failing  *)
(* wg set may have taken effect.  A reboot in the middle of a script is a  *)
(* kill followed by a reboot, and wg-quick starts between two scripts.     *)
(***************************************************************************)
EXTENDS PeerStore, Sequences

CONSTANT InfraAddrs

VARIABLES now,     \* the store as the commands have left it
          wg0,     \* "up" or "down"
          run,     \* the running script and its shell variables, or NoRun
          before,  \* the store at the end of the last script
          answer   \* the last call and whether it exited with 0

vars == <<now, wg0, run, before, answer>>

NoRun == [script |-> "none"]
Running == run # NoRun

Commands == {"setLive", "dropLive", "moveBlock", "moveClient", "removeClient",
             "check", "restoreBlock", "restoreClient"}

-----------------------------------------------------------------------------
(* The commands *)

\* mv WG_TMP WG_CONF: each script prepared its own new version.
Moved(s, script, p) ==
    CASE script = "add"     -> [s EXCEPT !.active = @ \cup {p}]
      [] script = "prepare" -> [s EXCEPT !.paused = @ \cup {p}]
      [] script = "remove"  -> [s EXCEPT !.active = @ \ {p}, !.paused = @ \ {p}]
      [] script = "pause"   -> Enveloped(s, p)
      [] script = "resume"  -> Restored(s, p)

\* The store after a command; restoring copies a backup taken at the start.
After(command) ==
    LET p == run.peer
    IN  CASE command = "setLive"      -> [now EXCEPT !.live = RouteTo(@, p)]
          [] command = "dropLive"     -> [now EXCEPT !.live = @ \ {p}]
          [] command = "moveBlock"    -> Moved(now, run.script, p)
          [] command = "restoreBlock" -> [now EXCEPT !.active = before.active,
                                                     !.paused = before.paused]
          [] command = "moveClient"   -> [now EXCEPT !.conf[p.dev] = p]
          [] command = "removeClient" -> [now EXCEPT !.conf[p.dev] = NoPeer]
          [] command = "restoreClient" -> [now EXCEPT !.conf[p.dev] = before.conf[p.dev]]
          [] command = "check"        -> now

UsesWg(command) == command \in {"setLive", "dropLive"}

\* What a script does, for the persistent state its parser found.  "check"
\* stands for the verifications and the last chmod, which only may fail.
\*
\* Mutant: --prepare is forgotten where the peer goes live.
ProgramOfPlainAdd(script, was) ==
    CASE script \in {"add", "prepare"} -> <<"setLive", "moveBlock", "moveClient", "check">>
      [] script = "remove" -> <<"check", "dropLive", "moveBlock", "removeClient", "check">>
      [] script = "pause"  -> <<"dropLive", "check">>
      [] script = "resume" -> <<"setLive", "check">>

Program(script, was) ==
    CASE script = "add"     -> <<"setLive", "moveBlock", "moveClient", "check">>
      [] script = "prepare" -> <<"moveBlock", "moveClient", "check">>
      [] script = "remove"  -> <<"check", "dropLive", "moveBlock", "removeClient", "check">>
      [] script = "pause" /\ was = "active"  -> <<"moveBlock", "dropLive", "check">>
      [] script = "pause" /\ was = "paused"  -> <<"dropLive", "check">>
      [] script = "resume" /\ was = "active" -> <<"setLive", "check">>
      [] script = "resume" /\ was = "paused" -> <<"setLive", "check", "moveBlock", "check">>

\* The EXIT trap: did holds the commands whose flags had been set.  A removal
\* puts back a live peer only if its block was an active one.
\*
\* Mutants: a peer that was live is put back whatever its block was; the
\* configuration is not put back when the block was.
RemovalTrapAlways(did) ==
      (IF "moveBlock" \in did THEN <<"restoreBlock">> ELSE <<>>)
      \o (IF "dropLive" \in did /\ run.seen THEN <<"setLive">> ELSE <<>>)
      \o (IF HasConf(now, run.peer.dev) THEN <<>> ELSE <<"restoreClient">>)
AddTrapKeepsBlock(did) ==
      (IF "setLive" \in did THEN <<"dropLive">> ELSE <<>>)
      \o <<"removeClient">>

AddTrap(did) ==
      (IF "moveBlock" \in did THEN <<"restoreBlock">> ELSE <<>>)
      \o (IF "setLive" \in did THEN <<"dropLive">> ELSE <<>>)
      \o <<"removeClient">>

RemovalTrap(did) ==
      (IF "moveBlock" \in did THEN <<"restoreBlock">> ELSE <<>>)
      \o (IF "dropLive" \in did /\ run.seen /\ run.was = "active"
          THEN <<"setLive">> ELSE <<>>)
      \o (IF HasConf(now, run.peer.dev) THEN <<>> ELSE <<"restoreClient">>)

ResumeTrap(did) ==
    IF run.was = "paused" /\ "moveBlock" \notin did THEN <<"dropLive">> ELSE <<>>

Trap(did) == CASE run.script \in {"add", "prepare"} -> AddTrap(did)
               [] run.script = "remove" -> RemovalTrap(did)
               [] run.script = "resume" -> ResumeTrap(did)
               [] run.script = "pause"  -> <<>>

-----------------------------------------------------------------------------
(* A script's life *)

Ends(script, d, ok) ==
    /\ run' = NoRun
    /\ before' = now'
    /\ answer' = [script |-> script, dev |-> d, ok |-> ok]

\* The peer a script works on: a new key and address, or the client's own.
Subjects(script, d) ==
    IF script \in {"add", "prepare"} THEN NewPeers(now, d, InfraAddrs)
    ELSE {p \in {now.conf[d]} : HasConf(now, d) /\ OneBlock(now, p)}

\* Preconditions and parsers, before anything is changed.
Start(script, d) ==
    /\ ~Running
    /\ \E p \in Subjects(script, d) :
          LET was == IF p \in now.active THEN "active" ELSE "paused"
          IN  run' = [script |-> script, peer |-> p, was |-> was,
                      seen |-> p \in now.live, todo |-> Program(script, was),
                      did |-> {}, trapped |-> FALSE, torn |-> FALSE]
    /\ UNCHANGED <<now, wg0, before, answer>>

Refuse(script, d) ==
    /\ ~Running
    /\ now' = now /\ Ends(script, d, FALSE)
    /\ UNCHANGED wg0

\* A command succeeds; the script that has none left exits with 0.
Succeed ==
    /\ Running /\ run.todo # <<>>
    /\ LET command == Head(run.todo)
       IN  /\ UsesWg(command) => wg0 = "up"
           /\ run.script = "remove" /\ command = "check" => wg0 = "up"
           /\ now' = After(command)
           /\ run' = [run EXCEPT !.todo = Tail(@), !.did = @ \cup {command}]
    /\ UNCHANGED <<wg0, before, answer>>

\* A command fails.  In the script the trap takes over, in the trap the next
\* command runs.  A failing wg set may have taken effect.
Fail ==
    /\ Running /\ run.todo # <<>>
    /\ LET command == Head(run.todo)
       IN  \/ /\ now' = now
              /\ run' = [run EXCEPT !.trapped = TRUE,
                                    !.torn = @ \/ run.trapped,
                                    !.todo = IF run.trapped THEN Tail(@) ELSE Trap(run.did)]
           \/ /\ UsesWg(command) /\ wg0 = "up"
              /\ now' = After(command)
              /\ run' = [run EXCEPT !.trapped = TRUE, !.torn = TRUE,
                                    !.todo = IF run.trapped THEN Tail(@) ELSE Trap(run.did)]
    /\ UNCHANGED <<wg0, before, answer>>

Exit ==
    /\ Running /\ run.todo = <<>>
    /\ now' = now /\ Ends(run.script, run.peer.dev, ~run.trapped)
    /\ UNCHANGED wg0

Kill ==
    /\ Running
    /\ now' = now /\ Ends(run.script, run.peer.dev, FALSE)
    /\ UNCHANGED wg0

Reboot ==
    /\ ~Running
    /\ now' = [now EXCEPT !.live = {}] /\ before' = now' /\ wg0' = "down"
    /\ UNCHANGED <<run, answer>>

WgQuickUp ==
    /\ ~Running /\ wg0 = "down"
    /\ now' = [now EXCEPT !.live = now.active] /\ before' = now' /\ wg0' = "up"
    /\ UNCHANGED <<run, answer>>

Init == /\ now = EmptyStore /\ before = EmptyStore
        /\ wg0 = "up" /\ run = NoRun /\ answer = NoRun

Scripts == {"add", "prepare", "remove", "pause", "resume"}

Next == \/ \E script \in Scripts, d \in Devices : Start(script, d) \/ Refuse(script, d)
        \/ Succeed \/ Fail \/ Exit \/ Kill
        \/ Reboot \/ WgQuickUp

Spec == Init /\ [][Next]_vars

-----------------------------------------------------------------------------
(* Properties *)

\* Whatever fails and whenever it is killed, a script's answer and the store
\* it leaves are a result PeerStore lists: in particular an exit with 0 means
\* everything was done, and no other client is touched.
Calls == INSTANCE HelperCalls WITH store <- before
CallsImplemented == Calls!Spec

\* While a script runs, too, no route appears except the one it is asked for:
\* none at all under --prepare, remove or pause (add-client.sh:304-322).
RoutesOf(s) == s.live \cup s.active
NoRouteAppears ==
    Running =>
        RoutesOf(now) \subseteq RoutesOf(before)
            \cup (IF run.script \in {"add", "resume"} THEN {run.peer} ELSE {})

\* When its own commands work, the EXIT trap leaves a failed script undone:
\* the files as they were and no client in service without its route.  Only a
\* pause that got as far as the envelope stays there, and only a resume that
\* got the peer live and its block back stays complete.
Undone(s, t) ==
    /\ s.conf = t.conf /\ s.active = t.active /\ s.paused = t.paused
    /\ s.live \subseteq t.live /\ (t.live \ s.live) \cap t.active = {}
RollbackRestores ==
    Running /\ run.trapped /\ ~run.torn /\ run.todo = <<>> =>
        \/ Undone(now, before)
        \/ run.script = "pause" /\ run.peer \notin now.active
        \/ run.script = "resume" /\ run.peer \in now.active \cap now.live
=============================================================================
