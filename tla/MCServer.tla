------------------------------ MODULE MCServer ------------------------------
(***************************************************************************)
(* Parts of the server that share no state here, one to a behaviour: how   *)
(* runs get into its history, the findings made of them, and the tunnel of *)
(* a client.                                                               *)
(***************************************************************************)
EXTENDS MCHistorySync

CONSTANTS Jobs, CacheFor, MissedAfter, MaxTime, MaxEvents,
  Hosts, Plain, Locked, MaxCardEvents

VARIABLES
  part,  \* the one this behaviour is about
  now, seen, online, jobs, last, looping, stalled, news, cache, newest, tunnelFails,
  answering, checked, probe, asking, downUntil, upUntil, events,
  exists, row, proved, entry, installed, open, info, draft, base, feedback, call, making, shown, cardEvents

ASSUME AttentionAssumption == {CacheFor, MissedAfter, MaxTime, MaxEvents, MaxCardEvents} \subseteq Nat
ASSUME CardAssumption == Plain # Locked /\ "nothing" \notin Hosts  \* a host has an address

Findings == INSTANCE Attention WITH latest <- newest
Card == INSTANCE TunnelCard WITH events <- cardEvents, MaxEvents <- MaxCardEvents

attentionVars == <<now, seen, online, jobs, last, looping, stalled, news, cache, newest,
                   tunnelFails, answering, checked, probe, asking, downUntil, upUntil, events>>
cardVars == <<exists, row, proved, entry, installed, open, info, draft, base, feedback, call,
              making, shown, cardEvents>>

MCInit == part \in {"sync", "attention", "tunnel"} /\ Init /\ Findings!Init /\ Card!Init

MCNext ==
  \/ part = "sync" /\ Next /\ UNCHANGED <<part, attentionVars, cardVars>>
  \/ part = "attention" /\ Findings!Next /\ UNCHANGED <<part, vars, cardVars>>
  \/ part = "tunnel" /\ Card!Next /\ UNCHANGED <<part, vars, attentionVars>>

MCSpec == MCInit /\ [][MCNext]_<<part, vars, attentionVars, cardVars>>

\* What needs a look is found, and nothing else (Attention).
AttentionKept == part = "attention" => Findings!AttentionHolds

\* A tunnel's credentials are those somebody saw work (TunnelCard).
TunnelKept == part = "tunnel" => Card!TunnelHolds
=============================================================================
