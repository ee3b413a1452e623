---------------------------- MODULE MCStructures ----------------------------
(***************************************************************************)
(* Data structures that outlive a call, and what a call carries, each on   *)
(* its own.                                                                *)
(*                                                                         *)
(* lfu: LfuCache on three keys, with another cache to merge in.            *)
(* plugin: the store of a Solana plugin, with one entity of a required and *)
(*   a nullable attribute, three slots and a fault.                        *)
(* slab: a side of Serum's order book, four keys of three bits in a slab   *)
(*   with room for three leaves and a node to spare (find_by tells the two *)
(*   values apart and nothing else does).                                  *)
(* queue: three items, and a head that goes all the way round.             *)
(* instruction: on its way from Serum's client, with up to three           *)
(*   OpenOrders accounts.                                                  *)
(***************************************************************************)
EXTENDS LfuCache, PluginStore, RingQueue

CONSTANTS Parts, k1, k2, k3, f1, f2, v1, v2

VARIABLES part, slab, op, answer, call, sent, outcome

-----------------------------------------------------------------------------
\* Lighter than some entry of k1 it replaces, so that total_weight can drift up
\* as well as down.
LightForeign == {(k1 :> [weight |-> 1, will_stale |-> FALSE, stale |-> FALSE, freq |-> 1])}

Saves == {f1 :> v1, f2 :> v2, (f1 :> Null) @@ (f2 :> v1)}

Slab == INSTANCE Critbit WITH
    Bits <- 3, Keys <- {0, 1, 2, 7}, Capacity <- 6, Values <- Items, Limits <- {2, 5}

Client == INSTANCE DexClient WITH MaxOrders <- 3

book == <<slab, op, answer>>
client == <<call, sent, outcome>>

-----------------------------------------------------------------------------
PartsInit ==
    /\ part \in Parts
    /\ Init /\ PluginInit /\ Slab!Init /\ RingInit /\ Client!Init
    /\ part = "plugin" \/ shared

PartsNext ==
    \/ /\ part = "lfu" /\ Next
       /\ UNCHANGED <<part, pluginVars, book, ringVars, client>>
    \/ /\ part = "plugin" /\ PluginNext
       /\ UNCHANGED <<part, vars, book, ringVars, client>>
    \/ /\ part = "slab" /\ Slab!Next
       /\ UNCHANGED <<part, vars, pluginVars, ringVars, client>>
    \/ /\ part = "queue" /\ RingNext
       /\ UNCHANGED <<part, vars, pluginVars, book, client>>
    \/ /\ part = "instruction" /\ Client!Next
       /\ UNCHANGED <<part, vars, pluginVars, book, ringVars>>

\* A thread that is in evict goes on.
PartsSpec ==
    /\ PartsInit
    /\ [][PartsNext]_<<part, vars, pluginVars, book, ringVars, client>>
    /\ WF_vars(part = "lfu" /\ EvictPop)
    /\ WF_vars(part = "lfu" /\ EvictReturn)

\* The tree is an ordered map, and no node of its slab is lost (critbit.rs).
IsAnOrderMap ==
    /\ [](part = "slab" => Slab!TypeOK /\ Slab!NoNodeIsLost /\ Slab!PrefixesNest)
    /\ Slab!Map!Init
    /\ [][part = "slab" => Slab!Map!Next]_book

\* An instruction arrives with the fields and accounts the client gave it: unpack
\* inverts pack, and the parsers of state.rs accept the lists that the client builds,
\* except for the calls the exceptions name.
InstructionsSurvive == part = "instruction" => Client!InstructionsSurvive
=============================================================================
