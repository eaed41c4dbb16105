---------------------------- MODULE ContextPacks ----------------------------
(***************************************************************************)
(* The compaction of a session's context into a pack: PMAgent.compact over *)
(* core/context_compression.py and core/context_budget.py, and what        *)
(* DispatchService.compact keeps of it.                                    *)
(*                                                                         *)
(* A pack is a set of items, each of one section, with an importance and a *)
(* size in tokens. What is taken out to make it fit is listed as omitted,  *)
(* and an entry of that list has a size of its own. The loops of           *)
(* context_pack_to_text are one step per item. That the minimal pack also  *)
(* shortens the goal and the summary is left out: the frame has one size.  *)
(***************************************************************************)
EXTENDS Integers, FiniteSets, SequencesExt

CONSTANTS
    Item,           \* items the model may put into a pack: section, importance, size
    Frame,          \* the size of a pack without items
    Entry,          \* the size of an entry of the list of omissions
    Core,           \* constraints and facts that are protected, of each
    ListKept,       \* entries that stay when the list is trimmed
    ListCopied,     \* entries that the minimal pack takes over
    MaxPrior,       \* entries the model's own list may hold, a bound
    Floor,          \* the least window
    Cap,            \* the most a pack may have
    ContextLengths, Configured, Reserves    \* what /models and the settings may say

Items == DOMAIN Item

Protected == <<"constraints", "verified_facts">>
\* In the order they are evicted in; of the first two the oldest goes first.
Evicted == <<"dynamic_tail", "retrieved_evidence", "tests", "commands", "files", "next_steps",
             "risks", "open_questions", "claims", "decisions">>
ByAge == {"dynamic_tail", "retrieved_evidence"}

\* An importance is clamped.
PackItem == [section : ToSet(Protected) \cup ToSet(Evicted), importance : 0 .. 100, size : Nat]

ASSUME ContextPacksAssumption ==
    /\ Item \in Seq(PackItem)
    /\ Frame \in Nat /\ Entry \in Nat /\ Core \in Nat /\ MaxPrior \in Nat
    /\ ListKept \in Nat /\ ListCopied \in Nat \ {0} /\ Floor \in Nat /\ Cap \in Nat
    /\ ContextLengths \subseteq Nat /\ Configured \subseteq Nat /\ Reserves \subseteq Nat

VARIABLES
    step,       \* where context_pack_to_text is
    room,       \* max_chars, in tokens
    reply,      \* history: the items of the model's pack
    kept,       \* those still in it
    list,       \* the omissions: items, or Earlier and Marker for the others
    stored      \* what the session's plan holds

packVars == <<step, room, reply, kept, list, stored>>

Earlier == 0        \* an entry of the model's own
Marker == -1        \* the entry that says the pack has been cut

PackInit ==
    /\ step = "idle" /\ room = 0 /\ reply = {} /\ kept = {} /\ list = <<>>
    /\ stored = "nothing"

Of(section, s) == {i \in s : Item[i].section = section}

Dumped(s, l) == FoldSet(LAMBDA i, sum : sum + Item[i].size, Frame + Entry * Len(l), s)
Fits == Dumped(kept, list) <= room

-----------------------------------------------------------------------------
(* The budget.                                                             *)

Least(a, b) == IF a < b THEN a ELSE b
Most(a, b) == IF a > b THEN a ELSE b

\* The window of the model, if /models tells it, less the reserve for its answer.
WindowTokens(length, configured, reserve) ==
    LET window == IF length > 0 THEN Least(length, configured) ELSE configured
    IN  Most(Floor, window - Most(0, Least(reserve, window - Floor)))

\* A quarter of it is for the session's memory.
LaneBudget(window) == Least(window \div 4, Cap)

-----------------------------------------------------------------------------
(* The pack.                                                               *)

\* The most important ones; of equals, the first in the list.
Top(section, s) ==
    {i \in Of(section, s) :
        Cardinality({j \in Of(section, s) : \/ Item[j].importance > Item[i].importance
                                            \/ Item[j].importance = Item[i].importance /\ j < i}) < Core}
TopOf(s) == UNION {Top(section, s) : section \in ToSet(Protected)}

\* The model's reply is read; its own omissions are taken over.
Compact(s, prior, length, configured, reserve) ==
    /\ step = "idle"
    /\ room' = LaneBudget(WindowTokens(length, configured, reserve))
    /\ reply' = s /\ kept' = s
    /\ list' = [n \in 1 .. prior |-> Earlier]
    /\ step' = "whole"
    /\ UNCHANGED stored

\* The reply is no JSON: the end of the timeline, with a warning. What the
\* timeline or the context of before is too long for is listed.
Fallback(long, length, configured, reserve) ==
    LET s == Of("dynamic_tail", Items) \cup Of("open_questions", Items)
             \cup Of("retrieved_evidence", Items)
    IN  Compact(s, long, length, configured, reserve)

Whole ==
    /\ step = "whole"
    /\ step' = IF Fits THEN "done" ELSE "evict"
    /\ UNCHANGED <<room, reply, kept, list, stored>>

ToEvict == {n \in DOMAIN Evicted : Of(Evicted[n], kept) # {}}

Victim_AnyOf(s) == CHOOSE i \in s : \A j \in s : j <= i
\* The oldest, or the least important; of equals, the first.
Victim(s) ==
    CHOOSE i \in s : \A j \in s :
        \/ Item[i].section \in ByAge /\ i <= j
        \/ Item[i].section \notin ByAge /\ Item[i].importance < Item[j].importance
        \/ Item[i].section \notin ByAge /\ Item[i].importance = Item[j].importance /\ i <= j

Evict ==
    /\ step = "evict" /\ ~Fits /\ ToEvict # {}
    /\ LET section == Evicted[CHOOSE n \in ToEvict : \A k \in ToEvict : n <= k]
           gone == Victim(Of(section, kept)) IN
       /\ kept' = kept \ {gone}
       /\ list' = Append(list, gone)
    /\ UNCHANGED <<step, room, reply, stored>>

EndEvict ==
    /\ step = "evict" /\ (Fits \/ ToEvict = {})
    /\ kept' = kept \cup TopOf(reply)
    /\ step' = IF Dumped(kept', list) <= room THEN "done" ELSE "trim"
    /\ UNCHANGED <<room, reply, list, stored>>

\* The oldest entries of the list go, down to the last few.
Trim ==
    /\ step = "trim" /\ ~Fits /\ Len(list) > ListKept
    /\ list' = Tail(list)
    /\ UNCHANGED <<step, room, reply, kept, stored>>

\* Otherwise the core, the end of the list and a marker; or the marker alone.
EndTrim ==
    /\ step = "trim" /\ (Fits \/ Len(list) <= ListKept)
    /\ IF Fits THEN UNCHANGED <<kept, list>>
       ELSE LET short == Append(SubSeq(list, Most(1, Len(list) - ListCopied + 1), Len(list)), Marker) IN
            /\ kept' = TopOf(reply)
            /\ list' = IF Dumped(kept', short) <= room THEN short ELSE <<Marker>>
    /\ step' = "done"
    /\ UNCHANGED <<room, reply, stored>>

\* compact stores it; beyond the cap the end of the text is cut off, and what
\* is left is no JSON any more.
Store ==
    /\ step = "done"
    /\ stored' = IF Dumped(kept, list) <= Cap THEN "pack" ELSE "text"
    /\ step' = "idle" /\ room' = 0 /\ reply' = {} /\ kept' = {} /\ list' = <<>>

PackNext ==
    \/ \E length \in ContextLengths, configured \in Configured, reserve \in Reserves :
          \/ \E s \in SUBSET Items, prior \in 0 .. MaxPrior : Compact(s, prior, length, configured, reserve)
          \/ \E long \in 0 .. Least(2, MaxPrior) : Fallback(long, length, configured, reserve)
    \/ Whole \/ Evict \/ EndEvict \/ Trim \/ EndTrim \/ Store

PackSpec == PackInit /\ [][PackNext]_packVars

-----------------------------------------------------------------------------
(* Properties.                                                             *)

Told == {i \in ToSet(list) : i # Earlier /\ i # Marker}

\* A pack that was made to fit keeps the most important constraints and facts;
\* what it has lost is among the omissions, or those say that it was cut or were
\* too many themselves; and it lost nothing while less important items of the
\* same section stay (context_pack_to_text). It may have lost more than the room
\* called for: the entry of a short item is longer than the item.
EvictionIsHonest ==
    step = "done" =>
        /\ TopOf(reply) \subseteq kept /\ kept \subseteq reply /\ kept \cap Told = {}
        /\ kept \cup Told = reply \/ Marker \in ToSet(list) \/ Len(list) >= ListKept
        /\ Marker \in ToSet(list) \/
              \A i \in reply \ kept, j \in kept :
                  Item[i].section = Item[j].section =>
                      IF Item[i].section \in ByAge THEN i < j ELSE Item[i].importance <= Item[j].importance

\* A pack has the size it was given room for. It is not so: the core has
\* whatever size it has.
PackIsBounded == step = "done" => Dumped(kept, list) <= room

\* What a pack has lost is among its omissions, or they say that it was cut. It
\* is not so: their list is shortened without a word.
NothingIsHidden ==
    step = "done" => kept \cup Told = reply \/ Marker \in ToSet(list)

\* What is stored can be read as a pack. It is not so when the core is too big.
StoredIsAPack == stored # "text"
=============================================================================
