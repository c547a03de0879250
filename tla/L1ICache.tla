------------------------------ MODULE L1ICache ------------------------------
(* The L1 instruction cache of l1_icache.sv, clock by clock: a read-only cache *)
(* of whole lines.  A CPU store and an external writer both invalidate the     *)
(* line they touch, one clock after the tag read they launch; a store is also  *)
(* kept in a small patch queue, because the fill of a line can overtake the    *)
(* store on its way to memory.                                                 *)
(*                                                                             *)
(* The abstractions are those of L1Cache: small address sets, any victim way,  *)
(* registers that nothing reads any more hold a fixed value.                   *)
EXTENDS CacheOps

CONSTANTS Tag, LastSet, LastWord, Way, Lane, Byte, None,
          PatchqDepth   \* PATCHQ_DEPTH

ASSUME PatchqAssumption == PatchqDepth \in Nat \ {0}
ASSUME IndexAssumption  == LastSet \in Nat /\ LastWord \in Nat /\ Way \subseteq Nat
ASSUME NoneAssumption   == None \notin Tag

VARIABLES
    istate, iinit_set,  \* the FSM, the set S_RESET_INIT clears next
    ireq,               \* the registered request, or NoFetch
    iready_r,           \* cpu_ready
    iresp,              \* [valid, line]: resp_valid_r and line_r
    ifill,              \* the fill registers
    imemport,           \* the line mem_addr_r asks for, or None while mem_valid_r is low
    itags, ilines,      \* tag and data RAMs
    ird,                \* the synchronous read result of the request
    isnoop,             \* the registered snoop: a store's dword or an address
    isnoop_tags,        \* the tag read the last snoop launched; held until the next
    patchq, patchq_head \* the recent stores

ivars == <<istate, iinit_set, ireq, iready_r, iresp, ifill, imemport, itags, ilines,
           ird, isnoop, isnoop_tags, patchq, patchq_head>>

ISet     == 0..LastSet
IWord    == 0..LastWord
NoByte   == [l \in Lane |-> None]
Zero     == [d \in IWord |-> NoByte]
NoFetch   == [tag |-> None, set |-> None]
NoIFill   == [requested |-> FALSE]
NoTags    == [w \in Way |-> None]
NoIRd     == [tag |-> NoTags, line |-> [w \in Way |-> Zero]]
LineOf(a)   == [tag |-> a.tag, set |-> a.set]
AddrOf(l, d) == [tag |-> l.tag, set |-> l.set, word |-> d]

\* patch is a CPU store or None, inv the dword address an external writer
\* invalidates or None; cache_unit never presents both.
snoop_capture(patch, inv) == patch # None \/ inv # None
captured(patch, inv) == IF inv # None THEN inv ELSE patch.addr

-----------------------------------------------------------------------------
\* Lookup.

ihit_ways == {w \in Way : ird.tag[w] # None /\ ird.tag[w] = ireq.tag}
\* Mutant: the store of this very clock is not looked at.
lookup_snoop_conflict_Registered(patch) ==
    ireq.conflict \/ (isnoop.valid /\ LineOf(isnoop.addr) = LineOf(ireq))
\* A store or a snoop of the line since the tag read.
lookup_snoop_conflict(patch) ==
    \/ ireq.conflict
    \/ isnoop.valid /\ LineOf(isnoop.addr) = LineOf(ireq)
    \/ patch # None /\ LineOf(patch.addr) = LineOf(ireq)
lookup_hit_usable(patch) == ihit_ways # {} /\ ~lookup_snoop_conflict(patch)
ilookup_hit_now(patch) == istate = "LOOKUP" /\ ~ireq.uncacheable /\ lookup_hit_usable(patch)

icpu_resp_valid(patch) == ilookup_hit_now(patch) \/ iresp.valid
icpu_line(patch) == IF ilookup_hit_now(patch) THEN ird.line[Least(ihit_ways)] ELSE iresp.line
-----------------------------------------------------------------------------
\* Fill data.

FillLine == LineOf(ifill)
\* The stores a fill must apply over memory, oldest first: the patch queue, the
\* registered snoop and the store of this cycle.
Registered == IF isnoop.valid /\ isnoop.patch
              THEN << [addr |-> isnoop.addr, data |-> isnoop.data, be |-> isnoop.be] >> ELSE << >>
Live(patch) == IF patch = None THEN << >> ELSE << patch >>
NoPatch == [addr |-> None, data |-> NoByte, be |-> {}]
Queued == [p \in 1..PatchqDepth |-> IF patchq[p - 1] = None THEN NoPatch ELSE patchq[p - 1]]
Patched(stores, d, value) == Forward(stores, AddrOf(FillLine, d), value)

\* Mutant: a beat sees the stores of this clock and the last only.
fill_word_next_Recent(patch, beat) == Patched(Registered \o Live(patch), ifill.count, beat)
fill_word_next(patch, beat) ==
    Patched(Queued \o Registered \o Live(patch), ifill.count, beat)
\* The words already received only see the stores of this clock and the last.
fill_line_next(patch, beat) ==
    [d \in IWord |-> IF d = ifill.count THEN fill_word_next(patch, beat)
                     ELSE Patched(Registered \o Live(patch), d, ifill.line[d])]
wide_line_next(patch, line) ==
    [d \in IWord |-> Patched(Queued \o Registered \o Live(patch), d, line[d])]

lastBeat(ibus) == \/ ibus.resp = "line"
                  \/ ibus.resp = "beat" /\ ifill.count = LastWord
itag_fill_write(ibus) == istate = "FILL" /\ lastBeat(ibus)
\* A snoop of the line being filled, live or registered, leaves it uncached.
fill_install_allowed(patch, inv) ==
    /\ ~ifill.uncached
    /\ ~(snoop_capture(patch, inv) /\ LineOf(captured(patch, inv)) = FillLine)
    /\ ~(isnoop.valid /\ LineOf(isnoop.addr) = FillLine)
installs(patch, inv, ibus) == itag_fill_write(ibus) /\ fill_install_allowed(patch, inv)
-----------------------------------------------------------------------------
\* The state machine.  fetch is the line asked for, or None.

INoResponse == iresp' = [valid |-> FALSE, line |-> Zero]

IResetInit(fetch) ==
    /\ istate = "RESET" /\ fetch = None
    /\ IF iinit_set = LastSet
       THEN istate' = "IDLE" /\ iready_r' = TRUE /\ iinit_set' = iinit_set
       ELSE iinit_set' = iinit_set + 1 /\ UNCHANGED <<istate, iready_r>>
    /\ INoResponse /\ UNCHANGED <<ireq, ifill, imemport>>

IIdle(fetch) ==
    /\ istate = "IDLE"
    /\ IF fetch # None /\ iready_r
       THEN /\ istate' = "LOOKUP" /\ iready_r' = FALSE
            /\ ireq' = [tag |-> fetch.tag, set |-> fetch.set, uncacheable |-> fetch.uncacheable,
                        conflict |-> isnoop.valid /\ LineOf(isnoop.addr) = LineOf(fetch)]
       ELSE iready_r' = TRUE /\ UNCHANGED <<istate, ireq>>
    /\ INoResponse /\ UNCHANGED <<iinit_set, ifill, imemport>>

ILookupHit(fetch, patch) ==
    /\ ilookup_hit_now(patch) /\ fetch = None
    /\ istate' = "IDLE" /\ iready_r' = TRUE /\ ireq' = NoFetch
    /\ INoResponse /\ UNCHANGED <<iinit_set, ifill, imemport>>

ILookupMiss(fetch, patch) ==
    /\ istate = "LOOKUP" /\ ~ilookup_hit_now(patch) /\ fetch = None
    /\ \E victim \in Way :
         ifill' = [tag |-> ireq.tag, set |-> ireq.set, way |-> victim, count |-> 0,
                   line |-> Zero, requested |-> FALSE, uncached |-> ireq.uncacheable]
    /\ istate' = "FILL" /\ iready_r' = FALSE /\ ireq' = NoFetch
    /\ INoResponse /\ UNCHANGED <<iinit_set, imemport>>

\* Mutant: a fill waits until there is no recent store left to patch with.
ifillIssue_NoPatches(ibus) == /\ ~ifill.requested /\ imemport = None /\ ~ibus.busy
                              /\ \A p \in DOMAIN patchq : patchq[p] = None
ifillIssue(ibus) == ~ifill.requested /\ imemport = None /\ ~ibus.busy
IMemPort(ibus) == imemport' = IF ifillIssue(ibus) THEN FillLine
                              ELSE IF ibus.ready THEN None ELSE imemport

IFillDone(line) ==
    /\ istate' = "IDLE" /\ iready_r' = TRUE /\ ifill' = NoIFill
    /\ iresp' = [valid |-> TRUE, line |-> line]

\* data is the beat or the line the bus returns.
IFill(fetch, patch, ibus, data) ==
    /\ istate = "FILL" /\ fetch = None
    /\ IMemPort(ibus)
    /\ \/ /\ ibus.resp = "none"
          /\ ifill' = [ifill EXCEPT !.requested = @ \/ ifillIssue(ibus)]
          /\ iready_r' = FALSE /\ istate' = istate /\ INoResponse
       \/ /\ ibus.resp = "line"
          /\ IFillDone(wide_line_next(patch, data))
       \/ /\ ibus.resp = "beat" /\ ifill.count = LastWord
          /\ IFillDone(fill_line_next(patch, data))
       \/ /\ ibus.resp = "beat" /\ ifill.count # LastWord
          /\ ifill' = [ifill EXCEPT !.count = @ + 1, !.line = fill_line_next(patch, data)]
          /\ iready_r' = FALSE /\ istate' = istate /\ INoResponse
    /\ UNCHANGED <<iinit_set, ireq>>
-----------------------------------------------------------------------------
\* The registers outside the state machine.

ITagRead(fetch, patch, inv) ==
    /\ ird' = IF fetch # None /\ istate = "IDLE" /\ iready_r
              THEN [tag  |-> [w \in Way |-> itags[w][fetch.set]],
                    line |-> [w \in Way |-> IF itags[w][fetch.set] = fetch.tag
                                            THEN ilines[w][fetch.set] ELSE Zero]]
              ELSE NoIRd
    /\ isnoop_tags' = IF snoop_capture(patch, inv)
                      THEN [w \in Way |-> itags[w][captured(patch, inv).set]]
                      ELSE isnoop_tags

\* Mutant: the clear waits for an idle clock.
ISnoopMatch_Idle(w) == istate = "IDLE" /\ isnoop_tags[w] # None /\ isnoop_tags[w] = isnoop.addr.tag
\* One write port per way: the fill's tag, or the clear of the line last snooped.
\* The clear is repeated until the next snoop replaces its registers.
ISnoopMatch(w) == isnoop_tags[w] # None /\ isnoop_tags[w] = isnoop.addr.tag
ITagRams(patch, inv, ibus) ==
    itags' = [w \in Way |->
                CASE istate = "RESET" -> [itags[w] EXCEPT ![iinit_set] = None]
                  [] istate # "RESET" /\ installs(patch, inv, ibus) /\ w = ifill.way
                       -> [itags[w] EXCEPT ![ifill.set] = ifill.tag]
                  [] istate # "RESET" /\ ~(installs(patch, inv, ibus) /\ w = ifill.way)
                       /\ ISnoopMatch(w) -> [itags[w] EXCEPT ![isnoop.addr.set] = None]
                  [] OTHER -> itags[w]]

IDataRams(patch, inv, ibus, data) ==
    ilines' = IF installs(patch, inv, ibus)
              THEN [ilines EXCEPT ![ifill.way][ifill.set] =
                      IF ibus.resp = "line" THEN wide_line_next(patch, data)
                                            ELSE fill_line_next(patch, data)]
              ELSE ilines

\* The payload is held after the clock in which it is valid.
ISnoopRegister(patch, inv) ==
    isnoop' = CASE inv # None -> [valid |-> TRUE, addr |-> inv, patch |-> FALSE]
                [] inv = None /\ patch # None ->
                     [valid |-> TRUE, addr |-> patch.addr, patch |-> TRUE,
                      data |-> patch.data, be |-> patch.be]
                [] OTHER -> [valid |-> FALSE, addr |-> isnoop.addr]

patchq_next_idx(idx) == (idx + 1) % PatchqDepth
PatchMerged(e) == [e EXCEPT !.data = Merge(@, isnoop.data, isnoop.be), !.be = @ \cup isnoop.be]
patchqHits == {p \in DOMAIN patchq : patchq[p] # None /\ patchq[p].addr = isnoop.addr}
\* A registered store merges into its dword's slot or replaces the one at the
\* head; a registered invalidation drops the slots of its line.
PatchQueue ==
    CASE isnoop.valid /\ isnoop.patch /\ patchqHits # {} ->
           /\ patchq' = [p \in DOMAIN patchq |->
                           IF p \in patchqHits THEN PatchMerged(patchq[p]) ELSE patchq[p]]
           /\ UNCHANGED patchq_head
      [] isnoop.valid /\ isnoop.patch /\ patchqHits = {} ->
           /\ patchq' = [patchq EXCEPT ![patchq_head] =
                           [addr |-> isnoop.addr, data |-> isnoop.data, be |-> isnoop.be]]
           /\ patchq_head' = patchq_next_idx(patchq_head)
      [] isnoop.valid /\ ~isnoop.patch ->
           /\ patchq' = [p \in DOMAIN patchq |->
                           IF patchq[p] # None /\ LineOf(patchq[p].addr) = LineOf(isnoop.addr)
                           THEN None ELSE patchq[p]]
           /\ UNCHANGED patchq_head
      [] OTHER -> UNCHANGED <<patchq, patchq_head>>

IDatapath(fetch, patch, inv, ibus, data) ==
    /\ ITagRead(fetch, patch, inv)
    /\ ITagRams(patch, inv, ibus) /\ IDataRams(patch, inv, ibus, data)
    /\ ISnoopRegister(patch, inv)
    /\ PatchQueue

IMachine(fetch, patch, ibus, data) ==
    \/ IResetInit(fetch)
    \/ IIdle(fetch)
    \/ ILookupHit(fetch, patch)
    \/ ILookupMiss(fetch, patch)
    \/ IFill(fetch, patch, ibus, data)

IClock(fetch, patch, inv, ibus, data) ==
    /\ IMachine(fetch, patch, ibus, data)
    /\ IDatapath(fetch, patch, inv, ibus, data)

IInit ==
    /\ istate = "RESET" /\ iinit_set = 0 /\ ireq = NoFetch /\ iready_r = FALSE
    /\ iresp = [valid |-> FALSE, line |-> Zero] /\ ifill = NoIFill /\ imemport = None
    /\ itags \in [Way -> [ISet -> Tag \cup {None}]]
    /\ \E junk \in Byte : ilines = [w \in Way |-> [s \in ISet |-> [d \in IWord |-> [l \in Lane |-> junk]]]]
    /\ ird = NoIRd
    /\ \E t \in Tag : isnoop = [valid |-> FALSE, addr |-> AddrOf([tag |-> t, set |-> 0], 0)]
    /\ isnoop_tags \in [Way -> Tag \cup {None}]
    /\ patchq = [p \in 0..PatchqDepth - 1 |-> None] /\ patchq_head = 0
=============================================================================
