------------------------------ MODULE PagingMC ------------------------------
(* Small instances of Paging for TLC. *)
EXTENDS Paging, TLC

CONSTANTS p0, p1, r0, r1, t0, t1

SameSet == [p \in Pages |-> 0]
Entry(w, u, marked, frame) ==
    [p |-> TRUE, w |-> w, u |-> u, a |-> marked, d |-> marked, frame |-> frame]
Absent == [Entry(FALSE, FALSE, FALSE, p0) EXCEPT !.p = FALSE]
Open   == Entry(TRUE, TRUE, FALSE, p1)    \* clean, for all
Shut   == Entry(FALSE, FALSE, FALSE, p0)  \* read-only, for the supervisor
Directory(w, u, table) == [p |-> TRUE, w |-> w, u |-> u, a |-> FALSE, base |-> table]
Table(entry) == (p0 :> Entry(TRUE, TRUE, TRUE, p1) @@ p1 :> entry)
Store(entry) == [table |-> t0, page |-> p1, entry |-> entry]
Mem(op, page, second, user) == [kind |-> "mem", op |-> op, page |-> page, second |-> second, user |-> user]
Dev(kind, op, second) == [kind |-> kind, op |-> op, page |-> p0, second |-> second, user |-> FALSE]
Paged(wp) == [pg |-> TRUE, wp |-> wp]
Unpaged == [pg |-> FALSE, wp |-> FALSE]

\* Every kind of demand, over a page whose entry is absent, or open and then shut.
DemandModes == {Paged(TRUE), Paged(FALSE), Unpaged}
MixDemands == {Mem("read", p1, None, TRUE), Mem("read", p0, p1, FALSE), Mem("write", p1, p0, FALSE),
               Mem("write", p1, None, TRUE), Mem("check", p1, p1, FALSE), Mem("check", p1, None, TRUE),
               Dev("io", "read", p0), Dev("io", "write", None), Dev("inta", "read", None)}
MixPdes == {Directory(TRUE, TRUE, t0), [Directory(TRUE, TRUE, t0) EXCEPT !.p = FALSE]}
OnePde == {Directory(TRUE, TRUE, t0)}
MixPtes == {Table(Absent), Table(Open)}
MixEdits == {Store(Shut)}

\* Fetches from both pages beside a read and a store.
FetchModes == {Paged(TRUE), Unpaged}
FewDemands == {Mem("read", p1, p0, FALSE), Mem("write", p0, None, TRUE)}

\* A check for write permission across two pages, the first writable.
CheckDemands == {Mem("read", p1, None, FALSE), Mem("check", p0, p1, TRUE)}
CheckModes == {Paged(TRUE)}
ShutPte == {Table(Shut)}

\* Two address spaces, each with a directory and a table.
TwoPdes == {Directory(TRUE, TRUE, t0), Directory(TRUE, TRUE, t1)}
TwoPtes == {Table(Open), Table(Shut)}

Load(demands, fetches, modes, directories) ==
    [demands |-> demands, fetches |-> fetches, modes |-> modes, pdes |-> directories]
MixWorkloads   == {Load(MixDemands, {}, DemandModes, MixPdes), Load(FewDemands, {p0, p1}, FetchModes, OnePde)}
CheckWorkloads == {Load(CheckDemands, {}, CheckModes, OnePde)}
Cr3Workloads   == {Load({}, {p1}, CheckModes, TwoPdes)}

\* Registers that are read again only after they are written are no part of a
\* state: the walker's latches and the request while nothing is served, OPR_R
\* between demands, and the toggles beyond their differences.
Live ==
    <<workload.fetches, pg_enable, wp_enable, cr3, control, pf_fast_pending, walk_request,
      walk_biu_pending, dcache_req, icache_req, page_fault, pf_fault, pf_page, pf_redirect_queued,
      pf_spec, pf_drop, dcache, icache,
      pf_req_toggle = pf_ack_toggle_r, pf_ack_prev = pf_ack_toggle_r, w_state,
      IF pg_enable THEN <<lookup, tlb, xlat, pdes, ptes, since>> ELSE <<>>,
      IF w_state = "IDLE" THEN <<>> ELSE <<saved, pde, pte>>,
      IF demand_idle THEN <<>> ELSE <<req, meta>>,
      IF mem_servicing THEN <<opr, served>> ELSE <<AccessesPermitted>>>>
=============================================================================
