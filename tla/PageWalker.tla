------------------------------ MODULE PageWalker ------------------------------
(* The page walker of paging_walker.sv, clock by clock: a read of the page      *)
(* directory entry, a read of the page table entry, the permission check, and   *)
(* only then the two write-backs that mark the entries accessed and dirty.      *)
(*                                                                              *)
(* All pages lie under one directory index, so an address space has one         *)
(* directory entry; an entry keeps its present, writable, user, accessed and    *)
(* dirty bits and the table or frame it points to.                              *)

CONSTANTS
    Pages,   \* linear pages
    Frames,  \* physical page frames
    Roots,   \* page directories, the values of CR3
    Tables,  \* page tables
    None

Pde == [p : BOOLEAN, w : BOOLEAN, u : BOOLEAN, a : BOOLEAN, base : Tables]
Pte == [p : BOOLEAN, w : BOOLEAN, u : BOOLEAN, a : BOOLEAN, d : BOOLEAN, frame : Frames]
\* What a lookup returns: the frame and the combined permissions.
Translation == [frame : Frames, w : BOOLEAN, u : BOOLEAN, d : BOOLEAN]
WalkRequest == [page : Pages, write : BOOLEAN, user : BOOLEAN, cr3 : Roots, wp : BOOLEAN]
EntryAddress == [level : {"pde"}, root : Roots] \cup [level : {"pte"}, table : Tables, page : Pages]
FaultCode == [p : BOOLEAN, w : BOOLEAN, u : BOOLEAN]

VARIABLES
    w_state,  \* the walker's FSM
    saved,    \* the latched request
    pde, pte  \* the latched entries

walker == <<w_state, saved, pde, pte>>

WalkerState == {"IDLE", "READ_PDE", "WAIT_PDE", "READ_PTE", "WAIT_PTE", "CHECK_PERM", "WRITE_PDE",
                "WAIT_WR_PDE", "WRITE_PTE", "WAIT_WR_PTE", "DONE", "FAULT"}

\* An access is permitted: supervisor writes ignore the W bit while CR0.WP is clear.
Permitted(t, write, user, wp) ==
    /\ user => t.u
    /\ write => t.w \/ (~user /\ ~wp)

\* The most restrictive of the two entries.
Combined(dir, entry) ==
    [frame |-> entry.frame, w |-> dir.w /\ entry.w, u |-> dir.u /\ entry.u, d |-> entry.d]
-----------------------------------------------------------------------------
\* Outputs.

mem_rd == w_state \in {"READ_PDE", "WAIT_PDE", "READ_PTE", "WAIT_PTE"}
mem_wr == w_state \in {"WRITE_PDE", "WAIT_WR_PDE", "WRITE_PTE", "WAIT_WR_PTE"}
AtPde  == w_state \in {"READ_PDE", "WAIT_PDE", "WRITE_PDE", "WAIT_WR_PDE"}

mem_addr == IF AtPde THEN [level |-> "pde", root |-> saved.cr3]
                     ELSE [level |-> "pte", table |-> pde.base, page |-> saved.page]
mem_wdata == IF AtPde THEN [pde EXCEPT !.a = TRUE]
                      ELSE [pte EXCEPT !.a = TRUE, !.d = @ \/ saved.write]

walk_done  == w_state \in {"DONE", "FAULT"}
walk_fault == w_state = "FAULT"
result == [Combined(pde, pte) EXCEPT !.d = @ \/ saved.write]
walk_fault_code == [p |-> pde.p /\ pte.p, w |-> saved.write, u |-> saved.user]
-----------------------------------------------------------------------------
\* One clock: the request on walk_request (None while it is low), and the answer
\* to the walker's access (ready, data).

WalkStay == UNCHANGED walker
WalkTo(s) == w_state' = s /\ UNCHANGED <<saved, pde, pte>>

WalkIdle(request) ==
    /\ w_state = "IDLE"
    /\ \/ request = None /\ WalkStay
       \/ request # None /\ w_state' = "READ_PDE" /\ saved' = request /\ UNCHANGED <<pde, pte>>

WalkIssue ==
    \/ w_state = "READ_PDE"  /\ WalkTo("WAIT_PDE")
    \/ w_state = "READ_PTE"  /\ WalkTo("WAIT_PTE")
    \/ w_state = "WRITE_PDE" /\ WalkTo("WAIT_WR_PDE")
    \/ w_state = "WRITE_PTE" /\ WalkTo("WAIT_WR_PTE")

WalkWait(ready) ==
    /\ w_state \in {"WAIT_PDE", "WAIT_PTE", "WAIT_WR_PDE", "WAIT_WR_PTE"}
    /\ ~ready /\ WalkStay

WalkPde(ready, data) ==
    /\ w_state = "WAIT_PDE" /\ ready
    /\ pde' = data
    /\ w_state' = IF data.p THEN "READ_PTE" ELSE "FAULT"
    /\ UNCHANGED <<saved, pte>>

WalkPte(ready, data) ==
    /\ w_state = "WAIT_PTE" /\ ready
    /\ pte' = data
    /\ w_state' = IF data.p THEN "CHECK_PERM" ELSE "FAULT"
    /\ UNCHANGED <<saved, pde>>

\* Mutant: the accessed and dirty bits are written before the permissions are looked at.
WalkCheck_WriteFirst == w_state = "CHECK_PERM" /\ WalkTo("WRITE_PDE")
\* Only write back A/D bits if the access is permitted.
WalkCheck ==
    /\ w_state = "CHECK_PERM"
    /\ WalkTo(IF Permitted(Combined(pde, pte), saved.write, saved.user, saved.wp)
              THEN "WRITE_PDE" ELSE "FAULT")

WalkWritten(ready) ==
    \/ w_state = "WAIT_WR_PDE" /\ ready /\ WalkTo("WRITE_PTE")
    \/ w_state = "WAIT_WR_PTE" /\ ready /\ WalkTo("DONE")

WalkEnd == walk_done /\ WalkTo("IDLE")

Walk(request, ready, data) ==
    \/ WalkIdle(request) \/ WalkIssue \/ WalkWait(ready)
    \/ WalkPde(ready, data) \/ WalkPte(ready, data) \/ WalkCheck
    \/ WalkWritten(ready) \/ WalkEnd

WalkerInit ==
    /\ w_state = "IDLE" /\ saved = None /\ pde = None /\ pte = None

WalkerTypeOK ==
    /\ w_state \in WalkerState
    /\ saved \in WalkRequest \cup {None}
    /\ pde \in Pde \cup {None} /\ pte \in Pte \cup {None}
=============================================================================
