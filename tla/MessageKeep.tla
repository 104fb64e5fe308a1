---------------------------- MODULE MessageKeep ----------------------------
(***************************************************************************)
(* message_keep.c pointer by pointer: the singly linked list of sent       *)
(* messages, its nodes in a heap that hands freed memory out again,        *)
(* message_send_add called by application threads, message_send_remove and *)
(* the timeout scan of process_timer_event called by the deamon thread.    *)
(* No lock is shared between the two sides, so every read and write of the *)
(* head or of a next field that another thread may write is a step.        *)
(*                                                                         *)
(* Freed memory keeps its contents until malloc gives it to somebody: as a *)
(* node again, or as the buffer of a message (message_keep.c:22,           *)
(* client.c:94 and 204) or anything else, which may write into it at any   *)
(* time.  What is read as a pointer from such memory is what was there     *)
(* before, NULL, or WILD, an address at which no node begins.  Nothing is  *)
(* said of a process that has read through it.                             *)
(*                                                                         *)
(* Nodes are numbered in the order they are added; the number is the       *)
(* packet identifier.  Their timestamps are all 0, so a scan that finds    *)
(* one message expired finds all of them expired.                          *)
(***************************************************************************)
EXTENDS Naturals, Sequences

CONSTANTS
    Adders,    \* threads calling message_send_add
    NumCells,  \* pieces of memory malloc has for nodes
    MaxAdds,   \* bound: calls of message_send_add
    Overlaps   \* values of overlap to explore

ASSUME KeepAssumption ==
    /\ NumCells \in Nat \ {0}
    /\ MaxAdds \in Nat
    /\ Overlaps \subseteq BOOLEAN

NULL == 0
Cells == 1..NumCells
Pointers == Cells \cup {NULL}
WILD == NumCells + 1
Places == Pointers \cup {WILD}
Ids == 1..MaxAdds

VARIABLES
    overlap,   \* may calls of different threads overlap?  TRUE is the code;
               \* FALSE a caller that locks.  It is chosen once
    head,      \* message_send_list
    next,      \* next of each node, kept when it is freed
    id,        \* packet_id of each node
    live,      \* the cells that are nodes, allocated and not yet freed
    apc, node, acurr,  \* per adder: where it is, its locals node and curr
    dpc,       \* where the deamon is
    target,    \* packet_id passed to message_send_remove
    dcurr,     \* its local curr
    victim,    \* the node it is about to unlink, its local next in the walk
    loaded,    \* the successor of that one it has read
    scan,      \* curr of the timeout scan, NULL outside
    scanning,  \* message_send_remove was called by the scan
    proc,      \* "running", "segv", or "astray": it has read through WILD
    issued,    \* how many messages have been given to message_send_add
    added,     \* ghost: those for which it has returned MQTT_SUCCESS
    unlinked,  \* ghost: those the deamon was to take off, and found
    reported   \* ghost: those handed to timeout_cb

heapVars == <<head, next, id, live>>
addVars == <<apc, node, acurr, issued, added>>
removeVars == <<target, dcurr, victim, loaded>>
scanVars == <<scan, scanning, reported>>
vars == <<overlap, head, next, id, live, apc, node, acurr, dpc, target, dcurr, victim,
          loaded, scan, scanning, proc, issued, added, unlinked, reported>>

(* The cells from the head on, cut where there are more than all of them:  *)
(* f[n][c] is what is reached from c in n steps.                           *)
Path == LET f[n \in 0..(NumCells + 1)] ==
                [c \in Places |-> IF c \notin Cells \/ n = 0 THEN <<>>
                                  ELSE <<c>> \o f[n - 1][next[c]]]
        IN  f[NumCells + 1][head]

Reachable == {Path[i] : i \in DOMAIN Path}

(* What may be read as the next field and the packet_id at c: those of a   *)
(* node, and in memory that is none what its owner has written.            *)
NextAt(c) ==
    IF c \in live THEN {next[c]}
    ELSE {NULL, WILD} \cup {next[d] : d \in {c} \cap Cells}
IdAt(c) == IF c \in live THEN {id[c]} ELSE 0..MaxAdds

(* What becomes of the process that reads through c.                       *)
Fate(c) == CASE c = NULL -> "segv" [] c = WILD -> "astray" [] OTHER -> "running"

Init ==
    /\ overlap \in Overlaps
    /\ head = NULL
    /\ next = [c \in Cells |-> NULL]
    /\ id = [c \in Cells |-> 0]
    /\ live = {}
    /\ apc = [a \in Adders |-> "idle"]
    /\ node = [a \in Adders |-> NULL]
    /\ acurr = [a \in Adders |-> NULL]
    /\ dpc = "idle"
    /\ target = 0 /\ dcurr = NULL /\ victim = NULL /\ loaded = NULL
    /\ scan = NULL /\ scanning = FALSE
    /\ proc = "running"
    /\ issued = 0 /\ added = {} /\ unlinked = {} /\ reported = {}

Quiet == dpc = "idle" /\ \A a \in Adders : apc[a] = "idle"
MayStart == overlap \/ Quiet

-----------------------------------------------------------------------------
(* message_send_add                                                        *)

(* A call whose malloc fails leaves nothing behind but, in memory that is  *)
(* free again, a NULL (lines 23-26): no step of this model.                *)
Allocate(a) ==
    /\ apc[a] = "idle" /\ MayStart /\ issued < MaxAdds
    /\ issued' = issued + 1
    /\ \E c \in Cells \ live :
          /\ live' = live \cup {c}
          /\ next' = [next EXCEPT ![c] = NULL]
          /\ id' = [id EXCEPT ![c] = issued']
          /\ node' = [node EXCEPT ![a] = c]
    /\ apc' = [apc EXCEPT ![a] = "test"]
    /\ UNCHANGED <<head, acurr, added, dpc, removeVars, scanVars, proc, unlinked>>

TestEmpty(a) ==
    /\ apc[a] = "test"
    /\ apc' = [apc EXCEPT ![a] = IF head = NULL THEN "first" ELSE "head"]
    /\ UNCHANGED <<heapVars, node, acurr, issued, added, dpc, removeVars, scanVars,
                   proc, unlinked>>

LinkFirst(a) ==
    /\ apc[a] = "first"
    /\ head' = node[a]
    /\ added' = added \cup {id[node[a]]}
    /\ apc' = [apc EXCEPT ![a] = "idle"]
    /\ UNCHANGED <<next, id, live, node, acurr, issued, dpc, removeVars, scanVars,
                   proc, unlinked>>

(* The head is read a second time: it may have become NULL.                *)
LoadHead(a) ==
    /\ apc[a] = "head"
    /\ acurr' = [acurr EXCEPT ![a] = head]
    /\ apc' = [apc EXCEPT ![a] = "walk"]
    /\ UNCHANGED <<heapVars, node, issued, added, dpc, removeVars, scanVars, proc,
                   unlinked>>

TestNext(a) ==
    /\ apc[a] = "walk"
    /\ proc' = Fate(acurr[a])
    /\ \E n \in NextAt(acurr[a]) :
          apc' = [apc EXCEPT ![a] = IF n # NULL THEN "step" ELSE "link"]
    /\ UNCHANGED <<heapVars, node, acurr, issued, added, dpc, removeVars, scanVars,
                   unlinked>>

(* Mutation: the walk to the tail does not move on.                        *)
StepStays(a) ==
    /\ apc[a] = "step"
    /\ apc' = [apc EXCEPT ![a] = "walk"]
    /\ UNCHANGED <<heapVars, node, acurr, issued, added, dpc, removeVars, scanVars, proc,
                   unlinked>>

Step(a) ==
    /\ apc[a] = "step"
    /\ \E n \in NextAt(acurr[a]) : acurr' = [acurr EXCEPT ![a] = n]
    /\ apc' = [apc EXCEPT ![a] = "walk"]
    /\ UNCHANGED <<heapVars, node, issued, added, dpc, removeVars, scanVars, proc,
                   unlinked>>

(* Mutation: the node goes behind the head, whatever was there.            *)
LinkLastBehindHead(a) ==
    /\ apc[a] = "link"
    /\ next' = [next EXCEPT ![head] = node[a]]
    /\ added' = added \cup {id[node[a]]}
    /\ apc' = [apc EXCEPT ![a] = "idle"]
    /\ UNCHANGED <<head, id, live, node, acurr, issued, dpc, removeVars, scanVars,
                   proc, unlinked>>

(* The node is written behind curr, which may have been freed meanwhile.   *)
LinkLast(a) ==
    /\ apc[a] = "link"
    /\ next' = [next EXCEPT ![acurr[a]] = node[a]]
    /\ added' = added \cup {id[node[a]]}
    /\ apc' = [apc EXCEPT ![a] = "idle"]
    /\ UNCHANGED <<head, id, live, node, acurr, issued, dpc, removeVars, scanVars,
                   proc, unlinked>>

-----------------------------------------------------------------------------
(* message_send_remove                                                     *)

(* puback_msg_sent calls it with an identifier the broker chose.           *)
RemoveCall ==
    /\ dpc = "idle" /\ MayStart
    /\ \E i \in Ids : target' = i
    /\ dpc' = "remove"
    /\ UNCHANGED <<heapVars, addVars, dcurr, victim, loaded, scanVars, proc, unlinked>>

RemoveBegin ==
    /\ dpc = "remove"
    /\ dcurr' = head
    /\ dpc' = "comparehead"
    /\ UNCHANGED <<heapVars, addVars, target, victim, loaded, scanVars, proc, unlinked>>

(* The head, read again, is dereferenced before it is compared with NULL.  *)
RemoveHead ==
    /\ dpc = "comparehead"
    /\ proc' = Fate(head)
    /\ \E i \in IdAt(head) : dpc' = IF i = target THEN "loadhead" ELSE "walk"
    /\ UNCHANGED <<heapVars, addVars, removeVars, scanVars, unlinked>>

(* curr is NULL when the list was empty and is not any more.               *)
RemoveWalk ==
    /\ dpc = "walk"
    /\ proc' = Fate(dcurr)
    /\ \E n \in NextAt(dcurr) :
          dpc' = CASE n # NULL -> "compare"
                   [] n = NULL /\ scanning -> "advance"
                   [] n = NULL /\ ~scanning -> "idle"
    /\ UNCHANGED <<heapVars, addVars, removeVars, scanVars, unlinked>>

RemoveCompare ==
    /\ dpc = "compare"
    /\ \E n \in NextAt(dcurr), i \in 0..MaxAdds :
          /\ i \in IdAt(n)
          /\ proc' = Fate(n)
          /\ dpc' = IF i = target THEN "loadvictim" ELSE "moveon"
    /\ UNCHANGED <<heapVars, addVars, removeVars, scanVars, unlinked>>

RemoveMovesOn ==
    /\ dpc = "moveon"
    /\ dcurr' \in NextAt(dcurr)
    /\ dpc' = "walk"
    /\ UNCHANGED <<heapVars, addVars, target, victim, loaded, scanVars, proc, unlinked>>

(* The node to unlink is read once more from where the one that was        *)
(* compared was read.                                                      *)
LoadVictim ==
    /\ \/ dpc = "loadhead" /\ victim' = head /\ dpc' = "loadfirst"
       \/ dpc = "loadvictim" /\ victim' \in NextAt(dcurr) /\ dpc' = "loadnext"
    /\ UNCHANGED <<heapVars, addVars, target, dcurr, loaded, scanVars, proc, unlinked>>

LoadSuccessor ==
    /\ dpc \in {"loadfirst", "loadnext"}
    /\ proc' = Fate(victim)
    /\ loaded' \in NextAt(victim)
    /\ dpc' = IF dpc = "loadfirst" THEN "storehead" ELSE "storenext"
    /\ UNCHANGED <<heapVars, addVars, target, dcurr, victim, scanVars, unlinked>>

(* Mutation: the head of the list keeps pointing at the removed node.      *)
UnlinkKeepsHead ==
    /\ \/ dpc = "storehead" /\ head' = head /\ UNCHANGED next
       \/ /\ dpc = "storenext"
          /\ next' = [next EXCEPT ![dcurr] = loaded]
          /\ UNCHANGED head
    /\ unlinked' = unlinked \cup {target}
    /\ dpc' = IF dpc = "storehead" THEN "freecurr" ELSE "free"
    /\ UNCHANGED <<id, live, addVars, removeVars, scanVars, proc>>

Unlink ==
    /\ \/ dpc = "storehead" /\ head' = loaded /\ UNCHANGED next
       \/ /\ dpc = "storenext"
          /\ next' = [next EXCEPT ![dcurr] = loaded]
          /\ UNCHANGED head
    /\ unlinked' = unlinked \cup {target}
    /\ dpc' = IF dpc = "storehead" THEN "freecurr" ELSE "free"
    /\ UNCHANGED <<id, live, addVars, removeVars, scanVars, proc>>

(* What is freed is curr when the head was unlinked, and nothing when it   *)
(* is NULL.                                                                *)
Freed == IF dpc = "freecurr" THEN dcurr ELSE victim

(* Mutation: the scan is left after the first message it removes.          *)
FreeForgetsScan ==
    /\ dpc \in {"freecurr", "free"}
    /\ live' = live \ {Freed}
    /\ dpc' = "idle"
    /\ UNCHANGED <<head, next, id, addVars, removeVars, scanVars, proc, unlinked>>

Free ==
    /\ dpc \in {"freecurr", "free"}
    /\ live' = live \ {Freed}
    /\ dpc' = IF scanning THEN "advance" ELSE "idle"
    /\ UNCHANGED <<head, next, id, addVars, removeVars, scanVars, proc, unlinked>>

-----------------------------------------------------------------------------
(* The timeout scan of process_timer_event                                 *)

ScanStart ==
    /\ dpc = "idle" /\ MayStart /\ head # NULL
    /\ scan' = head
    /\ dpc' = "scan"
    /\ UNCHANGED <<heapVars, addVars, removeVars, scanning, reported, proc, unlinked>>

(* timeout_cb, then message_send_remove with the identifier of curr.       *)
ScanNode ==
    /\ dpc = "scan"
    /\ \/ /\ scan = NULL
          /\ dpc' = "idle" /\ scanning' = FALSE
          /\ UNCHANGED <<target, reported, proc>>
       \/ /\ scan # NULL
          /\ proc' = Fate(scan)
          /\ target' \in IdAt(scan) /\ reported' = reported \cup {target'}
          /\ dpc' = "remove" /\ scanning' = TRUE
    /\ UNCHANGED <<heapVars, addVars, dcurr, victim, loaded, scan, unlinked>>

(* Mutation: the scan does not move on.                                    *)
ScanAdvanceStays ==
    /\ dpc = "advance"
    /\ scan' = scan
    /\ dpc' = "scan"
    /\ UNCHANGED <<heapVars, addVars, removeVars, scanning, reported, proc, unlinked>>

(* curr->next is read from the node that has just been freed.              *)
ScanAdvance ==
    /\ dpc = "advance"
    /\ scan' \in NextAt(scan)
    /\ dpc' = "scan"
    /\ UNCHANGED <<heapVars, addVars, removeVars, scanning, reported, proc, unlinked>>

-----------------------------------------------------------------------------
Add(a) ==
    \/ Allocate(a) \/ TestEmpty(a) \/ LinkFirst(a)
    \/ LoadHead(a) \/ TestNext(a) \/ Step(a) \/ LinkLast(a)

Deamon ==
    \/ RemoveCall \/ RemoveBegin \/ RemoveHead
    \/ RemoveWalk \/ RemoveCompare \/ RemoveMovesOn
    \/ LoadVictim \/ LoadSuccessor \/ Unlink \/ Free
    \/ ScanStart \/ ScanNode \/ ScanAdvance

Running(A) == proc = "running" /\ A /\ UNCHANGED overlap

Next == Running((\E a \in Adders : Add(a)) \/ Deamon)

Fairness ==
    /\ \A a \in Adders : WF_vars(Running(apc[a] # "idle" /\ Add(a)))
    /\ WF_vars(Running(dpc # "idle" /\ Deamon))

Spec == Init /\ [][Next]_vars /\ Fairness

-----------------------------------------------------------------------------
(* Types; message_send_remove never comes to a pointer that is not a       *)
(* node's: only the walk of an adder and the step of the scan lead astray. *)
(* Between two calls of the deamon no scan is left half done               *)
(* (message_keep.c:68-84, client_deamon.c:210-219).                        *)
TypeOK ==
    /\ overlap \in BOOLEAN
    /\ head \in Pointers
    /\ next \in [Cells -> Places] /\ id \in [Cells -> 0..MaxAdds]
    /\ live \subseteq Cells
    /\ apc \in [Adders -> {"idle", "test", "first", "head", "walk", "step", "link"}]
    /\ node \in [Adders -> Pointers] /\ acurr \in [Adders -> Places]
    /\ dpc \in {"idle", "remove", "comparehead", "walk", "compare", "moveon",
                "loadhead", "loadvictim", "loadfirst", "loadnext", "storehead",
                "storenext", "freecurr", "free", "scan", "advance"}
    /\ target \in 0..MaxAdds
    /\ dcurr \in Pointers /\ victim \in Pointers /\ loaded \in Pointers
    /\ scan \in Places /\ scanning \in BOOLEAN
    /\ dpc = "idle" => scan = NULL /\ ~scanning
    /\ proc \in {"running", "segv", "astray"}
    /\ proc = "astray" => scan = WILD \/ \E a \in Adders : acurr[a] = WILD
    /\ issued \in 0..MaxAdds
    /\ added \subseteq Ids
    /\ unlinked \subseteq 0..MaxAdds /\ reported \subseteq 0..MaxAdds

(* However the calls interleave, the list ends in NULL without a cycle and *)
(* consists of allocated nodes only: neither the unlocked walk of          *)
(* message_send_add nor the reuse of freed memory can bring a freed node   *)
(* back, or lead the list into the data of somebody else                   *)
(* (message_keep.c:32-42 against 66-84).                                   *)
ListSound ==
    /\ Len(Path) <= NumCells
    /\ Reachable \subseteq live
    /\ \A c \in Reachable : next[c] # WILD

(* A node is freed once: when free is called, but with NULL, the memory is *)
(* allocated and no longer on the list (message_keep.c:71-72 and 78-80).   *)
FreedOnce ==
    dpc \in {"freecurr", "free"} /\ Freed # NULL =>
        Freed \in live /\ Freed \notin Reachable

(* One thread at most has ever called message_send_add.                    *)
Sole == \A a, b \in Adders : node[a] # NULL /\ node[b] # NULL => a = b

(* While one application thread is all that adds, a message is handed to   *)
(* timeout_cb at most once, and never out of memory that is no node's at   *)
(* that moment, as long as the process has not gone astray.  That it may:  *)
(* the scan reads curr->next in the node it has just freed, and when the   *)
(* memory has become the buffer of a message, what is handed over next is  *)
(* no message at all (client_deamon.c:210-219).                            *)
ReportedOnce ==
    [][(/\ Sole /\ proc' # "astray"
        /\ reported' # reported \/ (dpc = "scan" /\ dpc' = "remove")) =>
          target' \notin reported /\ scan \in live]_vars

(* A message for which message_send_add returned MQTT_SUCCESS is on the    *)
(* list until the deamon takes it off (message_keep.c:32-42, mqtt.h:6).    *)
AddedIsKept ==
    proc = "running" =>
        added \subseteq {id[c] : c \in Reachable} \cup unlinked

(* With calls that do not overlap nothing that was added is lost.          *)
AddedIsKeptAlone == ~overlap => AddedIsKept

(* Calls that do not overlap behave as the list SendList describes; of     *)
(* those that do it promises nothing.                                      *)
Kept == IF overlap THEN <<>> ELSE [i \in DOMAIN Path |-> id[Path[i]]]
List == INSTANCE SendList WITH kept <- Kept
RefinesSendList == List!Spec

(* Every call of an application thread returns, unless the process crashes *)
(* or goes astray: the walk to the tail cannot go on for ever.             *)
AddReturns == \A a \in Adders : apc[a] # "idle" ~> apc[a] = "idle" \/ proc # "running"
=============================================================================
