----------------------------- MODULE DescrProofs -----------------------------
(***************************************************************************)
(* Proofs about Descr: the counters of the open files, the waiting of      *)
(* closef, the table's lock and the hints of the descriptor tables.        *)
(*                                                                         *)
(* A system call is one step of Descr put together from the functions of   *)
(* kern_descrip.c, each of which takes a state of the system to the next.  *)
(* The invariant is therefore stated for a state k in the middle of a call *)
(* of process p (Mid): p may hold its table's lock (h), and may have,      *)
(* beside what its record says, a reference to file u (FREF in fd_getfile) *)
(* and one to file x (the one closef drops), and a descriptor of y that is *)
(* out of its slot and still counted.  Between calls (Rest) there is no    *)
(* such p.  One lemma for each function says how it changes the            *)
(* parameters, one for each action that it leads from Rest to Rest.        *)
(***************************************************************************)
EXTENDS Descr, FiniteSetTheorems, WellFoundedInduction, TLAPS

\* The types of the variables.
Tab == [fd_ofiles : [Fds -> Files \union {NULL}], fd_map : SUBSET Fds,
        fd_freefile : Fds, fd_lastfile : Fds,
        fd_lock : Procs \union {NULL}, fd_refcnt : Nat]
File == [open : BOOLEAN, f_count : Nat, f_usecount : Nat,
         f_iflags : SUBSET {"WANTCLOSE", "LARVAL"}]
Pcs == {"none", "idle", "fdplock", "closef", "fo_close", "making", "io", "flock", "accept",
        "fdfree"}
Proc == [p_fd : Tables \union {NULL}, call : Calls \union {"none"}, fd : Fds, pc : Pcs,
         fp : Files \union {NULL}, new : Files \union {NULL}, wchan : Files \union {NULL}]
Sys == [tab : [Tables -> Tab], file : [Files -> File], proc : [Procs -> Proc]]

\* A state of the system, whose counters may have any value.
Shape(k) ==
  /\ k = [tab |-> k.tab, file |-> k.file, proc |-> k.proc]
  /\ k.tab \in [Tables -> Tab] /\ k.proc \in [Procs -> Proc]

One(c) == IF c THEN 1 ELSE 0

\* The slots, in all tables tb, that lead to file f.
SlotsIn(tb, f) == {s \in Tables \X Fds : tb[s[1]].fd_ofiles[s[2]] = f}

\* The processes other than p with a reference to file f: those that work with
\* it, all but flock, and those that make or close it.
UsersBut(k, p, f) == {q \in Procs \ {p} : k.proc[q].fp = f /\ k.proc[q].call # "flock"}
MakersBut(k, p, f) == {q \in Procs \ {p} : k.proc[q].new = f}

\* The processes that fd_refcnt of table t counts.
Members(k, t) == {q \in Procs : k.proc[q].p_fd = t /\ k.proc[q].call # "exit"}

\* A process with this record sleeps with its table's lock.
HoldsLock(r) == r.pc = "making" \/ (r.pc \in {"closef", "fo_close"} /\ r.call # "exit")

\* What process q has, where it is in its call.
Place(k, q) ==
  LET r == k.proc[q]
  IN /\ r.p_fd = NULL <=> r.pc = "none"
     /\ r.pc \in {"none", "idle"} => r.call = "none"
     /\ r.pc = "fdplock" => r.call \in {"open", "close", "dup", "dup2", "accept"}
     /\ r.pc \in {"closef", "fo_close"} =>
          r.call \in {"open", "close", "dup", "dup2", "accept", "exit"}
     /\ r.pc = "making" => r.call \in {"open", "accept"}
     /\ r.pc = "fdfree" => r.call = "exit"
     /\ r.pc \in {"io", "flock", "accept"} => r.call = r.pc
     /\ r.fp # NULL <=> \/ r.pc \in {"io", "flock", "accept"} \/ r.call = "accept"
                        \/ r.pc = "fdplock" /\ r.call \in {"dup", "dup2"}
     /\ r.new # NULL <=> r.pc \in {"making", "closef", "fo_close"}
     /\ r.pc = "making" => /\ k.tab[r.p_fd].fd_ofiles[r.fd] = r.new
                           /\ "LARVAL" \in k.file[r.new].f_iflags
     /\ r.pc \in {"closef", "fo_close"} => "WANTCLOSE" \in k.file[r.new].f_iflags
     /\ r.pc = "fo_close" => k.file[r.new].f_usecount = 1
     /\ r.wchan # NULL => /\ r.pc = "closef" /\ r.wchan = r.new
                          /\ k.file[r.new].f_usecount > 1

\* The counters of an open file are exact, and a file that has lost its last
\* descriptor is marked, with somebody in closef for it; nothing leads to a file
\* that is free.
FileInv(k, p, u, x, y, f) ==
  IF k.file[f].open
  THEN /\ k.file[f].f_count = Cardinality(SlotsIn(k.tab, f)) + One(f = y)
       /\ k.file[f].f_usecount = Cardinality(UsersBut(k, p, f)) + Cardinality(MakersBut(k, p, f))
                                 + One(f = u) + One(f = x)
       /\ "WANTCLOSE" \in k.file[f].f_iflags <=> k.file[f].f_count = 0
       /\ "WANTCLOSE" \in k.file[f].f_iflags =>
            f = x \/ \E q \in Procs \ {p} : k.proc[q].pc \in {"closef", "fo_close"} /\ k.proc[q].new = f
  ELSE /\ SlotsIn(k.tab, f) = {} /\ UsersBut(k, p, f) = {} /\ MakersBut(k, p, f) = {}
       /\ f \notin {u, x, y}

\* The bitmap and fd_lastfile take in every slot in use, fd_lock names the
\* process that has the lock, fd_refcnt counts the processes, and a process that
\* has begun fdfree is alone with the table.
TabInv(k, p, h, t) ==
  /\ \A i \in Fds : k.tab[t].fd_ofiles[i] # NULL =>
        i \in k.tab[t].fd_map /\ i <= k.tab[t].fd_lastfile
  /\ \A q \in Procs \ {p} :
        k.tab[t].fd_lock = q <=> k.proc[q].p_fd = t /\ HoldsLock(k.proc[q])
  /\ p \in Procs => (k.tab[t].fd_lock = p <=> k.proc[p].p_fd = t /\ h)
  /\ k.tab[t].fd_refcnt = Cardinality(Members(k, t))
  /\ (\A q \in Procs : k.proc[q].p_fd # t) => \A i \in Fds : k.tab[t].fd_ofiles[i] = NULL
  /\ \A q, r \in Procs :
        k.proc[q].p_fd = t /\ k.proc[r].p_fd = t /\ k.proc[q].call = "exit" => q = r

\* The invariant in the middle of a call of p, as the head of the module says;
\* no two processes make the same file.
Mid(k, p, h, u, x, y) ==
  /\ k \in Sys
  /\ \A f \in Files : FileInv(k, p, u, x, y, f)
  /\ \A t \in Tables : TabInv(k, p, h, t)
  /\ \A q \in Procs \ {p} : Place(k, q)
  /\ \A q, r \in Procs \ {p} :
       k.proc[q].pc = "making" /\ k.proc[r].pc = "making" /\ k.proc[q].new = k.proc[r].new => q = r

\* The invariant when no process is in the middle of a step.
Rest(k) == Mid(k, NULL, FALSE, NULL, NULL, NULL)
Inv == Rest(System) /\ program \in Programs

\* What processes that share a table must leave alone for the invariant to hold,
\* and the code does not keep them from: sys_accept's error path gives up
\* the table's lock without having it, fork copies a table that is locked, and
\* dup or dup2 goes on, once it has the lock, with a file that has lost its last
\* descriptor.  Each of them breaks the invariant.
LockFree(p) == tab[proc[p].p_fd].fd_lock = NULL
Careful ==
  \A p \in Procs :
    /\ AcceptBad(p) => LockFree(p)
    /\ \A q \in Procs : fork(p, q) => LockFree(p)
    /\ Fdplock(p) /\ proc[p].call \in {"dup", "dup2"} => file[proc[p].fp].f_count > 0

-----------------------------------------------------------------------------
\* A member leaves, if it was one, and another comes, if it was none.
LEMMA Leaves ==
  ASSUME NEW S, NEW e, IsFiniteSet(S)
  PROVE  /\ IsFiniteSet(S \ {e}) /\ Cardinality(S \ {e}) \in Nat /\ Cardinality(S) \in Nat
         /\ Cardinality(S) = Cardinality(S \ {e}) + One(e \in S)
<1>1. /\ Cardinality(S) \in Nat /\ IsFiniteSet(S \ {e})
      /\ Cardinality(S \ {e}) = IF e \in S THEN Cardinality(S) - 1 ELSE Cardinality(S)
      /\ Cardinality(S \ {e}) \in Nat
  BY FS_RemoveElement, FS_CardinalityType
<1> QED BY <1>1 DEF One

\* The sets that the counters stand for are finite.
LEMMA Counts ==
  ASSUME NEW k, NEW p, NEW f
  PROVE  /\ IsFiniteSet(UsersBut(k, p, f)) /\ Cardinality(UsersBut(k, p, f)) \in Nat
         /\ IsFiniteSet(MakersBut(k, p, f)) /\ Cardinality(MakersBut(k, p, f)) \in Nat
         /\ IsFiniteSet(SlotsIn(k.tab, f)) /\ Cardinality(SlotsIn(k.tab, f)) \in Nat
         /\ IsFiniteSet(Members(k, p)) /\ Cardinality(Members(k, p)) \in Nat
<1>1. IsFiniteSet(Procs) /\ IsFiniteSet(Tables \X Fds)
  BY DescrAssumption, FS_Product
<1>2. /\ UsersBut(k, p, f) \subseteq Procs /\ MakersBut(k, p, f) \subseteq Procs
      /\ SlotsIn(k.tab, f) \subseteq Tables \X Fds /\ Members(k, p) \subseteq Procs
  BY DEF UsersBut, MakersBut, SlotsIn, Members
<1> QED BY <1>1, <1>2, FS_Subset, FS_CardinalityType

\* The tables differ in one slot, which gets file g.
OneSlot(tb, tb2, t, i, g) ==
  \A a \in Tables, j \in Fds :
    tb2[a].fd_ofiles[j] = IF a = t /\ j = i THEN g ELSE tb[a].fd_ofiles[j]

\* A file in one slot more or less.
LEMMA SlotsChange ==
  ASSUME NEW tb, NEW tb2, NEW t \in Tables, NEW i \in Fds, NEW g, OneSlot(tb, tb2, t, i, g),
         NEW f, NEW old, old = tb[t].fd_ofiles[i]
  PROVE  /\ Cardinality(SlotsIn(tb, f)) \in Nat /\ Cardinality(SlotsIn(tb2, f)) \in Nat
         /\ Cardinality(SlotsIn(tb2, f)) + One(old = f) = Cardinality(SlotsIn(tb, f)) + One(g = f)
<1>1. IsFiniteSet(SlotsIn(tb, f))
  <2>1. IsFiniteSet(Tables \X Fds)
    BY DescrAssumption, FS_Product
  <2> QED BY <2>1, FS_Subset DEF SlotsIn
<1>2. \A a \in Tables, j \in Fds :
        tb2[a].fd_ofiles[j] = IF a = t /\ j = i THEN g ELSE tb[a].fd_ofiles[j]
  BY DEF OneSlot
<1>3. SlotsIn(tb2, f) = (SlotsIn(tb, f) \ {<<t, i>>}) \union (IF g = f THEN {<<t, i>>} ELSE {})
  BY <1>2 DEF SlotsIn
<1>4. <<t, i>> \in SlotsIn(tb, f) <=> tb[t].fd_ofiles[i] = f
  BY DEF SlotsIn
<1>5. /\ IsFiniteSet(SlotsIn(tb, f) \ {<<t, i>>})
      /\ Cardinality(SlotsIn(tb, f) \ {<<t, i>>}) \in Nat /\ Cardinality(SlotsIn(tb, f)) \in Nat
      /\ Cardinality(SlotsIn(tb, f)) =
           Cardinality(SlotsIn(tb, f) \ {<<t, i>>}) + One(tb[t].fd_ofiles[i] = f)
  BY <1>1, <1>4, Leaves DEF One
<1>6. CASE g = f
  <2>1. SlotsIn(tb2, f) = (SlotsIn(tb, f) \ {<<t, i>>}) \union {<<t, i>>}
    BY <1>3, <1>6
  <2>2. /\ Cardinality(SlotsIn(tb2, f)) = Cardinality(SlotsIn(tb, f) \ {<<t, i>>}) + 1
        /\ Cardinality(SlotsIn(tb2, f)) \in Nat
    BY <1>5, <2>1, FS_AddElement, FS_CardinalityType
  <2> QED BY <1>5, <1>6, <2>2 DEF One
<1>7. CASE g # f
  <2>1. SlotsIn(tb2, f) = SlotsIn(tb, f) \ {<<t, i>>}
    BY <1>3, <1>7
  <2>2. Cardinality(SlotsIn(tb2, f)) = Cardinality(SlotsIn(tb, f) \ {<<t, i>>})
    BY <2>1
  <2> QED BY <1>5, <1>7, <2>2 DEF One
<1> QED BY <1>6, <1>7

\* p counted with the rest, or apart.
LEMMA Apart ==
  ASSUME NEW k, NEW p \in Procs, NEW f
  PROVE  /\ Cardinality(UsersBut(k, NULL, f)) =
              Cardinality(UsersBut(k, p, f)) + One(k.proc[p].fp = f /\ k.proc[p].call # "flock")
         /\ Cardinality(MakersBut(k, NULL, f)) =
              Cardinality(MakersBut(k, p, f)) + One(k.proc[p].new = f)
<1>0. NULL \notin Procs
  BY DescrAssumption
<1>1. /\ UsersBut(k, p, f) = UsersBut(k, NULL, f) \ {p}
      /\ MakersBut(k, p, f) = MakersBut(k, NULL, f) \ {p}
      /\ p \in UsersBut(k, NULL, f) <=> k.proc[p].fp = f /\ k.proc[p].call # "flock"
      /\ p \in MakersBut(k, NULL, f) <=> k.proc[p].new = f
  BY <1>0 DEF UsersBut, MakersBut
<1>2. IsFiniteSet(UsersBut(k, NULL, f)) /\ IsFiniteSet(MakersBut(k, NULL, f))
  BY Counts
<1>3. Cardinality(UsersBut(k, NULL, f)) =
        Cardinality(UsersBut(k, p, f)) + One(p \in UsersBut(k, NULL, f))
  BY <1>1, <1>2, Leaves
<1>4. Cardinality(MakersBut(k, NULL, f)) =
        Cardinality(MakersBut(k, p, f)) + One(p \in MakersBut(k, NULL, f))
  BY <1>1, <1>2, Leaves
<1> QED BY <1>1, <1>3, <1>4 DEF One

\* No slot leads to a file.
LEMMA NoSlots ==
  ASSUME NEW tb, NEW f
  PROVE  SlotsIn(tb, f) = {} <=> \A a \in Tables, j \in Fds : tb[a].fd_ofiles[j] # f
<1>1. ASSUME SlotsIn(tb, f) = {}, NEW a \in Tables, NEW j \in Fds PROVE tb[a].fd_ofiles[j] # f
  <2>1. <<a, j>> \notin SlotsIn(tb, f)
    BY <1>1
  <2> QED BY <2>1 DEF SlotsIn
<1>2. (\A a \in Tables, j \in Fds : tb[a].fd_ofiles[j] # f) => SlotsIn(tb, f) = {}
  BY DEF SlotsIn
<1> QED BY <1>1, <1>2

-----------------------------------------------------------------------------
\* Process q and file g are the same in k and l, but for what q sleeps on and
\* the number of references to g.
SameProc(k, l, q) ==
  /\ l.proc[q].p_fd = k.proc[q].p_fd /\ l.proc[q].pc = k.proc[q].pc
  /\ l.proc[q].call = k.proc[q].call /\ l.proc[q].fd = k.proc[q].fd
  /\ l.proc[q].fp = k.proc[q].fp /\ l.proc[q].new = k.proc[q].new
SameFile(k, l, g) ==
  /\ l.file[g].open = k.file[g].open /\ l.file[g].f_count = k.file[g].f_count
  /\ l.file[g].f_iflags = k.file[g].f_iflags

\* Processes that stay the same are users and makers of the same files.
LEMMA Similar ==
  ASSUME NEW k, NEW l, NEW p, NEW f, \A q \in Procs \ {p} : SameProc(k, l, q)
  PROVE  UsersBut(l, p, f) = UsersBut(k, p, f) /\ MakersBut(l, p, f) = MakersBut(k, p, f)
BY DEF UsersBut, MakersBut, SameProc

\* References taken or dropped by p.
LEMMA Recount ==
  ASSUME NEW k, NEW l \in Sys, NEW p, NEW h, NEW u, NEW x, NEW y, NEW u2, NEW x2,
         Mid(k, p, h, u, x, y),
         l.tab = k.tab, \A q \in Procs : SameProc(k, l, q), \A g \in Files : SameFile(k, l, g),
         \A g \in Files : k.file[g].open =>
           l.file[g].f_usecount + One(g = u) + One(g = x) =
             k.file[g].f_usecount + One(g = u2) + One(g = x2),
         \A g \in Files : ~k.file[g].open => g \notin {u2, x2},
         \A g \in Files : "WANTCLOSE" \in k.file[g].f_iflags /\ g = x => g = x2,
         \A q \in Procs \ {p} : l.proc[q].wchan # NULL =>
           l.proc[q].wchan = k.proc[q].wchan /\ l.file[l.proc[q].new].f_usecount > 1,
         \A q \in Procs \ {p} : l.proc[q].pc = "fo_close" => l.file[l.proc[q].new].f_usecount = 1
  PROVE  Mid(l, p, h, u2, x2, y)
<1>1. \A f \in Files : FileInv(l, p, u2, x2, y, f)
  <2> TAKE f \in Files
  <2>1. FileInv(k, p, u, x, y, f) /\ SameFile(k, l, f) /\ k \in Sys
    BY DEF Mid
  <2>2. UsersBut(l, p, f) = UsersBut(k, p, f) /\ MakersBut(l, p, f) = MakersBut(k, p, f)
    BY Similar
  <2>3. /\ Cardinality(UsersBut(k, p, f)) \in Nat /\ Cardinality(MakersBut(k, p, f)) \in Nat
    BY Counts
  <2>4. CASE k.file[f].open
    <3>1. l.file[f].f_usecount \in Nat
      BY DEF Sys, File
    <3>2. /\ k.file[f].f_usecount = Cardinality(UsersBut(k, p, f)) + Cardinality(MakersBut(k, p, f))
                                    + One(f = u) + One(f = x)
      BY <2>1, <2>4 DEF FileInv
    <3>3. l.file[f].f_usecount + One(f = u) + One(f = x) =
             k.file[f].f_usecount + One(f = u2) + One(f = x2)
      BY <2>4
    <3>4. l.file[f].f_usecount = Cardinality(UsersBut(k, p, f)) + Cardinality(MakersBut(k, p, f))
                                    + One(f = u2) + One(f = x2)
      BY <2>3, <3>1, <3>2, <3>3 DEF One
    <3>5. "WANTCLOSE" \in l.file[f].f_iflags =>
            f = x2 \/ \E q \in Procs \ {p} : l.proc[q].pc \in {"closef", "fo_close"} /\ l.proc[q].new = f
      BY <2>1, <2>4 DEF FileInv, SameFile, SameProc
    <3> QED BY <2>1, <2>2, <2>4, <3>4, <3>5 DEF FileInv, SameFile
  <2>5. CASE ~k.file[f].open
    BY <2>1, <2>2, <2>5 DEF FileInv, SameFile
  <2> QED BY <2>4, <2>5
<1>2. \A t \in Tables : TabInv(l, p, h, t)
  <2> TAKE t \in Tables
  <2>1. TabInv(k, p, h, t)
    BY DEF Mid
  <2>2. Members(l, t) = Members(k, t)
    BY DEF Members, SameProc
  <2> QED BY <2>1, <2>2 DEF TabInv, SameProc, HoldsLock
<1>3. \A q \in Procs \ {p} : Place(l, q)
  <2> TAKE q \in Procs \ {p}
  <2>1. Place(k, q) /\ SameProc(k, l, q)
    BY DEF Mid
  <2>2. k \in Sys /\ l.proc[q].new \in Files \union {NULL}
    BY DEF Mid, Sys, Proc
  <2> QED BY <2>1, <2>2 DEF Place, SameProc, SameFile
<1>4. \A q, r \in Procs \ {p} :
        l.proc[q].pc = "making" /\ l.proc[r].pc = "making" /\ l.proc[q].new = l.proc[r].new => q = r
  BY DEF Mid, SameProc
<1> QED BY <1>1, <1>2, <1>3, <1>4 DEF Mid

\* FRELE drops one reference, and wakes the closers of a file that is marked.
LEMMA FRELEis ==
  ASSUME NEW k \in Sys, NEW f \in Files, k.file[f].f_usecount > 0
  PROVE  LET l == FRELE(k, f)
         IN /\ l \in Sys /\ l.tab = k.tab
            /\ \A q \in Procs : SameProc(k, l, q)
            /\ \A g \in Files : /\ SameFile(k, l, g)
                                /\ l.file[g].f_usecount = k.file[g].f_usecount - One(g = f)
            /\ \A q \in Procs : l.proc[q].wchan =
                 IF "WANTCLOSE" \in k.file[f].f_iflags /\ k.proc[q].wchan = f THEN NULL
                 ELSE k.proc[q].wchan
<1>1. /\ k.tab \in [Tables -> Tab] /\ k.file \in [Files -> File] /\ k.proc \in [Procs -> Proc]
      /\ k = [tab |-> k.tab, file |-> k.file, proc |-> k.proc]
  BY DEF Sys
<1> DEFINE fl == [k.file EXCEPT ![f].f_usecount = @ - 1]
           pr == IF "WANTCLOSE" \notin k.file[f].f_iflags THEN k.proc
                 ELSE [q \in Procs |-> [k.proc[q] EXCEPT !.wchan = IF @ = f THEN NULL ELSE @]]
           l  == FRELE(k, f)
<1>2. l.tab = k.tab /\ l.file = fl /\ l.proc = pr /\ l = [tab |-> k.tab, file |-> fl, proc |-> pr]
  <2>1. l = [[k EXCEPT !.file = fl] EXCEPT !.proc = pr]
    BY DEF FRELE
  <2> HIDE DEF fl, pr, l
  <2> QED BY <1>1, <2>1
<1>3. /\ fl \in [Files -> File]
      /\ \A g \in Files : /\ fl[g].open = k.file[g].open /\ fl[g].f_count = k.file[g].f_count
                          /\ fl[g].f_iflags = k.file[g].f_iflags
                          /\ fl[g].f_usecount = k.file[g].f_usecount - One(g = f)
  BY <1>1 DEF File, One
<1>4. /\ pr \in [Procs -> Proc]
      /\ \A q \in Procs :
           /\ pr[q].p_fd = k.proc[q].p_fd /\ pr[q].pc = k.proc[q].pc
           /\ pr[q].call = k.proc[q].call /\ pr[q].fd = k.proc[q].fd
           /\ pr[q].fp = k.proc[q].fp /\ pr[q].new = k.proc[q].new
           /\ pr[q].wchan = IF "WANTCLOSE" \in k.file[f].f_iflags /\ k.proc[q].wchan = f THEN NULL
                            ELSE k.proc[q].wchan
  BY <1>1 DEF Proc
<1> HIDE DEF fl, pr
<1>5. l \in Sys
  BY <1>1, <1>2, <1>3, <1>4 DEF Sys
<1>6. /\ \A q \in Procs : SameProc(k, l, q)
      /\ \A g \in Files : SameFile(k, l, g)
  BY <1>2, <1>3, <1>4 DEF SameProc, SameFile
<1> QED BY <1>2, <1>3, <1>4, <1>5, <1>6

\* FREF adds one reference.
LEMMA FREFis ==
  ASSUME NEW k \in Sys, NEW f \in Files
  PROVE  LET l == FREF(k, f)
         IN /\ l \in Sys /\ l.tab = k.tab /\ l.proc = k.proc
            /\ \A g \in Files : /\ SameFile(k, l, g)
                                /\ l.file[g].f_usecount = k.file[g].f_usecount + One(g = f)
<1>1. /\ k.tab \in [Tables -> Tab] /\ k.file \in [Files -> File] /\ k.proc \in [Procs -> Proc]
      /\ k = [tab |-> k.tab, file |-> k.file, proc |-> k.proc]
  BY DEF Sys
<1> DEFINE fl == [k.file EXCEPT ![f].f_usecount = @ + 1]
           l  == FREF(k, f)
<1>2. l.tab = k.tab /\ l.file = fl /\ l.proc = k.proc /\ l = [tab |-> k.tab, file |-> fl, proc |-> k.proc]
  <2>1. l = [k EXCEPT !.file = fl]
    BY DEF FREF
  <2> HIDE DEF fl, l
  <2> QED BY <1>1, <2>1
<1>3. /\ fl \in [Files -> File]
      /\ \A g \in Files : /\ fl[g].open = k.file[g].open /\ fl[g].f_count = k.file[g].f_count
                          /\ fl[g].f_iflags = k.file[g].f_iflags
                          /\ fl[g].f_usecount = k.file[g].f_usecount + One(g = f)
  BY <1>1 DEF File, One
<1> HIDE DEF fl
<1>4. l \in Sys
  BY <1>1, <1>2, <1>3 DEF Sys
<1> QED BY <1>2, <1>3, <1>4 DEF SameFile

\* A file that is used is open, and has the reference.
LEMMA Used ==
  ASSUME NEW k, NEW p, NEW h, NEW u, NEW x, NEW y, Mid(k, p, h, u, x, y), NEW f \in Files
  PROVE  /\ k \in Sys
         /\ f \in {u, x, y} => k.file[f].open
         /\ f \in {u, x} => k.file[f].f_usecount > 0
         /\ u = x /\ f = u => k.file[f].f_usecount > 1
         /\ f = y => k.file[f].f_count > 0 /\ "WANTCLOSE" \notin k.file[f].f_iflags
<1>1. FileInv(k, p, u, x, y, f) /\ k \in Sys
  BY DEF Mid
<1>2. /\ Cardinality(UsersBut(k, p, f)) \in Nat /\ Cardinality(MakersBut(k, p, f)) \in Nat
      /\ Cardinality(SlotsIn(k.tab, f)) \in Nat
  BY Counts
<1> QED BY <1>1, <1>2 DEF FileInv, One

\* FRELE of the file in use, or in hand.
LEMMA Drop ==
  ASSUME NEW k, NEW p, NEW h, NEW u, NEW x, NEW y, Mid(k, p, h, u, x, y),
         NEW f \in Files, NEW u2, NEW x2,
         \/ f = u /\ u2 = NULL /\ x2 = x
         \/ f = x /\ u2 = u /\ x2 = NULL /\ "WANTCLOSE" \notin k.file[f].f_iflags
  PROVE  Mid(FRELE(k, f), p, h, u2, x2, y)
<1> DEFINE l == FRELE(k, f)
<1>0. k \in Sys /\ k.file[f].f_usecount > 0 /\ k.file[f].open /\ NULL \notin Files
  BY Used, DescrAssumption
<1>1. /\ l \in Sys /\ l.tab = k.tab
      /\ \A q \in Procs : SameProc(k, l, q)
      /\ \A g \in Files : /\ SameFile(k, l, g)
                          /\ l.file[g].f_usecount = k.file[g].f_usecount - One(g = f)
      /\ \A q \in Procs : l.proc[q].wchan =
           IF "WANTCLOSE" \in k.file[f].f_iflags /\ k.proc[q].wchan = f THEN NULL
           ELSE k.proc[q].wchan
  BY <1>0, FRELEis
<1> HIDE DEF l
<1>2. \A g \in Files : k.file[g].open =>
           l.file[g].f_usecount + One(g = u) + One(g = x) =
             k.file[g].f_usecount + One(g = u2) + One(g = x2)
  <2> TAKE g \in Files
  <2>1. k.file[g].f_usecount \in Nat
    BY <1>0 DEF Sys, File
  <2> QED BY <1>0, <1>1, <2>1 DEF One
<1>3. \A g \in Files : ~k.file[g].open => g \notin {u2, x2}
  BY <1>0, Used
<1>4. \A g \in Files : "WANTCLOSE" \in k.file[g].f_iflags /\ g = x => g = x2
  OBVIOUS
<1>5. \A q \in Procs \ {p} : l.proc[q].wchan # NULL =>
           l.proc[q].wchan = k.proc[q].wchan /\ l.file[l.proc[q].new].f_usecount > 1
  <2> SUFFICES ASSUME NEW q \in Procs \ {p}, l.proc[q].wchan # NULL
               PROVE  l.proc[q].wchan = k.proc[q].wchan /\ l.file[l.proc[q].new].f_usecount > 1
    OBVIOUS
  <2>1. Place(k, q) /\ k.proc[q].new \in Files \union {NULL} /\ l.proc[q].wchan = k.proc[q].wchan
    BY <1>0, <1>1 DEF Mid, Sys, Proc
  <2>2. /\ k.proc[q].wchan = k.proc[q].new /\ k.file[k.proc[q].new].f_usecount > 1
        /\ "WANTCLOSE" \in k.file[k.proc[q].new].f_iflags /\ k.proc[q].new # NULL
    BY <2>1 DEF Place
  <2>3. k.proc[q].new # f
    BY <1>1, <2>2
  <2>4. l.proc[q].new = k.proc[q].new
    BY <1>1 DEF SameProc
  <2> QED BY <1>0, <1>1, <2>1, <2>2, <2>3, <2>4 DEF One, Sys, File
<1>6. \A q \in Procs \ {p} : l.proc[q].pc = "fo_close" => l.file[l.proc[q].new].f_usecount = 1
  <2> SUFFICES ASSUME NEW q \in Procs \ {p}, l.proc[q].pc = "fo_close"
               PROVE  l.file[l.proc[q].new].f_usecount = 1
    OBVIOUS
  <2>1. /\ Place(k, q) /\ k.proc[q].new \in Files \union {NULL} /\ FileInv(k, p, u, x, y, f)
        /\ k.proc[q].pc = "fo_close" /\ l.proc[q].new = k.proc[q].new
    BY <1>0, <1>1 DEF Mid, Sys, Proc, SameProc
  <2>2. k.file[k.proc[q].new].f_usecount = 1 /\ k.proc[q].new \in Files
    BY <2>1 DEF Place
  <2>3. k.proc[q].new # f
    <3> SUFFICES ASSUME k.proc[q].new = f PROVE FALSE
      OBVIOUS
    <3>1. q \in MakersBut(k, p, f)
      BY DEF MakersBut
    <3>2. /\ Cardinality(UsersBut(k, p, f)) \in Nat /\ Cardinality(MakersBut(k, p, f)) \in Nat
          /\ Cardinality(MakersBut(k, p, f)) # 0
      BY <3>1, Counts, FS_EmptySet
    <3> QED BY <1>0, <2>1, <2>2, <3>2 DEF FileInv, One
  <2> QED BY <1>0, <1>1, <2>1, <2>2, <2>3 DEF One
<1>7. l \in Sys /\ l.tab = k.tab /\ \A g \in Files : SameFile(k, l, g)
  BY <1>1
<1>8. \A q \in Procs : SameProc(k, l, q)
  BY <1>1
<1>9. Mid(l, p, h, u2, x2, y)
  BY <1>2, <1>3, <1>4, <1>5, <1>6, <1>7, <1>8, Recount
<1> QED BY <1>9 DEF l

\* FREF of an open file, to use it or to close it.
LEMMA Hold ==
  ASSUME NEW k, NEW p, NEW h, NEW u, NEW x, NEW y, Mid(k, p, h, u, x, y),
         NEW f \in Files, k.file[f].open, "WANTCLOSE" \notin k.file[f].f_iflags, NEW u2, NEW x2,
         \/ u = NULL /\ u2 = f /\ x2 = x
         \/ x = NULL /\ x2 = f /\ u2 = u
  PROVE  Mid(FREF(k, f), p, h, u2, x2, y)
<1> DEFINE l == FREF(k, f)
<1>0. k \in Sys /\ NULL \notin Files
  BY DescrAssumption DEF Mid
<1>1. /\ l \in Sys /\ l.tab = k.tab /\ l.proc = k.proc
      /\ \A g \in Files : /\ SameFile(k, l, g)
                          /\ l.file[g].f_usecount = k.file[g].f_usecount + One(g = f)
  BY <1>0, FREFis
<1> HIDE DEF l
<1>2. \A g \in Files : k.file[g].open =>
           l.file[g].f_usecount + One(g = u) + One(g = x) =
             k.file[g].f_usecount + One(g = u2) + One(g = x2)
  <2> TAKE g \in Files
  <2>1. k.file[g].f_usecount \in Nat
    BY <1>0 DEF Sys, File
  <2> QED BY <1>0, <1>1, <2>1 DEF One
<1>3. \A g \in Files : ~k.file[g].open => g \notin {u2, x2}
  BY <1>0, Used
<1>4. \A g \in Files : "WANTCLOSE" \in k.file[g].f_iflags /\ g = x => g = x2
  BY <1>0
<1>5. \A q \in Procs \ {p} : l.proc[q].wchan # NULL =>
           l.proc[q].wchan = k.proc[q].wchan /\ l.file[l.proc[q].new].f_usecount > 1
  <2> SUFFICES ASSUME NEW q \in Procs \ {p}, l.proc[q].wchan # NULL
               PROVE  l.file[l.proc[q].new].f_usecount > 1
    BY <1>1
  <2>1. Place(k, q) /\ k.proc[q].new \in Files \union {NULL}
    BY <1>0 DEF Mid, Sys, Proc
  <2>2. k.file[k.proc[q].new].f_usecount > 1 /\ k.proc[q].new # NULL
    BY <1>1, <2>1 DEF Place
  <2> QED BY <1>0, <1>1, <2>1, <2>2 DEF One, Sys, File
<1>6. \A q \in Procs \ {p} : l.proc[q].pc = "fo_close" => l.file[l.proc[q].new].f_usecount = 1
  <2> SUFFICES ASSUME NEW q \in Procs \ {p}, k.proc[q].pc = "fo_close"
               PROVE  l.file[k.proc[q].new].f_usecount = 1
    BY <1>1
  <2>1. Place(k, q) /\ k.proc[q].new \in Files \union {NULL}
    BY <1>0 DEF Mid, Sys, Proc
  <2>2. /\ k.file[k.proc[q].new].f_usecount = 1 /\ k.proc[q].new \in Files
        /\ "WANTCLOSE" \in k.file[k.proc[q].new].f_iflags
    BY <2>1 DEF Place
  <2> QED BY <1>1, <2>2 DEF One
<1>7. \A q \in Procs : SameProc(k, l, q)
  BY <1>1 DEF SameProc
<1>8. l \in Sys /\ l.tab = k.tab /\ \A g \in Files : SameFile(k, l, g)
  BY <1>1
<1>9. Mid(l, p, h, u2, x2, y)
  BY <1>2, <1>3, <1>4, <1>5, <1>6, <1>7, <1>8, Recount
<1> QED BY <1>9 DEF l

\* The files that other processes make or close stay as they are.
Keeps(k, l, p) ==
  \A q \in Procs \ {p} :
    LET g == k.proc[q].new
    IN g # NULL => /\ l.file[g].f_usecount = k.file[g].f_usecount
                   /\ k.file[g].f_iflags \subseteq l.file[g].f_iflags

\* A step of p within its own table, and on files.
LEMMA Shift ==
  ASSUME NEW k, NEW p \in Procs, NEW h, NEW u, NEW x, NEW y, Mid(k, p, h, u, x, y),
         NEW l \in Sys, NEW t \in Tables, k.proc[p].p_fd = t, l.proc = k.proc,
         \A a \in Tables \ {t} : l.tab[a] = k.tab[a],
         l.tab[t].fd_refcnt = k.tab[t].fd_refcnt,
         \A i \in Fds : l.tab[t].fd_ofiles[i] # NULL =>
           i \in l.tab[t].fd_map /\ i <= l.tab[t].fd_lastfile,
         NEW h2 \in BOOLEAN, l.tab[t].fd_lock = p <=> h2,
         \/ l.tab[t].fd_lock = k.tab[t].fd_lock
         \/ {l.tab[t].fd_lock, k.tab[t].fd_lock} \subseteq {p, NULL},
         \/ l.tab[t].fd_ofiles = k.tab[t].fd_ofiles
         \/ k.tab[t].fd_lock = p \/ k.proc[p].call = "exit",
         Keeps(k, l, p),
         NEW x2, NEW y2, \A g \in Files : FileInv(l, p, u, x2, y2, g)
  PROVE  Mid(l, p, h2, u, x2, y2)
<1>1. k \in Sys /\ NULL \notin Files /\ NULL \notin Procs /\ NULL \notin Tables
  BY DescrAssumption DEF Mid
<1>2. \A a \in Tables : TabInv(l, p, h2, a)
  <2> TAKE a \in Tables
  <2>1. TabInv(k, p, h, a) /\ Members(l, a) = Members(k, a)
    BY DEF Mid, Members
  <2>2. CASE a # t
    <3>1. l.tab[a] = k.tab[a]
      BY <2>2
    <3>2. k.proc[p].p_fd # a
      BY <2>2
    <3> QED BY <2>1, <3>1, <3>2 DEF TabInv
  <2>3. CASE a = t
    <3>1. \A q \in Procs \ {p} : l.tab[t].fd_lock = q <=> l.proc[q].p_fd = t /\ HoldsLock(l.proc[q])
      BY <1>1, <2>1, <2>3 DEF TabInv
    <3> QED BY <2>1, <2>3, <3>1 DEF TabInv
  <2> QED BY <2>2, <2>3
<1>3. \A q \in Procs \ {p} : Place(l, q)
  <2> TAKE q \in Procs \ {p}
  <2>1. Place(k, q) /\ k.proc[q] \in Proc
    BY <1>1 DEF Mid, Sys
  <2>2. k.proc[q].new \in Files \union {NULL} /\ k.proc[q].p_fd \in Tables \union {NULL}
    BY <2>1 DEF Proc
  <2>3. k.proc[q].pc = "making" => l.tab[k.proc[q].p_fd].fd_ofiles[k.proc[q].fd] = k.proc[q].new
    <3> SUFFICES ASSUME k.proc[q].pc = "making"
                 PROVE  l.tab[k.proc[q].p_fd].fd_ofiles[k.proc[q].fd] = k.proc[q].new
      OBVIOUS
    <3>1. /\ k.tab[k.proc[q].p_fd].fd_ofiles[k.proc[q].fd] = k.proc[q].new
          /\ k.proc[q].p_fd \in Tables
      BY <2>1, <2>2 DEF Place
    <3>2. CASE k.proc[q].p_fd # t
      BY <3>1, <3>2
    <3>3. CASE k.proc[q].p_fd = t
      <4>1. TabInv(k, p, h, t)
        BY DEF Mid
      <4>2. k.tab[t].fd_lock = q /\ k.proc[p].call # "exit"
        BY <3>3, <4>1 DEF TabInv, HoldsLock
      <4> QED BY <3>1, <3>3, <4>2
    <3> QED BY <3>2, <3>3
  <2>4. k.proc[q].new # NULL =>
          /\ l.file[k.proc[q].new].f_usecount = k.file[k.proc[q].new].f_usecount
          /\ k.file[k.proc[q].new].f_iflags \subseteq l.file[k.proc[q].new].f_iflags
    BY DEF Keeps
  <2> QED BY <2>1, <2>2, <2>3, <2>4 DEF Place
<1>4. \A q, r \in Procs \ {p} :
        l.proc[q].pc = "making" /\ l.proc[r].pc = "making" /\ l.proc[q].new = l.proc[r].new => q = r
  BY DEF Mid
<1> QED BY <1>2, <1>3, <1>4 DEF Mid

\* The slots that the tables have in common.
LEMMA SameSlots ==
  ASSUME NEW k, NEW l, \A t \in Tables : l.tab[t].fd_ofiles = k.tab[t].fd_ofiles, NEW f
  PROVE  SlotsIn(l.tab, f) = SlotsIn(k.tab, f)
BY DEF SlotsIn

\* fdpunlock, by the process with the lock or when nobody has it.
LEMMA Unlock ==
  ASSUME NEW k, NEW p \in Procs, NEW h, NEW u, NEW x, NEW y, Mid(k, p, h, u, x, y),
         k.proc[p].p_fd \in Tables, h \/ k.tab[k.proc[p].p_fd].fd_lock = NULL
  PROVE  /\ Mid(fdpunlock(k, p), p, FALSE, u, x, y)
         /\ fdpunlock(k, p).proc = k.proc /\ fdpunlock(k, p).file = k.file
<1> DEFINE t  == k.proc[p].p_fd
           tb == [k.tab EXCEPT ![t].fd_lock = NULL]
           l  == fdpunlock(k, p)
<1>1. /\ k \in Sys /\ k.tab \in [Tables -> Tab] /\ k.file \in [Files -> File] /\ k.proc \in [Procs -> Proc]
      /\ k = [tab |-> k.tab, file |-> k.file, proc |-> k.proc]
      /\ NULL \notin Procs
  BY DescrAssumption DEF Mid, Sys
<1>2. l.tab = tb /\ l.file = k.file /\ l.proc = k.proc /\ l = [tab |-> tb, file |-> k.file, proc |-> k.proc]
  <2>1. l = [k EXCEPT !.tab = tb]
    BY DEF fdpunlock
  <2> HIDE DEF tb, l
  <2> QED BY <1>1, <2>1
<1>3. /\ tb \in [Tables -> Tab] /\ tb[t].fd_lock = NULL
      /\ \A a \in Tables : /\ tb[a].fd_ofiles = k.tab[a].fd_ofiles /\ tb[a].fd_refcnt = k.tab[a].fd_refcnt
                           /\ tb[a].fd_map = k.tab[a].fd_map /\ tb[a].fd_lastfile = k.tab[a].fd_lastfile
      /\ \A a \in Tables \ {t} : tb[a] = k.tab[a]
  BY <1>1 DEF Tab
<1>4. TabInv(k, p, h, t)
  BY DEF Mid
<1>5. k.tab[t].fd_lock \in {p, NULL}
  BY <1>4 DEF TabInv
<1> HIDE DEF tb, l
<1>6. l \in Sys
  BY <1>1, <1>2, <1>3 DEF Sys
<1>7. \A g \in Files : FileInv(l, p, u, x, y, g)
  <2> TAKE g \in Files
  <2>1. FileInv(k, p, u, x, y, g)
    BY DEF Mid
  <2>2. SlotsIn(l.tab, g) = SlotsIn(k.tab, g)
    BY <1>2, <1>3, SameSlots
  <2>3. UsersBut(l, p, g) = UsersBut(k, p, g) /\ MakersBut(l, p, g) = MakersBut(k, p, g)
    BY <1>2 DEF UsersBut, MakersBut
  <2> QED BY <1>2, <2>1, <2>2, <2>3 DEF FileInv
<1>8. Mid(l, p, FALSE, u, x, y)
  <2> DEFINE tt == t
  <2>1. \A i \in Fds : l.tab[tt].fd_ofiles[i] # NULL =>
           i \in l.tab[tt].fd_map /\ i <= l.tab[tt].fd_lastfile
    BY <1>2, <1>3, <1>4 DEF TabInv
  <2>2. /\ \A a \in Tables \ {tt} : l.tab[a] = k.tab[a]
        /\ l.tab[tt].fd_refcnt = k.tab[tt].fd_refcnt /\ l.tab[tt].fd_ofiles = k.tab[tt].fd_ofiles
        /\ l.tab[tt].fd_lock = NULL /\ l.tab[tt].fd_lock # p
        /\ {l.tab[tt].fd_lock, k.tab[tt].fd_lock} \subseteq {p, NULL}
    BY <1>1, <1>2, <1>3, <1>5
  <2>3. k.proc[p].p_fd = tt /\ tt \in Tables
    OBVIOUS
  <2> HIDE DEF tt
  <2>4. Keeps(k, l, p)
    BY <1>2 DEF Keeps
  <2> QED BY <1>2, <1>6, <1>7, <2>1, <2>2, <2>3, <2>4, Shift
<1> QED BY <1>2, <1>8 DEF l

-----------------------------------------------------------------------------
\* One part of the state replaced.
LEMMA SetProc ==
  ASSUME NEW k \in Sys, NEW pr \in [Procs -> Proc], NEW l, l = [k EXCEPT !.proc = pr]
  PROVE  l \in Sys /\ l.tab = k.tab /\ l.file = k.file /\ l.proc = pr
BY DEF Sys

\* The files replaced.
LEMMA SetFile ==
  ASSUME NEW k \in Sys, NEW fl \in [Files -> File], NEW l, l = [k EXCEPT !.file = fl]
  PROVE  l \in Sys /\ l.tab = k.tab /\ l.proc = k.proc /\ l.file = fl
BY DEF Sys

\* The tables replaced.
LEMMA SetTab ==
  ASSUME NEW k \in Sys, NEW tb \in [Tables -> Tab], NEW l, l = [k EXCEPT !.tab = tb]
  PROVE  l \in Sys /\ l.file = k.file /\ l.proc = k.proc /\ l.tab = tb
BY DEF Sys

\* Nothing but the record of p, which is r.
Owns(k, l, p, r) ==
  /\ l.tab = k.tab /\ l.file = k.file /\ l.proc[p] = r
  /\ \A q \in Procs \ {p} : l.proc[q] = k.proc[q]

\* The record of a process replaced.
LEMMA SetOwn ==
  ASSUME NEW k \in Sys, NEW p \in Procs, NEW r \in Proc,
         NEW l, l = [k EXCEPT !.proc = [k.proc EXCEPT ![p] = r]]
  PROVE  l \in Sys /\ Owns(k, l, p, r)
<1> DEFINE pr == [k.proc EXCEPT ![p] = r]
<1>1. /\ pr \in [Procs -> Proc] /\ pr[p] = r /\ \A q \in Procs \ {p} : pr[q] = k.proc[q]
      /\ l = [k EXCEPT !.proc = pr]
  BY DEF Sys
<1> HIDE DEF pr
<1>3. l \in Sys /\ l.tab = k.tab /\ l.file = k.file /\ l.proc = pr
  BY ONLY k \in Sys, <1>1, SetProc
<1> QED BY ONLY <1>1, <1>3 DEF Owns

\* p begins a step.
LEMMA Enter ==
  ASSUME NEW k, Rest(k), NEW p \in Procs, NEW h \in BOOLEAN, h <=> HoldsLock(k.proc[p]),
         NEW u, u = IF k.proc[p].call = "flock" THEN NULL ELSE k.proc[p].fp,
         NEW x, x = k.proc[p].new, x # NULL => k.proc[p].pc \in {"making", "closef", "fo_close"}
  PROVE  Mid(k, p, h, u, x, NULL)
<1>1. k \in Sys /\ NULL \notin Files /\ NULL \notin Procs /\ NULL \notin Tables
  BY DescrAssumption DEF Mid, Rest
<1>2. \A f \in Files : FileInv(k, p, u, x, NULL, f)
  <2> TAKE f \in Files
  <2>1. FileInv(k, NULL, NULL, NULL, NULL, f)
    BY DEF Rest, Mid
  <2>2. /\ Cardinality(UsersBut(k, NULL, f)) =
             Cardinality(UsersBut(k, p, f)) + One(k.proc[p].fp = f /\ k.proc[p].call # "flock")
        /\ Cardinality(MakersBut(k, NULL, f)) =
             Cardinality(MakersBut(k, p, f)) + One(k.proc[p].new = f)
    BY Apart
  <2>3. /\ One(k.proc[p].fp = f /\ k.proc[p].call # "flock") = One(f = u)
        /\ One(k.proc[p].new = f) = One(f = x) /\ One(f = NULL) = 0
    BY <1>1 DEF One
  <2>4. /\ Cardinality(UsersBut(k, p, f)) \in Nat /\ Cardinality(MakersBut(k, p, f)) \in Nat
        /\ One(f = u) \in Nat /\ One(f = x) \in Nat
    BY Counts DEF One
  <2>5. CASE k.file[f].open
    <3>1. k.file[f].f_usecount = Cardinality(UsersBut(k, NULL, f)) + Cardinality(MakersBut(k, NULL, f)) + 0 + 0
      BY <2>1, <2>3, <2>5 DEF FileInv
    <3>2. k.file[f].f_usecount = Cardinality(UsersBut(k, p, f)) + Cardinality(MakersBut(k, p, f))
                                 + One(f = u) + One(f = x)
      BY <2>2, <2>3, <2>4, <3>1
    <3>3. "WANTCLOSE" \in k.file[f].f_iflags =>
             f = x \/ \E q \in Procs \ {p} : k.proc[q].pc \in {"closef", "fo_close"} /\ k.proc[q].new = f
      BY <1>1, <2>1, <2>5 DEF FileInv
    <3> QED BY <2>1, <2>5, <3>2, <3>3 DEF FileInv
  <2>6. CASE ~k.file[f].open
    BY <1>1, <2>1, <2>6 DEF FileInv, UsersBut, MakersBut
  <2> QED BY <2>5, <2>6
<1>3. \A t \in Tables : TabInv(k, p, h, t)
  <2> TAKE t \in Tables
  <2>1. TabInv(k, NULL, FALSE, t)
    BY DEF Rest, Mid
  <2> QED BY <1>1, <2>1 DEF TabInv
<1> QED BY <1>1, <1>2, <1>3 DEF Rest, Mid

\* p ends a step with r for its record.
LEMMA Settle ==
  ASSUME NEW k, NEW p \in Procs, NEW h \in BOOLEAN, NEW u, NEW x, Mid(k, p, h, u, x, NULL),
         NEW r \in Proc, NEW l \in Sys, Owns(k, l, p, r),
         r.p_fd = k.proc[p].p_fd, r.call = "exit" <=> k.proc[p].call = "exit",
         u = IF r.call = "flock" THEN NULL ELSE r.fp, x = r.new,
         HoldsLock(r) <=> h, Place(l, p),
         x # NULL /\ "WANTCLOSE" \in k.file[x].f_iflags => r.pc \in {"closef", "fo_close"},
         r.pc = "making" => \A q \in Procs \ {p} : k.proc[q].new # x
  PROVE  Rest(l)
<1>1. /\ k \in Sys /\ NULL \notin Files /\ NULL \notin Procs /\ NULL \notin Tables
      /\ l.proc[p] = r /\ \A q \in Procs \ {p} : l.proc[q] = k.proc[q]
      /\ l.tab = k.tab /\ l.file = k.file
  BY DescrAssumption DEF Mid, Owns
<1>2. \A f \in Files : FileInv(l, NULL, NULL, NULL, NULL, f)
  <2> TAKE f \in Files
  <2>1. FileInv(k, p, u, x, NULL, f)
    BY DEF Mid
  <2>2. /\ Cardinality(UsersBut(l, NULL, f)) =
             Cardinality(UsersBut(l, p, f)) + One(l.proc[p].fp = f /\ l.proc[p].call # "flock")
        /\ Cardinality(MakersBut(l, NULL, f)) =
             Cardinality(MakersBut(l, p, f)) + One(l.proc[p].new = f)
    BY ONLY Apart, p \in Procs
  <2>3. /\ One(l.proc[p].fp = f /\ l.proc[p].call # "flock") = One(f = u)
        /\ One(l.proc[p].new = f) = One(f = x) /\ One(f = NULL) = 0
    BY <1>1 DEF One
  <2>4. UsersBut(l, p, f) = UsersBut(k, p, f) /\ MakersBut(l, p, f) = MakersBut(k, p, f)
    BY <1>1 DEF UsersBut, MakersBut
  <2>5. /\ Cardinality(UsersBut(k, p, f)) \in Nat /\ Cardinality(MakersBut(k, p, f)) \in Nat
        /\ One(f = u) \in Nat /\ One(f = x) \in Nat
    BY Counts DEF One
  <2>6. CASE k.file[f].open
    <3>1. k.file[f].f_usecount = Cardinality(UsersBut(k, p, f)) + Cardinality(MakersBut(k, p, f))
                                 + One(f = u) + One(f = x)
      BY <2>1, <2>6 DEF FileInv
    <3>2. k.file[f].f_usecount = Cardinality(UsersBut(l, NULL, f)) + Cardinality(MakersBut(l, NULL, f)) + 0 + 0
      BY <2>2, <2>3, <2>4, <2>5, <3>1
    <3>3. "WANTCLOSE" \in k.file[f].f_iflags =>
             \E q \in Procs : l.proc[q].pc \in {"closef", "fo_close"} /\ l.proc[q].new = f
      BY <1>1, <2>1, <2>6 DEF FileInv
    <3> QED BY <1>1, <2>1, <2>3, <2>6, <3>2, <3>3 DEF FileInv
  <2>7. CASE ~k.file[f].open
    <3>1. UsersBut(l, NULL, f) = {} /\ MakersBut(l, NULL, f) = {}
      BY <1>1, <2>1, <2>7 DEF FileInv, UsersBut, MakersBut
    <3> QED BY <1>1, <2>1, <2>7, <3>1 DEF FileInv
  <2> QED BY <2>6, <2>7
<1>3. \A t \in Tables : TabInv(l, NULL, FALSE, t)
  <2> TAKE t \in Tables
  <2>1. TabInv(k, p, h, t)
    BY DEF Mid
  <2>2. Members(l, t) = Members(k, t)
    BY <1>1 DEF Members
  <2>3. \A q \in Procs : l.tab[t].fd_lock = q <=> l.proc[q].p_fd = t /\ HoldsLock(l.proc[q])
    BY <1>1, <2>1 DEF TabInv
  <2>4. \A q \in Procs : l.proc[q].p_fd = k.proc[q].p_fd
    BY <1>1
  <2>5. \A q \in Procs : l.proc[q].call = "exit" <=> k.proc[q].call = "exit"
    BY <1>1
  <2> QED BY <1>1, <2>1, <2>2, <2>3, <2>4, <2>5 DEF TabInv
<1>4. \A q \in Procs : Place(l, q)
  <2> TAKE q \in Procs
  <2>1. CASE q # p
    <3>1. Place(k, q) /\ l.proc[q] = k.proc[q]
      BY <1>1, <2>1 DEF Mid
    <3> QED BY <1>1, <3>1 DEF Place
  <2> QED BY <2>1
<1>5. \A q, s \in Procs :
        l.proc[q].pc = "making" /\ l.proc[s].pc = "making" /\ l.proc[q].new = l.proc[s].new => q = s
  BY <1>1 DEF Mid
<1> QED BY <1>1, <1>2, <1>3, <1>4, <1>5 DEF Rest, Mid

\* Return.
LEMMA Returned ==
  ASSUME NEW k, NEW p \in Procs, Mid(k, p, FALSE, NULL, NULL, NULL),
         k.proc[p].p_fd \in Tables, k.proc[p].call # "exit"
  PROVE  Rest(Return(k, p))
<1>1. k \in Sys /\ NULL \notin Tables /\ 0 \in Fds /\ FALSE \in BOOLEAN
  BY DescrAssumption DEF Mid
<1>2. PICK r : r = Idle(k.proc[p].p_fd)
  OBVIOUS
<1>3. /\ r \in Proc /\ r.p_fd = k.proc[p].p_fd /\ r.call = "none" /\ r.fp = NULL /\ r.new = NULL
      /\ r.pc = "idle" /\ r.wchan = NULL
  BY <1>1, <1>2 DEF Idle, Proc, Pcs
<1>4. PICK l : l = Return(k, p)
  OBVIOUS
<1>5. l \in Sys /\ Owns(k, l, p, r)
  <2>1. l = [k EXCEPT !.proc = [k.proc EXCEPT ![p] = r]]
    BY ONLY <1>2, <1>4 DEF Return
  <2> QED BY ONLY p \in Procs, <1>1, <1>3, <2>1, SetOwn
<1>6. Place(l, p)
  BY <1>1, <1>3, <1>5 DEF Place, Owns
<1>7. /\ (r.call = "exit" <=> k.proc[p].call = "exit")
      /\ NULL = IF r.call = "flock" THEN NULL ELSE r.fp
      /\ NULL = r.new /\ (HoldsLock(r) <=> FALSE) /\ r.pc # "making"
  BY <1>3 DEF HoldsLock
<1>8. Rest(l)
  BY <1>1, <1>3, <1>5, <1>6, <1>7, Settle
<1> QED BY <1>4, <1>8

-----------------------------------------------------------------------------
\* p is in a call that may close a file.
InCall(k, p, h, u) ==
  /\ k.proc[p].p_fd \in Tables
  /\ k.proc[p].call \in {"open", "close", "dup", "dup2", "accept", "exit"}
  /\ u = k.proc[p].fp /\ (u # NULL <=> k.proc[p].call = "accept")
  /\ k.proc[p].call = "exit" => ~h /\ k.proc[p].wchan = NULL
  /\ k.proc[p].call # "exit" => h \/ k.tab[k.proc[p].p_fd].fd_lock = NULL

\* The end of such a call.
LEMMA Finish ==
  ASSUME NEW k, NEW p \in Procs, NEW h \in BOOLEAN, NEW u, Mid(k, p, h, u, NULL, NULL),
         InCall(k, p, h, u), k.proc[p].call = "exit" => k.proc[p].new = NULL
  PROVE  Rest(AfterClosef(k, p))
<1>1. /\ k \in Sys /\ k.proc \in [Procs -> Proc] /\ k.proc[p] \in Proc
      /\ NULL \notin Tables /\ NULL \notin Files
  BY DescrAssumption DEF Mid, Sys
<1>2. CASE k.proc[p].call = "exit"
  <2>0. PICK r : r = [k.proc[p] EXCEPT !.pc = "fdfree"]
    OBVIOUS
  <2>1. PICK l : l = AfterClosef(k, p)
    OBVIOUS
  <2>2. /\ r \in Proc /\ r.p_fd = k.proc[p].p_fd /\ r.call = "exit" /\ r.fp = NULL /\ r.new = NULL
        /\ r.pc = "fdfree" /\ r.wchan = NULL
    BY <1>1, <1>2, <2>0 DEF Proc, Pcs, InCall
  <2>3. l \in Sys /\ Owns(k, l, p, r)
    <3>1. l = [k EXCEPT !.proc = [k.proc EXCEPT ![p] = r]]
      BY ONLY <1>2, <2>0, <2>1 DEF AfterClosef
    <3> QED BY ONLY p \in Procs, <1>1, <2>2, <3>1, SetOwn
  <2>4. Place(l, p)
    BY <1>1, <2>2, <2>3 DEF Place, InCall, Owns
  <2>5. /\ (r.call = "exit" <=> k.proc[p].call = "exit")
        /\ u = IF r.call = "flock" THEN NULL ELSE r.fp
        /\ NULL = r.new /\ (HoldsLock(r) <=> h) /\ r.pc # "making"
    BY <1>2, <2>2 DEF HoldsLock, InCall
  <2>6. Rest(l)
    BY <2>2, <2>3, <2>4, <2>5, Settle
  <2> QED BY <2>1, <2>6
<1>3. CASE k.proc[p].call # "exit"
  <2> DEFINE m == fdpunlock(k, p)
  <2>1. Mid(m, p, FALSE, u, NULL, NULL) /\ m.proc = k.proc /\ m.file = k.file
    BY <1>3, Unlock DEF InCall
  <2> HIDE DEF m
  <2>2. CASE k.proc[p].call = "accept"
    <3> DEFINE f == k.proc[p].fp
               l == FRELE(m, f)
    <3>1. AfterClosef(k, p) = Return(l, p)
      BY <2>2 DEF AfterClosef, m
    <3>2. f \in Files /\ u = f
      BY <1>1, <2>2 DEF InCall, Proc
    <3> HIDE DEF f
    <3>3. Mid(l, p, FALSE, NULL, NULL, NULL)
      BY <2>1, <3>2, Drop
    <3>4. m \in Sys /\ m.file[f].f_usecount > 0
      BY <2>1, <3>2, Used
    <3>5. SameProc(m, l, p)
      BY <3>2, <3>4, FRELEis
    <3>6. l.proc[p].p_fd \in Tables /\ l.proc[p].call # "exit"
      BY <1>3, <2>1, <3>5 DEF SameProc, InCall
    <3> HIDE DEF l
    <3> QED BY <3>1, <3>3, <3>6, Returned
  <2>3. CASE k.proc[p].call # "accept"
    <3>1. AfterClosef(k, p) = Return(m, p)
      BY <1>3, <2>3 DEF AfterClosef, m
    <3>2. u = NULL
      BY <2>3 DEF InCall
    <3> QED BY <1>3, <2>1, <3>1, <3>2, Returned DEF InCall
  <2> QED BY <2>2, <2>3
<1> QED BY <1>2, <1>3

\* closef when the file is nobody's any more: p waits, or begins fo_close.
LEMMA Waits ==
  ASSUME NEW k, NEW p \in Procs, NEW h \in BOOLEAN, NEW u, NEW f \in Files,
         Mid(k, p, h, u, f, NULL), InCall(k, p, h, u),
         k.proc[p].call # "exit" => h,
         "WANTCLOSE" \in k.file[f].f_iflags
  PROVE  Rest(ClosefWait(k, p, f))
<1>1. /\ k \in Sys /\ k.proc \in [Procs -> Proc] /\ k.proc[p] \in Proc /\ k.file \in [Files -> File]
      /\ NULL \notin Tables /\ NULL \notin Files /\ NULL \notin Procs
  BY DescrAssumption DEF Mid, Sys
<1>2. k.file[f].f_usecount > 0 /\ k.file[f].f_usecount \in Nat
  BY <1>1, Used DEF File
<1>3. PICK c : c = IF k.file[f].f_usecount > 1 THEN "closef" ELSE "fo_close"
  OBVIOUS
<1>4. PICK w : w = IF k.file[f].f_usecount > 1 THEN f ELSE NULL
  OBVIOUS
<1>5. /\ c \in {"closef", "fo_close"} /\ w \in Files \union {NULL}
      /\ c = "fo_close" => k.file[f].f_usecount = 1
      /\ w # NULL => c = "closef" /\ w = f /\ k.file[f].f_usecount > 1
  BY <1>1, <1>2, <1>3, <1>4
<1>6. PICK r : r = [[[k.proc[p] EXCEPT !.pc = c] EXCEPT !.new = f] EXCEPT !.wchan = w]
  OBVIOUS
<1>7. PICK l : l = ClosefWait(k, p, f)
  OBVIOUS
<1>8. /\ r \in Proc /\ r.p_fd = k.proc[p].p_fd /\ r.call = k.proc[p].call /\ r.fp = k.proc[p].fp
      /\ r.new = f /\ r.pc = c /\ r.wchan = w
  BY <1>1, <1>5, <1>6 DEF Proc, Pcs
<1>9. l \in Sys /\ Owns(k, l, p, r)
  <2>1. l = [k EXCEPT !.proc = [k.proc EXCEPT ![p] = r]]
    BY <1>1, <1>3, <1>4, <1>6, <1>7 DEF ClosefWait
  <2> QED BY ONLY p \in Procs, <1>1, <1>8, <2>1, SetOwn
<1>10. Place(l, p)
  BY <1>1, <1>5, <1>8, <1>9 DEF Place, InCall, Owns
<1>11. /\ (r.call = "exit" <=> k.proc[p].call = "exit")
       /\ u = IF r.call = "flock" THEN NULL ELSE r.fp
       /\ f = r.new /\ (HoldsLock(r) <=> h) /\ r.pc \in {"closef", "fo_close"} /\ r.pc # "making"
  BY <1>5, <1>8 DEF HoldsLock, InCall
<1>12. Rest(l)
  BY <1>8, <1>9, <1>10, <1>11, Settle
<1> QED BY <1>7, <1>12

\* The file is freed once fo_close is done: only p had a reference to it.
LEMMA Frees ==
  ASSUME NEW k, NEW p \in Procs, NEW h \in BOOLEAN, NEW u, NEW f \in Files,
         Mid(k, p, h, u, f, NULL), InCall(k, p, h, u),
         "WANTCLOSE" \in k.file[f].f_iflags, k.file[f].f_usecount = 1
  PROVE  Rest(AfterClosef(Freed(k, p, f), p))
<1>1. /\ k \in Sys /\ k.proc \in [Procs -> Proc] /\ k.proc[p] \in Proc /\ k.file \in [Files -> File]
      /\ NULL \notin Tables /\ NULL \notin Files /\ NULL \notin Procs
  BY DescrAssumption DEF Mid, Sys
<1>2. k.file[f].open /\ k.file[f].f_count = 0
  BY Used DEF Mid, FileInv
<1> DEFINE r  == [k.proc[p] EXCEPT !.new = NULL]
           pr == [k.proc EXCEPT ![p] = r]
           fl == [k.file EXCEPT ![f] = FreeFile]
           m  == [k EXCEPT !.file = fl]
           l  == [m EXCEPT !.proc = pr]
<1>3. Freed(k, p, f) = l
  BY <1>1 DEF Freed
<1>4. /\ r \in Proc /\ r.p_fd = k.proc[p].p_fd /\ r.call = k.proc[p].call /\ r.fp = k.proc[p].fp
      /\ r.new = NULL /\ r.pc = k.proc[p].pc /\ r.wchan = k.proc[p].wchan
  BY <1>1 DEF Proc
<1> HIDE DEF r
<1>5. /\ pr \in [Procs -> Proc] /\ pr[p] = r /\ \A q \in Procs \ {p} : pr[q] = k.proc[q]
  BY <1>1, <1>4
<1>6. /\ fl \in [Files -> File] /\ \A g \in Files \ {f} : fl[g] = k.file[g]
      /\ ~fl[f].open
  BY <1>1 DEF FreeFile, File
<1> HIDE DEF pr, fl
<1>7. m \in Sys /\ m.tab = k.tab /\ m.proc = k.proc /\ m.file = fl
  BY <1>1, <1>6, SetFile
<1> HIDE DEF m
<1>8. l \in Sys /\ l.tab = k.tab /\ l.proc = pr /\ l.file = fl
  BY <1>5, <1>7, SetProc
<1> HIDE DEF l
<1>9. /\ SlotsIn(k.tab, f) = {} /\ UsersBut(k, p, f) = {} /\ MakersBut(k, p, f) = {} /\ f # u
  <2>1. FileInv(k, p, u, f, NULL, f)
    BY DEF Mid
  <2>2. /\ IsFiniteSet(UsersBut(k, p, f)) /\ Cardinality(UsersBut(k, p, f)) \in Nat
        /\ IsFiniteSet(MakersBut(k, p, f)) /\ Cardinality(MakersBut(k, p, f)) \in Nat
        /\ IsFiniteSet(SlotsIn(k.tab, f)) /\ Cardinality(SlotsIn(k.tab, f)) \in Nat
    BY Counts
  <2>3. /\ Cardinality(SlotsIn(k.tab, f)) = 0
        /\ Cardinality(UsersBut(k, p, f)) = 0 /\ Cardinality(MakersBut(k, p, f)) = 0 /\ f # u
    BY <1>1, <1>2, <2>1, <2>2 DEF FileInv, One
  <2> QED BY <2>2, <2>3, FS_EmptySet
<1>10. \A g \in Files : FileInv(l, p, u, NULL, NULL, g)
  <2> TAKE g \in Files
  <2>1. FileInv(k, p, u, f, NULL, g)
    BY DEF Mid
  <2>2. UsersBut(l, p, g) = UsersBut(k, p, g) /\ MakersBut(l, p, g) = MakersBut(k, p, g)
    BY <1>5, <1>8 DEF UsersBut, MakersBut
  <2>3. CASE g = f
    BY <1>1, <1>6, <1>8, <1>9, <2>2, <2>3 DEF FileInv
  <2>4. CASE g # f
    <3>1. l.file[g] = k.file[g] /\ One(g = f) = 0 /\ One(g = NULL) = 0
      BY <1>1, <1>6, <1>8, <2>4 DEF One
    <3>2. CASE k.file[g].open
      <4>1. "WANTCLOSE" \in k.file[g].f_iflags =>
              \E q \in Procs \ {p} : l.proc[q].pc \in {"closef", "fo_close"} /\ l.proc[q].new = g
        BY <1>5, <1>8, <2>1, <2>4, <3>2 DEF FileInv
      <4> QED BY <1>8, <2>1, <2>2, <3>1, <3>2, <4>1 DEF FileInv
    <3>3. CASE ~k.file[g].open
      BY <1>1, <1>8, <2>1, <2>2, <3>1, <3>3 DEF FileInv
    <3> QED BY <3>2, <3>3
  <2> QED BY <2>3, <2>4
<1>11. \A t \in Tables : TabInv(l, p, h, t)
  <2> TAKE t \in Tables
  <2>1. TabInv(k, p, h, t)
    BY DEF Mid
  <2>2. Members(l, t) = Members(k, t)
    BY <1>4, <1>5, <1>8 DEF Members
  <2>3. \A q \in Procs : l.proc[q].p_fd = k.proc[q].p_fd /\ l.proc[q].call = k.proc[q].call
    BY <1>4, <1>5, <1>8
  <2>4. \A q \in Procs \ {p} : l.proc[q] = k.proc[q]
    BY <1>5, <1>8
  <2> QED BY <1>8, <2>1, <2>2, <2>3, <2>4 DEF TabInv
<1>12. \A q \in Procs \ {p} : Place(l, q)
  <2> TAKE q \in Procs \ {p}
  <2>1. Place(k, q) /\ l.proc[q] = k.proc[q] /\ k.proc[q].new \in Files \union {NULL}
    BY <1>1, <1>5, <1>8 DEF Mid, Proc
  <2>2. k.proc[q].new # f
    BY <1>9 DEF MakersBut
  <2> QED BY <1>6, <1>8, <2>1, <2>2 DEF Place
<1>13. \A q, s \in Procs \ {p} :
      l.proc[q].pc = "making" /\ l.proc[s].pc = "making" /\ l.proc[q].new = l.proc[s].new => q = s
  BY <1>5, <1>8 DEF Mid
<1>14. Mid(l, p, h, u, NULL, NULL)
  BY <1>8, <1>10, <1>11, <1>12, <1>13 DEF Mid
<1>15. InCall(l, p, h, u) /\ l.proc[p].new = NULL
  BY <1>4, <1>5, <1>8 DEF InCall
<1> QED BY <1>3, <1>14, <1>15, Finish

\* A change of counts and flags of files that p has the right to make.
LEMMA FilesChange ==
  ASSUME NEW k, NEW p \in Procs, NEW h \in BOOLEAN, NEW u, NEW x, NEW y, Mid(k, p, h, u, x, y),
         k.proc[p].p_fd \in Tables,
         NEW l \in Sys, l.tab = k.tab, l.proc = k.proc,
         \A g \in Files : l.file[g].f_usecount = k.file[g].f_usecount,
         \A g \in Files : k.file[g].f_iflags \subseteq l.file[g].f_iflags,
         NEW y2, \A g \in Files : FileInv(l, p, u, x, y2, g)
  PROVE  Mid(l, p, h, u, x, y2)
<1> DEFINE t == k.proc[p].p_fd
<1>1. TabInv(k, p, h, t)
  BY DEF Mid
<1>2. /\ l.tab[t].fd_lock = p <=> h
      /\ \A i \in Fds : l.tab[t].fd_ofiles[i] # NULL =>
           i \in l.tab[t].fd_map /\ i <= l.tab[t].fd_lastfile
  BY <1>1 DEF TabInv
<1>3. /\ t \in Tables /\ k.proc[p].p_fd = t
      /\ \A a \in Tables \ {t} : l.tab[a] = k.tab[a]
      /\ l.tab[t].fd_refcnt = k.tab[t].fd_refcnt /\ l.tab[t].fd_lock = k.tab[t].fd_lock
      /\ l.tab[t].fd_ofiles = k.tab[t].fd_ofiles
  OBVIOUS
<1> HIDE DEF t
<1>4. Keeps(k, l, p)
  BY DEF Mid, Sys, Proc, Keeps
<1> QED BY <1>2, <1>3, <1>4, Shift

\* closef of a file whose descriptor has been taken away.
LEMMA Closes ==
  ASSUME NEW k, NEW p \in Procs, NEW h \in BOOLEAN, NEW u, NEW f \in Files,
         Mid(k, p, h, u, f, f), InCall(k, p, h, u),
         k.proc[p].call # "exit" => h,
         k.proc[p].call = "exit" => k.proc[p].new = NULL
  PROVE  Rest(closef(k, p, f))
<1>1. /\ k \in Sys /\ k.proc \in [Procs -> Proc] /\ k.proc[p] \in Proc /\ k.file \in [Files -> File]
      /\ NULL \notin Tables /\ NULL \notin Files /\ NULL \notin Procs
      /\ k.proc[p].p_fd \in Tables
  BY DescrAssumption DEF Mid, Sys, InCall
<1>2. k.file[f].open /\ k.file[f].f_count > 0 /\ "WANTCLOSE" \notin k.file[f].f_iflags
  BY Used
<1> DEFINE fl == [k.file EXCEPT ![f].f_count = @ - 1]
           l  == [k EXCEPT !.file = fl]
<1>3. /\ fl \in [Files -> File] /\ \A g \in Files \ {f} : fl[g] = k.file[g]
      /\ fl[f].open /\ fl[f].f_count = k.file[f].f_count - 1
      /\ fl[f].f_usecount = k.file[f].f_usecount /\ fl[f].f_iflags = k.file[f].f_iflags
  BY <1>1, <1>2 DEF File
<1>4. closef(k, p, f) =
        IF l.file[f].f_count > 0 THEN AfterClosef(FRELE(l, f), p)
        ELSE ClosefWait([l EXCEPT !.file[f].f_iflags = @ \union {"WANTCLOSE"}], p, f)
  BY <1>2 DEF closef
<1> HIDE DEF fl
<1>5. l \in Sys /\ l.tab = k.tab /\ l.proc = k.proc /\ l.file = fl
  BY <1>1, <1>3, SetFile
<1> HIDE DEF l
<1>6. /\ \A g \in Files : FileInv(k, p, u, f, f, g)
      /\ k.file[f].f_count = Cardinality(SlotsIn(k.tab, f)) + 1
      /\ Cardinality(SlotsIn(k.tab, f)) \in Nat
      /\ fl[f].f_count = Cardinality(SlotsIn(k.tab, f)) + 0
  BY <1>2, <1>3, Counts DEF Mid, FileInv, One
<1>7. \A g \in Files : One(g = NULL) = 0 /\ (g # f => One(g = f) = 0)
  BY <1>1 DEF One
<1>8. CASE l.file[f].f_count > 0
  <2>1. \A g \in Files : FileInv(l, p, u, f, NULL, g)
    <3> TAKE g \in Files
    <3>1. FileInv(k, p, u, f, f, g)
      BY <1>6
    <3>2. UsersBut(l, p, g) = UsersBut(k, p, g) /\ MakersBut(l, p, g) = MakersBut(k, p, g)
      BY <1>5 DEF UsersBut, MakersBut
    <3>3. CASE g = f
      BY <1>2, <1>3, <1>5, <1>6, <1>7, <1>8, <3>1, <3>2, <3>3 DEF FileInv
    <3>4. CASE g # f
      BY <1>1, <1>3, <1>5, <1>7, <3>1, <3>2, <3>4 DEF FileInv
    <3> QED BY <3>3, <3>4
  <2>2. /\ \A g \in Files : l.file[g].f_usecount = k.file[g].f_usecount
        /\ \A g \in Files : k.file[g].f_iflags \subseteq l.file[g].f_iflags
    BY <1>3, <1>5
  <2>3. Mid(l, p, h, u, f, NULL)
    BY <1>1, <1>5, <2>1, <2>2, FilesChange
  <2>4. "WANTCLOSE" \notin l.file[f].f_iflags
    BY <1>2, <1>3, <1>5
  <2> DEFINE m == FRELE(l, f)
  <2>5. Mid(m, p, h, u, NULL, NULL)
    BY <2>3, <2>4, Drop
  <2>6. l.file[f].f_usecount > 0
    BY <2>3, Used
  <2>7. SameProc(l, m, p) /\ m.tab = l.tab /\ m.proc[p].wchan = l.proc[p].wchan
    BY <1>5, <2>4, <2>6, FRELEis
  <2> HIDE DEF m
  <2>8. InCall(m, p, h, u) /\ (m.proc[p].call = "exit" => m.proc[p].new = NULL)
    BY <1>5, <2>7 DEF InCall, SameProc
  <2>9. Rest(AfterClosef(m, p))
    BY <2>5, <2>8, Finish
  <2> QED BY <1>4, <1>8, <2>9 DEF m
<1>9. CASE ~(l.file[f].f_count > 0)
  <2> DEFINE fl2 == [l.file EXCEPT ![f].f_iflags = @ \union {"WANTCLOSE"}]
             m   == [l EXCEPT !.file = fl2]
  <2>1. [l EXCEPT !.file[f].f_iflags = @ \union {"WANTCLOSE"}] = m
    OBVIOUS
  <2>2. /\ fl2 \in [Files -> File] /\ \A g \in Files \ {f} : fl2[g] = fl[g]
        /\ fl2[f].open /\ fl2[f].f_count = fl[f].f_count
        /\ fl2[f].f_usecount = fl[f].f_usecount
        /\ fl2[f].f_iflags = fl[f].f_iflags \union {"WANTCLOSE"}
    BY <1>3, <1>5 DEF File
  <2> HIDE DEF fl2
  <2>3. m \in Sys /\ m.tab = k.tab /\ m.proc = k.proc /\ m.file = fl2
    BY <1>5, <2>2, SetFile
  <2> HIDE DEF m
  <2>4. fl2[f].f_count = 0
    BY <1>5, <1>6, <1>9, <2>2
  <2>5. \A g \in Files : FileInv(m, p, u, f, NULL, g)
    <3> TAKE g \in Files
    <3>1. FileInv(k, p, u, f, f, g)
      BY <1>6
    <3>2. UsersBut(m, p, g) = UsersBut(k, p, g) /\ MakersBut(m, p, g) = MakersBut(k, p, g)
      BY <2>3 DEF UsersBut, MakersBut
    <3>3. CASE g = f
      BY <1>2, <1>3, <1>6, <1>7, <2>2, <2>3, <2>4, <3>1, <3>2, <3>3 DEF FileInv
    <3>4. CASE g # f
      BY <1>1, <1>3, <1>7, <2>2, <2>3, <3>1, <3>2, <3>4 DEF FileInv
    <3> QED BY <3>3, <3>4
  <2>6. /\ \A g \in Files : m.file[g].f_usecount = k.file[g].f_usecount
        /\ \A g \in Files : k.file[g].f_iflags \subseteq m.file[g].f_iflags
    BY <1>3, <2>2, <2>3
  <2>7. Mid(m, p, h, u, f, NULL)
    BY <1>1, <2>3, <2>5, <2>6, FilesChange
  <2>8. InCall(m, p, h, u) /\ "WANTCLOSE" \in m.file[f].f_iflags /\ (m.proc[p].call # "exit" => h)
    BY <2>2, <2>3 DEF InCall
  <2>9. Rest(ClosefWait(m, p, f))
    BY <2>7, <2>8, Waits
  <2> QED BY <1>4, <1>9, <2>1, <2>9
<1> QED BY <1>8, <1>9

-----------------------------------------------------------------------------
\* The least and the greatest of a set of descriptors.
LEMMA HasMin ==
  ASSUME NEW S \in SUBSET Nat, S # {}
  PROVE  Min(S) \in S /\ \A y \in S : Min(S) <= y
<1> DEFINE R == {s \in Nat \X Nat : s[1] < s[2]}
<1>1. \A a, b \in Nat : a < b => <<a, b>> \in R
  OBVIOUS
<1>2. S \subseteq Nat
  OBVIOUS
<1>3. IsWellFoundedOn(R, Nat)
  <2>1. R = OpToRel(<, Nat)
    BY DEF OpToRel
  <2> QED BY <2>1, NatLessThanWellFounded, Zenon
<1> HIDE DEF R
<1>4. PICK x \in S : \A y \in S : ~ (<<y, x>> \in R)
  BY <1>2, <1>3, WFMin
<1>5. \A y \in S : x <= y
  <2>1. \A y \in S : ~(y < x)
    BY <1>1, <1>2, <1>4, Zenon
  <2> QED BY <1>2, <2>1
<1> QED BY <1>5 DEF Min

\* A bounded set of numbers has a greatest element.
LEMMA HasMax ==
  ASSUME NEW S \in SUBSET Nat, S # {}, NEW n \in Nat, \A y \in S : y <= n
  PROVE  Max(S) \in S /\ \A y \in S : Max(S) >= y
<1> DEFINE T == {m \in Nat : n - m \in S}
           a == Min(T)
<1>1. T # {} /\ T \in SUBSET Nat
  <2>1. PICK y \in S : TRUE
    OBVIOUS
  <2>2. n - y \in T
    BY <2>1
  <2> QED BY <2>2
<1>2. a \in T /\ \A y \in T : a <= y
  BY <1>1, HasMin
<1> HIDE DEF a
<1>3. n - a \in S /\ a \in Nat
  BY <1>2
<1>4. ASSUME NEW y \in S PROVE n - a >= y
  <2>1. y \in Nat /\ y <= n /\ n - y \in Nat /\ n - (n - y) = y
    OBVIOUS
  <2>2. n - y \in T
    BY <2>1
  <2> HIDE DEF T
  <2> QED BY <1>2, <1>3, <2>1, <2>2
<1> QED BY <1>3, <1>4 DEF Max

\* Every slot that is taken is in the bitmap and not above fd_lastfile.
Cover(r) == \A i \in Fds : r.fd_ofiles[i] # NULL => i \in r.fd_map /\ i <= r.fd_lastfile

\* fd_used enters one slot in the bitmap, and raises fd_lastfile to it.
LEMMA Uses ==
  ASSUME NEW r \in Tab, NEW i \in Fds,
         \A j \in Fds \ {i} : r.fd_ofiles[j] # NULL => j \in r.fd_map /\ j <= r.fd_lastfile
  PROVE  LET s == fd_used(r, i)
         IN /\ s \in Tab /\ Cover(s)
            /\ s.fd_ofiles = r.fd_ofiles /\ s.fd_lock = r.fd_lock /\ s.fd_refcnt = r.fd_refcnt
            /\ s.fd_freefile = r.fd_freefile /\ s.fd_map = r.fd_map \union {i}
            /\ s.fd_lastfile = IF i > r.fd_lastfile THEN i ELSE r.fd_lastfile
<1> DEFINE s == fd_used(r, i)
<1>1. /\ s \in Tab
      /\ s.fd_ofiles = r.fd_ofiles /\ s.fd_lock = r.fd_lock /\ s.fd_refcnt = r.fd_refcnt
      /\ s.fd_freefile = r.fd_freefile /\ s.fd_map = r.fd_map \union {i}
      /\ s.fd_lastfile = IF i > r.fd_lastfile THEN i ELSE r.fd_lastfile
  BY DEF fd_used, Tab
<1> HIDE DEF s
<1>2. Fds \subseteq Nat /\ r.fd_lastfile \in Nat
  BY DescrAssumption DEF Tab
<1>3. Cover(s)
  BY <1>1, <1>2 DEF Cover
<1> QED BY <1>1, <1>3 DEF s

\* find_last_set finds the highest slot in use below i, or 0.
LEMMA LastSet ==
  ASSUME NEW r \in Tab, NEW i \in Fds
  PROVE  LET last  == find_last_set(r, i)
             below == {j \in Fds : j < i /\ r.fd_ofiles[j] # NULL}
         IN /\ last \in Fds /\ \A j \in below : j <= last
            /\ last \in below \/ (last = 0 /\ below = {})
<1> DEFINE below == {j \in Fds : j < i /\ r.fd_ofiles[j] # NULL}
<1>1. Fds \subseteq Nat /\ 0 \in Fds
  BY DescrAssumption
<1>2. CASE below = {}
  <2>1. find_last_set(r, i) = 0
    BY <1>2 DEF find_last_set
  <2> QED BY <1>1, <1>2, <2>1
<1>3. CASE below # {}
  <2>1. find_last_set(r, i) = Max(below)
    BY <1>3 DEF find_last_set
  <2>2. below \in SUBSET Nat /\ i \in Nat /\ \A y \in below : y <= i
    BY <1>1
  <2>3. Max(below) \in below /\ \A y \in below : Max(below) >= y
    BY <1>3, <2>2, HasMax
  <2> DEFINE m == Max(below)
  <2>4. m \in below /\ \A y \in below : m >= y
    BY <2>3
  <2> HIDE DEF m
  <2>5. m \in Nat /\ m \in Fds /\ \A y \in below : y <= m
    BY <1>1, <2>2, <2>4
  <2> QED BY <2>1, <2>4, <2>5 DEF m
<1> QED BY <1>2, <1>3

\* fd_unused takes a slot out of the bitmap, and lowers the hints.
LEMMA Unuses ==
  ASSUME NEW r \in Tab, NEW i \in Fds, r.fd_ofiles[i] = NULL, Cover(r)
  PROVE  LET s == fd_unused(r, i)
         IN /\ s \in Tab /\ Cover(s)
            /\ s.fd_ofiles = r.fd_ofiles /\ s.fd_lock = r.fd_lock /\ s.fd_refcnt = r.fd_refcnt
            /\ s.fd_freefile = (IF i < r.fd_freefile THEN i ELSE r.fd_freefile)
            /\ s.fd_map = r.fd_map \ {i}
            /\ s.fd_lastfile = IF i = r.fd_lastfile THEN find_last_set(r, i) ELSE r.fd_lastfile
<1> DEFINE s == fd_unused(r, i)
           n == find_last_set(r, i)
<1>0. n \in Fds /\ \A j \in Fds : j < i /\ r.fd_ofiles[j] # NULL => j <= n
  BY LastSet
<1> HIDE DEF n
<1>1. /\ s \in Tab
      /\ s.fd_ofiles = r.fd_ofiles /\ s.fd_lock = r.fd_lock /\ s.fd_refcnt = r.fd_refcnt
      /\ s.fd_freefile = (IF i < r.fd_freefile THEN i ELSE r.fd_freefile)
      /\ s.fd_map = r.fd_map \ {i}
      /\ s.fd_lastfile = IF i = r.fd_lastfile THEN n ELSE r.fd_lastfile
  BY <1>0 DEF fd_unused, Tab, n
<1> HIDE DEF s
<1>2. Fds \subseteq Nat /\ r.fd_lastfile \in Nat
  BY DescrAssumption DEF Tab
<1>3. Cover(s)
  BY <1>0, <1>1, <1>2 DEF Cover
<1> QED BY <1>1, <1>3 DEF s, n

\* fdremove empties a slot.
LEMMA Removes ==
  ASSUME NEW r \in Tab, NEW i \in Fds, Cover(r)
  PROVE  LET s == fdremove(r, i)
         IN /\ s \in Tab /\ Cover(s) /\ s.fd_ofiles = [r.fd_ofiles EXCEPT ![i] = NULL]
            /\ s.fd_lock = r.fd_lock /\ s.fd_refcnt = r.fd_refcnt
            /\ s.fd_freefile = (IF i < r.fd_freefile THEN i ELSE r.fd_freefile)
            /\ s.fd_map = r.fd_map \ {i}
            /\ s.fd_lastfile = IF i = r.fd_lastfile
                               THEN find_last_set([r EXCEPT !.fd_ofiles[i] = NULL], i)
                               ELSE r.fd_lastfile
<1> DEFINE m == [r EXCEPT !.fd_ofiles[i] = NULL]
<1>1. /\ m \in Tab /\ m.fd_ofiles = [r.fd_ofiles EXCEPT ![i] = NULL]
      /\ m.fd_ofiles[i] = NULL
      /\ m.fd_lock = r.fd_lock /\ m.fd_refcnt = r.fd_refcnt
      /\ m.fd_freefile = r.fd_freefile /\ m.fd_map = r.fd_map /\ m.fd_lastfile = r.fd_lastfile
  BY DEF Tab
<1>2. fdremove(r, i) = fd_unused(m, i)
  BY DEF fdremove
<1>3. r.fd_ofiles \in [Fds -> Files \union {NULL}]
  BY DEF Tab
<1> HIDE DEF m
<1>4. Cover(m)
  BY <1>1, <1>3 DEF Cover
<1>5. LET s == fd_unused(m, i)
      IN /\ s \in Tab /\ Cover(s)
         /\ s.fd_ofiles = m.fd_ofiles /\ s.fd_lock = m.fd_lock /\ s.fd_refcnt = m.fd_refcnt
         /\ s.fd_freefile = (IF i < m.fd_freefile THEN i ELSE m.fd_freefile)
         /\ s.fd_map = m.fd_map \ {i}
         /\ s.fd_lastfile = IF i = m.fd_lastfile THEN find_last_set(m, i) ELSE m.fd_lastfile
  BY <1>1, <1>4, Unuses
<1> QED BY <1>1, <1>2, <1>5 DEF m

\* fdalloc finds the lowest candidate, a free slot, and enters it in the bitmap.
LEMMA Allocs ==
  ASSUME NEW r \in Tab, NEW want \in Fds, Cover(r), Candidates(r, want) # {}
  PROVE  LET s == fdalloc(r, want)
             i == Min(Candidates(r, want))
         IN /\ i \in Fds /\ i \notin r.fd_map /\ r.fd_ofiles[i] = NULL
            /\ i >= want /\ \A j \in Candidates(r, want) : i <= j
            /\ s \in Tab /\ Cover(s)
            /\ s.fd_ofiles = r.fd_ofiles /\ s.fd_lock = r.fd_lock /\ s.fd_refcnt = r.fd_refcnt
            /\ s.fd_freefile = (IF want <= r.fd_freefile THEN i ELSE r.fd_freefile)
            /\ s.fd_map = r.fd_map \union {i}
            /\ s.fd_lastfile = IF i > r.fd_lastfile THEN i ELSE r.fd_lastfile
<1> DEFINE S == Candidates(r, want)
           i == Min(S)
           m == [r EXCEPT !.fd_freefile = IF want <= @ THEN i ELSE @]
<1>1. S \in SUBSET Nat /\ S \subseteq Fds /\ \A j \in S : j \notin r.fd_map /\ j >= want
  BY DescrAssumption DEF Candidates
<1>2. i \in S /\ \A j \in S : i <= j
  BY <1>1, HasMin
<1>3. fdalloc(r, want) = fd_used(m, i)
  BY DEF fdalloc
<1> HIDE DEF i, S
<1>4. i \in Fds /\ i \notin r.fd_map /\ r.fd_ofiles[i] = NULL /\ i >= want
  BY <1>1, <1>2 DEF Cover
<1>5. /\ m \in Tab /\ m.fd_ofiles = r.fd_ofiles
      /\ m.fd_lock = r.fd_lock /\ m.fd_refcnt = r.fd_refcnt
      /\ m.fd_freefile = (IF want <= r.fd_freefile THEN i ELSE r.fd_freefile)
      /\ m.fd_map = r.fd_map /\ m.fd_lastfile = r.fd_lastfile
  BY <1>4 DEF Tab
<1> HIDE DEF m
<1>6. \A j \in Fds \ {i} : m.fd_ofiles[j] # NULL => j \in m.fd_map /\ j <= m.fd_lastfile
  BY <1>5 DEF Cover
<1>7. LET s == fd_used(m, i)
         IN /\ s \in Tab /\ Cover(s)
            /\ s.fd_ofiles = m.fd_ofiles /\ s.fd_lock = m.fd_lock /\ s.fd_refcnt = m.fd_refcnt
            /\ s.fd_freefile = m.fd_freefile /\ s.fd_map = m.fd_map \union {i}
            /\ s.fd_lastfile = IF i > m.fd_lastfile THEN i ELSE m.fd_lastfile
  BY <1>4, <1>5, <1>6, Uses
<1> QED BY <1>2, <1>3, <1>4, <1>5, <1>7 DEF i, S

-----------------------------------------------------------------------------
\* p notes where it is in its call.
LEMMA OwnRecord ==
  ASSUME NEW k, NEW p \in Procs, NEW h \in BOOLEAN, NEW u, NEW x, NEW y, Mid(k, p, h, u, x, y),
         NEW r, r.p_fd = k.proc[p].p_fd, r.call = "exit" <=> k.proc[p].call = "exit",
         NEW l \in Sys, Owns(k, l, p, r)
  PROVE  Mid(l, p, h, u, x, y)
<1>2. l.proc[p] = r /\ \A q \in Procs \ {p} : l.proc[q] = k.proc[q]
  BY DEF Owns
<1>4. l \in Sys /\ l.tab = k.tab /\ l.file = k.file
  BY DEF Owns
<1>5. \A f \in Files : FileInv(l, p, u, x, y, f)
  <2> TAKE f \in Files
  <2>1. FileInv(k, p, u, x, y, f)
    BY DEF Mid
  <2>2. UsersBut(l, p, f) = UsersBut(k, p, f) /\ MakersBut(l, p, f) = MakersBut(k, p, f)
    BY <1>2, <1>4 DEF UsersBut, MakersBut
  <2>3. \A q \in Procs \ {p} : l.proc[q] = k.proc[q]
    BY <1>2, <1>4
  <2> QED BY <1>4, <2>1, <2>2, <2>3 DEF FileInv
<1>6. \A t \in Tables : TabInv(l, p, h, t)
  <2> TAKE t \in Tables
  <2>1. TabInv(k, p, h, t)
    BY DEF Mid
  <2>2. \A q \in Procs : /\ l.proc[q].p_fd = k.proc[q].p_fd
                         /\ l.proc[q].call = "exit" <=> k.proc[q].call = "exit"
    BY <1>2, <1>4
  <2>3. Members(l, t) = Members(k, t)
    BY <2>2 DEF Members
  <2>4. \A q \in Procs \ {p} : l.proc[q] = k.proc[q]
    BY <1>2, <1>4
  <2> QED BY <1>4, <2>1, <2>2, <2>3, <2>4 DEF TabInv
<1>7. \A q \in Procs \ {p} : Place(l, q)
  <2> TAKE q \in Procs \ {p}
  <2>1. Place(k, q) /\ l.proc[q] = k.proc[q]
    BY <1>2, <1>4 DEF Mid
  <2> QED BY <1>4, <2>1 DEF Place
<1>8. \A q, s \in Procs \ {p} :
        l.proc[q].pc = "making" /\ l.proc[s].pc = "making" /\ l.proc[q].new = l.proc[s].new => q = s
  BY <1>2, <1>4 DEF Mid
<1> QED BY <1>4, <1>5, <1>6, <1>7, <1>8 DEF Mid

\* A descriptor leads to an open file that is not being closed.
LEMMA SlotOpen ==
  ASSUME NEW k, NEW p, NEW h, NEW u, NEW x, NEW y, Mid(k, p, h, u, x, y),
         NEW t \in Tables, NEW i \in Fds, k.tab[t].fd_ofiles[i] # NULL
  PROVE  LET f == k.tab[t].fd_ofiles[i]
         IN f \in Files /\ k.file[f].open /\ k.file[f].f_count > 0
            /\ "WANTCLOSE" \notin k.file[f].f_iflags
<1> DEFINE f == k.tab[t].fd_ofiles[i]
<1>1. k \in Sys /\ k.tab[t] \in Tab
  BY DEF Mid, Sys
<1>2. f \in Files
  BY <1>1 DEF Tab
<1>3. <<t, i>> \in SlotsIn(k.tab, f)
  BY DEF SlotsIn
<1> HIDE DEF f
<1>4. FileInv(k, p, u, x, y, f)
  BY <1>2 DEF Mid
<1>5. IsFiniteSet(SlotsIn(k.tab, f)) /\ Cardinality(SlotsIn(k.tab, f)) \in Nat
  BY Counts
<1>6. Cardinality(SlotsIn(k.tab, f)) # 0
  BY <1>3, <1>5, FS_EmptySet
<1>7. k.file[f].open /\ k.file[f].f_count > 0 /\ "WANTCLOSE" \notin k.file[f].f_iflags
  BY <1>3, <1>4, <1>5, <1>6 DEF FileInv, One
<1> QED BY <1>2, <1>7 DEF f

\* The descriptors of f, when a slot with file old gets file g.
Moved(k, l, y, y2, old, g, f) ==
  /\ l.file[f].open = k.file[f].open /\ l.file[f].f_iflags = k.file[f].f_iflags
  /\ l.file[f].f_usecount = k.file[f].f_usecount
  /\ k.file[f].open =>
       /\ l.file[f].f_count + One(f = y) + One(old = f) = k.file[f].f_count + One(g = f) + One(f = y2)
       /\ l.file[f].f_count = 0 <=> k.file[f].f_count = 0
  /\ ~k.file[f].open => f # g /\ f # y2

\* Table r is table s with file g in slot i.
Replaces(r, s, i, g) ==
  /\ r \in Tab /\ Cover(r) /\ r.fd_ofiles = [s.fd_ofiles EXCEPT ![i] = g]
  /\ r.fd_lock = s.fd_lock /\ r.fd_refcnt = s.fd_refcnt

\* One slot of the table of p changes, and the number of descriptors of a file
\* with it.
LEMMA SlotChange ==
  ASSUME NEW k, NEW p \in Procs, NEW h \in BOOLEAN, NEW u, NEW x, NEW y, Mid(k, p, h, u, x, y),
         NEW t \in Tables, k.proc[p].p_fd = t, h \/ k.proc[p].call = "exit",
         NEW r, NEW i \in Fds, NEW g \in Files \union {NULL}, Replaces(r, k.tab[t], i, g),
         NEW l \in Sys, l.proc = k.proc, l.tab[t] = r,
         \A a \in Tables \ {t} : l.tab[a] = k.tab[a],
         NEW y2, NEW old, old = k.tab[t].fd_ofiles[i],
         \A f \in Files : Moved(k, l, y, y2, old, g, f)
  PROVE  Mid(l, p, h, u, x, y2)
<1>0. /\ t \in Tables /\ i \in Fds /\ g \in Files \union {NULL} /\ r \in Tab
      /\ r.fd_ofiles = [k.tab[t].fd_ofiles EXCEPT ![i] = g]
      /\ old = k.tab[t].fd_ofiles[i]
      /\ Cover(r) /\ r.fd_lock = k.tab[t].fd_lock /\ r.fd_refcnt = k.tab[t].fd_refcnt
  BY DEF Replaces
<1>1. /\ k \in Sys /\ k.tab \in [Tables -> Tab]
      /\ k.file \in [Files -> File] /\ l.file \in [Files -> File]
      /\ \A a \in Tables \ {t} : l.tab[a] = k.tab[a]
      /\ l.tab[t] = r
  BY DEF Mid, Sys
<1>2. \A f \in Files : FileInv(l, p, u, x, y2, f)
  <2> TAKE f \in Files
  <2>1. FileInv(k, p, u, x, y, f) /\ Moved(k, l, y, y2, old, g, f)
    BY DEF Mid
  <2>2. UsersBut(l, p, f) = UsersBut(k, p, f) /\ MakersBut(l, p, f) = MakersBut(k, p, f)
    BY DEF UsersBut, MakersBut
  <2> DEFINE n == Cardinality(SlotsIn(k.tab, f))
             m == Cardinality(SlotsIn(l.tab, f))
  <2>3. n \in Nat /\ m \in Nat /\ m + One(old = f) = n + One(g = f)
    <3>1. OneSlot(k.tab, l.tab, t, i, g)
      <4>1. k.tab[t].fd_ofiles \in [Fds -> Files \union {NULL}]
        BY <1>1 DEF Tab
      <4> QED BY <1>0, <1>1, <4>1 DEF OneSlot
    <3> QED BY ONLY <1>0, <3>1, SlotsChange
  <2>4. CASE k.file[f].open
    <3>1. k.file[f].f_count = n + One(f = y) /\ k.file[f].f_count \in Nat /\ l.file[f].f_count \in Nat
      BY <1>1, <2>1, <2>4 DEF FileInv, File
    <3>2. /\ l.file[f].f_count + One(f = y) + One(old = f) = k.file[f].f_count + One(g = f) + One(f = y2)
          /\ l.file[f].f_count = 0 <=> k.file[f].f_count = 0
      BY <2>1, <2>4 DEF Moved
    <3> HIDE DEF n, m
    <3>3. /\ One(f = y) \in Int /\ One(old = f) \in Int /\ One(g = f) \in Int /\ One(f = y2) \in Int
      BY DEF One
    <3>4. l.file[f].f_count = m + One(f = y2)
      BY <2>3, <3>1, <3>2, <3>3
    <3>5. "WANTCLOSE" \in l.file[f].f_iflags <=> l.file[f].f_count = 0
      BY <2>1, <2>4, <3>2 DEF FileInv, Moved
    <3> QED BY <2>1, <2>2, <2>4, <3>4, <3>5 DEF FileInv, Moved, m
  <2>5. CASE ~k.file[f].open
    <3>1. SlotsIn(k.tab, f) = {} /\ f # g /\ f # y2
      BY <2>1, <2>5 DEF FileInv, Moved
    <3>2. SlotsIn(l.tab, f) = {}
      <4>1. \A a \in Tables, j \in Fds : k.tab[a].fd_ofiles[j] # f
        BY ONLY <3>1, NoSlots
      <4>2. k.tab[t].fd_ofiles \in [Fds -> Files \union {NULL}]
        BY <1>1 DEF Tab
      <4>3. \A a \in Tables, j \in Fds : l.tab[a].fd_ofiles[j] # f
        BY <1>0, <1>1, <3>1, <4>1, <4>2
      <4> QED BY ONLY <4>3, NoSlots
    <3> QED BY <2>1, <2>2, <2>5, <3>1, <3>2 DEF FileInv, Moved
  <2> QED BY <2>4, <2>5
<1>3. TabInv(k, p, h, t)
  BY <1>1 DEF Mid
<1>4. /\ l.tab[t].fd_refcnt = k.tab[t].fd_refcnt /\ l.tab[t].fd_lock = k.tab[t].fd_lock
      /\ l.tab[t].fd_lock = p <=> h
      /\ \A j \in Fds : l.tab[t].fd_ofiles[j] # NULL =>
           j \in l.tab[t].fd_map /\ j <= l.tab[t].fd_lastfile
      /\ k.tab[t].fd_lock = p \/ k.proc[p].call = "exit"
  BY <1>0, <1>1, <1>3 DEF TabInv, Cover
<1>5. /\ \A a \in Tables \ {t} : l.tab[a] = k.tab[a]
      /\ Keeps(k, l, p)
  BY <1>1 DEF Moved, Sys, Proc, Keeps
<1>6. /\ p \in Procs /\ Mid(k, p, h, u, x, y) /\ l \in Sys /\ k.proc[p].p_fd = t
      /\ l.proc = k.proc /\ h \in BOOLEAN /\ t \in Tables
  OBVIOUS
<1> QED BY ONLY <1>2, <1>4, <1>5, <1>6, Shift

-----------------------------------------------------------------------------
\* The end of dup without a duplicate, or with one.
LEMMA DropReturns ==
  ASSUME NEW k, NEW p \in Procs, NEW h \in BOOLEAN, NEW f \in Files, Mid(k, p, h, f, NULL, NULL),
         k.proc[p].p_fd \in Tables, k.proc[p].call # "exit",
         h \/ k.tab[k.proc[p].p_fd].fd_lock = NULL
  PROVE  Rest(Return(fdpunlock(FRELE(k, f), p), p))
<1> DEFINE l == FRELE(k, f)
           m == fdpunlock(l, p)
<1>1. Mid(l, p, h, NULL, NULL, NULL)
  BY Drop
<1>2. k \in Sys /\ k.file[f].f_usecount > 0
  BY Used
<1>3. SameProc(k, l, p) /\ l.tab = k.tab
  BY <1>2, FRELEis
<1>4. l.proc[p].p_fd \in Tables /\ l.proc[p].call # "exit"
      /\ (h \/ l.tab[l.proc[p].p_fd].fd_lock = NULL)
  BY <1>3 DEF SameProc
<1> HIDE DEF l
<1>5. Mid(m, p, FALSE, NULL, NULL, NULL) /\ m.proc = l.proc
  BY <1>1, <1>4, Unlock
<1> HIDE DEF m
<1>6. Rest(Return(m, p))
  BY <1>4, <1>5, Returned
<1> QED BY <1>6 DEF l, m

\* FRELE has nothing to do with the tables.
LEMMA FRELEtab ==
  ASSUME NEW k \in Sys, NEW f \in Files, k.file[f].f_usecount > 0, NEW t \in Tables, NEW r \in Tab
  PROVE  [FRELE(k, f) EXCEPT !.tab[t] = r] = FRELE([k EXCEPT !.tab[t] = r], f)
<1> DEFINE fl == [k.file EXCEPT ![f].f_usecount = @ - 1]
           pr == IF "WANTCLOSE" \notin k.file[f].f_iflags THEN k.proc
                 ELSE [q \in Procs |-> [k.proc[q] EXCEPT !.wchan = IF @ = f THEN NULL ELSE @]]
           tb == [k.tab EXCEPT ![t] = r]
           m  == [k EXCEPT !.tab[t] = r]
           a  == FRELE(k, f)
           b  == FRELE(m, f)
<1>1. k = [tab |-> k.tab, file |-> k.file, proc |-> k.proc]
  BY DEF Sys
<1>2. m = [tab |-> tb, file |-> k.file, proc |-> k.proc]
  <2>1. m = [k EXCEPT !.tab = tb]
    OBVIOUS
  <2> HIDE DEF m, tb
  <2> QED BY <1>1, <2>1
<1>3. a = [tab |-> k.tab, file |-> fl, proc |-> pr]
  <2>1. a = [[k EXCEPT !.file = fl] EXCEPT !.proc = pr]
    BY DEF FRELE
  <2> HIDE DEF fl, pr, a
  <2> QED BY <1>1, <2>1
<1>4. b = [tab |-> tb, file |-> fl, proc |-> pr]
  <2> DEFINE fl2 == [m.file EXCEPT ![f].f_usecount = @ - 1]
             pr2 == IF "WANTCLOSE" \notin m.file[f].f_iflags THEN m.proc
                    ELSE [q \in Procs |-> [m.proc[q] EXCEPT !.wchan = IF @ = f THEN NULL ELSE @]]
  <2>1. b = [[m EXCEPT !.file = fl2] EXCEPT !.proc = pr2]
    BY DEF FRELE
  <2>2. fl2 = fl /\ pr2 = pr
    <3>1. m.file = k.file /\ m.proc = k.proc
      BY <1>2
    <3> HIDE DEF m
    <3> QED BY <3>1
  <2> HIDE DEF fl, pr, fl2, pr2, m, b, tb
  <2> QED BY <1>2, <2>1, <2>2
<1>5. [a EXCEPT !.tab[t] = r] = [a EXCEPT !.tab = [a.tab EXCEPT ![t] = r]]
  OBVIOUS
<1> HIDE DEF fl, pr, a, b
<1>6. a.tab = k.tab
  BY <1>3
<1>7. [a EXCEPT !.tab[t] = r] = [a EXCEPT !.tab = tb]
  BY <1>5, <1>6
<1> HIDE DEF tb
<1>8. [a EXCEPT !.tab[t] = r] = b
  BY <1>3, <1>4, <1>7
<1> QED BY <1>8 DEF a, b, m

\* p, whose table is t, duplicates f, which is not being closed.
Dupping(k, p, t, f) ==
  /\ k.proc[p].p_fd = t /\ k.proc[p].call \in {"dup", "dup2"} /\ k.file[f].f_count > 0

\* Table r, and one more descriptor of file f counted.
OneMore(k, t, r, f) ==
  [[k EXCEPT !.tab = [k.tab EXCEPT ![t] = r]]
     EXCEPT !.file = [k.file EXCEPT ![f].f_count = @ + 1]]

\* A slot of the table of p gets file f, which is not being closed.
LEMMA OneMoreMid ==
  ASSUME NEW k, NEW p \in Procs, NEW u, NEW x, Mid(k, p, TRUE, u, x, NULL),
         NEW t \in Tables, k.proc[p].p_fd = t,
         NEW f \in Files, k.file[f].open, k.file[f].f_count > 0,
         NEW i \in Fds, NEW r, Replaces(r, k.tab[t], i, f),
         NEW y2, y2 = k.tab[t].fd_ofiles[i]
  PROVE  Mid(OneMore(k, t, r, f), p, TRUE, u, x, y2)
<1>3. PICK n : n = OneMore(k, t, r, f)
  OBVIOUS
<1> DEFINE tb == [k.tab EXCEPT ![t] = r]
           fl == [k.file EXCEPT ![f].f_count = @ + 1]
           m  == [k EXCEPT !.tab = tb]
<1>0. /\ k \in Sys /\ k.tab \in [Tables -> Tab] /\ k.file \in [Files -> File]
      /\ NULL \notin Files
  BY DescrAssumption DEF Mid, Sys
<1>1. /\ tb \in [Tables -> Tab] /\ tb[t] = r /\ \A a \in Tables \ {t} : tb[a] = k.tab[a]
  BY <1>0 DEF Replaces
<1>2. /\ fl \in [Files -> File]
      /\ \A g \in Files : /\ fl[g].open = k.file[g].open /\ fl[g].f_iflags = k.file[g].f_iflags
                          /\ fl[g].f_usecount = k.file[g].f_usecount
                          /\ fl[g].f_count = k.file[g].f_count + One(f = g)
  BY <1>0 DEF File, One
<1>5. n = [m EXCEPT !.file = fl]
  BY <1>3 DEF OneMore
<1> HIDE DEF tb, fl
<1>6. m \in Sys /\ m.file = k.file /\ m.proc = k.proc /\ m.tab = tb
  BY <1>0, <1>1, SetTab
<1> HIDE DEF m
<1>7. n \in Sys /\ n.file = fl /\ n.proc = k.proc /\ n.tab = tb
  BY ONLY <1>2, <1>5, <1>6, SetFile
<1>8. \A g \in Files : Moved(k, n, NULL, y2, y2, f, g)
  <2> TAKE g \in Files
  <2>1. k.file[g].f_count \in Nat
    BY <1>0 DEF File
  <2>2. /\ n.file[g].open = k.file[g].open /\ n.file[g].f_iflags = k.file[g].f_iflags
        /\ n.file[g].f_usecount = k.file[g].f_usecount
        /\ n.file[g].f_count = k.file[g].f_count + One(f = g)
    BY <1>2, <1>7
  <2>3. One(g = NULL) = 0 /\ One(y2 = g) = One(g = y2) /\ One(f = g) \in Nat /\ One(g = y2) \in Nat
    BY <1>0 DEF One
  <2>4. n.file[g].f_count + One(g = NULL) + One(y2 = g) = k.file[g].f_count + One(f = g) + One(g = y2)
    BY <2>1, <2>2, <2>3
  <2>5. n.file[g].f_count = 0 <=> k.file[g].f_count = 0
    BY <2>1, <2>2 DEF One
  <2>6. ~k.file[g].open => g # f /\ g # y2
    <3>2. y2 # NULL => y2 \in Files /\ k.file[y2].open
      BY SlotOpen
    <3> QED BY <1>0, <3>2
  <2> QED BY <2>2, <2>4, <2>5, <2>6 DEF Moved
<1>9. Mid(n, p, TRUE, u, x, y2)
  <2>1. /\ n.proc = k.proc /\ n.tab[t] = r /\ n \in Sys
        /\ \A a \in Tables \ {t} : n.tab[a] = k.tab[a]
        /\ f \in Files \union {NULL} /\ TRUE \in BOOLEAN
        /\ p \in Procs /\ t \in Tables /\ k.proc[p].p_fd = t /\ i \in Fds /\ Replaces(r, k.tab[t], i, f)
        /\ y2 = k.tab[t].fd_ofiles[i] /\ Mid(k, p, TRUE, u, x, NULL)
    BY <1>1, <1>7
  <2> QED BY ONLY <1>8, <2>1, SlotChange
<1> QED BY <1>3, <1>9

\* The processes stay.
LEMMA OneMoreProc ==
  ASSUME NEW k \in Sys, NEW t, NEW r, NEW f
  PROVE  OneMore(k, t, r, f).proc = k.proc
BY DEF OneMore, Sys

Install(k, p, t, r, f) ==
  [OneMore(k, t, r, f) EXCEPT !.proc = [k.proc EXCEPT ![p].fp = NULL]]

\* A table of k replaced, a descriptor of f counted, and p no longer with a file.
LEMMA Installs ==
  ASSUME NEW k, NEW p \in Procs, NEW f \in Files, NEW x, NEW y2, Mid(k, p, TRUE, f, x, NULL),
         NEW t \in Tables, Dupping(k, p, t, f),
         NEW i \in Fds, NEW r, Replaces(r, k.tab[t], i, f),
         y2 = k.tab[t].fd_ofiles[i],
         NEW l, l = Install(k, p, t, r, f)
  PROVE  Mid(l, p, TRUE, f, x, y2)
<1>0. k \in Sys /\ k.proc[p] \in Proc /\ k.file[f].open
  BY Used DEF Mid, Sys
<1>1. k.proc[p].p_fd = t /\ k.proc[p].call \in {"dup", "dup2"} /\ k.file[f].f_count > 0
  BY DEF Dupping
<1>2. PICK n : n = OneMore(k, t, r, f)
  OBVIOUS
<1>3. PICK s : s = [k.proc[p] EXCEPT !.fp = NULL]
  OBVIOUS
<1>4. /\ s \in Proc /\ s.p_fd = t /\ s.call = k.proc[p].call /\ s.fp = NULL
  BY <1>0, <1>1, <1>3 DEF Proc
<1>5. l = [n EXCEPT !.proc = [k.proc EXCEPT ![p] = s]]
  BY <1>2, <1>3 DEF Install
<1>6. Mid(n, p, TRUE, f, x, y2)
  <2>1. /\ p \in Procs /\ Mid(k, p, TRUE, f, x, NULL) /\ t \in Tables /\ f \in Files
        /\ i \in Fds /\ Replaces(r, k.tab[t], i, f) /\ y2 = k.tab[t].fd_ofiles[i]
    OBVIOUS
  <2> QED BY ONLY <1>0, <1>1, <1>2, <2>1, OneMoreMid
<1>7. n \in Sys /\ n.proc = k.proc
  BY <1>0, <1>2, <1>6, OneMoreProc DEF Mid
<1>8. /\ s.p_fd = n.proc[p].p_fd /\ (s.call = "exit" <=> n.proc[p].call = "exit")
  BY <1>1, <1>4, <1>7
<1>9. l \in Sys /\ Owns(n, l, p, s)
  <2>1. l = [n EXCEPT !.proc = [n.proc EXCEPT ![p] = s]]
    BY <1>5, <1>7
  <2> QED BY ONLY p \in Procs, <1>4, <1>7, <2>1, SetOwn
<1>10. Mid(l, p, TRUE, f, x, y2)
  BY ONLY p \in Procs, TRUE \in BOOLEAN, <1>4, <1>6, <1>8, <1>9, OwnRecord
<1> QED BY <1>10

\* The process stays in its call and its table.
LEMMA InstallsProc ==
  ASSUME NEW k \in Sys, NEW p \in Procs, NEW f, NEW t, NEW r, NEW l, l = Install(k, p, t, r, f)
  PROVE  /\ l.proc[p].p_fd = k.proc[p].p_fd /\ l.proc[p].call = k.proc[p].call
         /\ l.proc[p].fp = NULL
BY DEF Install, OneMore, Sys, Proc

\* A slot filled in.
Fill(r, i, g) == [r EXCEPT !.fd_ofiles[i] = g]

\* What changes with it.
LEMMA Fills ==
  ASSUME NEW r \in Tab, NEW i \in Fds, NEW g \in Files \union {NULL},
         NEW w, w = Fill(r, i, g)
  PROVE  /\ w \in Tab /\ w.fd_ofiles = [r.fd_ofiles EXCEPT ![i] = g]
         /\ w.fd_lock = r.fd_lock /\ w.fd_refcnt = r.fd_refcnt /\ w.fd_freefile = r.fd_freefile
         /\ w.fd_map = r.fd_map /\ w.fd_lastfile = r.fd_lastfile
         /\ w.fd_ofiles[i] = g /\ \A j \in Fds \ {i} : w.fd_ofiles[j] = r.fd_ofiles[j]
BY DEF Tab, Fill

\* In the middle of a call the bitmap and fd_lastfile take in every slot in use.
LEMMA TableCover ==
  ASSUME NEW k, NEW p, NEW h, NEW u, NEW x, NEW y, Mid(k, p, h, u, x, y), NEW t \in Tables
  PROVE  k.tab[t] \in Tab /\ Cover(k.tab[t]) /\ k.tab \in [Tables -> Tab]
BY DEF Mid, Sys, TabInv, Cover

\* finishdup into a free slot, with the table's lock, a reference to f, and f
\* not being closed.
LEMMA DupsFree ==
  ASSUME NEW k, NEW p \in Procs, NEW f \in Files, Mid(k, p, TRUE, f, NULL, NULL),
         NEW t \in Tables, k.proc[p].p_fd = t, k.proc[p].call \in {"dup", "dup2"},
         k.file[f].f_count > 0, NEW new \in Fds,
         k.file[f].f_count # MaxCount, k.tab[t].fd_ofiles[new] = NULL
  PROVE  Rest(finishdup(k, p, f, new))
<1>1. k \in Sys /\ NULL \notin Files /\ TRUE \in BOOLEAN /\ k.proc[p].call # "exit"
  BY DescrAssumption DEF Mid
<1>2. k.tab[t] \in Tab /\ Cover(k.tab[t]) /\ k.tab \in [Tables -> Tab]
  BY TableCover
<1>3. PICK w : w = Fill(k.tab[t], new, f)
  OBVIOUS
<1>4. PICK r : r = fd_used(w, new)
  OBVIOUS
<1>5. /\ w \in Tab /\ w.fd_ofiles = [k.tab[t].fd_ofiles EXCEPT ![new] = f]
      /\ w.fd_lock = k.tab[t].fd_lock /\ w.fd_refcnt = k.tab[t].fd_refcnt
      /\ w.fd_map = k.tab[t].fd_map /\ w.fd_lastfile = k.tab[t].fd_lastfile
      /\ \A j \in Fds \ {new} : w.fd_ofiles[j] = k.tab[t].fd_ofiles[j]
  BY <1>2, <1>3, Fills
<1>6. \A j \in Fds \ {new} : w.fd_ofiles[j] # NULL => j \in w.fd_map /\ j <= w.fd_lastfile
  BY <1>2, <1>5 DEF Cover
<1>7. r \in Tab /\ Replaces(r, k.tab[t], new, f)
  <2>1. /\ r \in Tab /\ Cover(r) /\ r.fd_ofiles = w.fd_ofiles
        /\ r.fd_lock = w.fd_lock /\ r.fd_refcnt = w.fd_refcnt
    BY <1>4, <1>5, <1>6, Uses
  <2> QED BY <1>5, <2>1 DEF Replaces
<1>8. PICK tw : tw = [k.tab EXCEPT ![t] = w]
  OBVIOUS
<1>9. PICK tr : tr = [k.tab EXCEPT ![t] = r]
  OBVIOUS
<1>10. PICK fl : fl = [k.file EXCEPT ![f].f_count = @ + 1]
  OBVIOUS
<1>11. PICK pr : pr = [k.proc EXCEPT ![p].fp = NULL]
  OBVIOUS
<1>12. /\ tw \in [Tables -> Tab] /\ tr \in [Tables -> Tab] /\ tw[t] = w
       /\ tr = [tw EXCEPT ![t] = r]
  BY <1>2, <1>5, <1>7, <1>8, <1>9
<1>13. fl \in [Files -> File] /\ fl[f].f_usecount = k.file[f].f_usecount
  BY <1>1, <1>10 DEF Sys, File
<1>14. pr \in [Procs -> Proc]
  BY <1>1, <1>11 DEF Sys, Proc
<1>15. PICK a : a = [[[k EXCEPT !.tab = tw] EXCEPT !.file = fl] EXCEPT !.proc = pr]
  OBVIOUS
<1>16. PICK l : l = [[[k EXCEPT !.tab = tr] EXCEPT !.file = fl] EXCEPT !.proc = pr]
  OBVIOUS
<1>17. a \in Sys /\ a = [tab |-> tw, file |-> fl, proc |-> pr]
  BY ONLY <1>1, <1>12, <1>13, <1>14, <1>15 DEF Sys
<1>18. l \in Sys /\ l = [tab |-> tr, file |-> fl, proc |-> pr]
  BY ONLY <1>1, <1>12, <1>13, <1>14, <1>16 DEF Sys
<1>19. a.file[f].f_usecount > 0 /\ a.tab = tw
  <2>1. k.file[f].f_usecount > 0
    BY Used
  <2> QED BY <1>13, <1>17, <2>1
<1>20. l = [a EXCEPT !.tab[t] = r]
  <2>1. [a EXCEPT !.tab[t] = r] = [a EXCEPT !.tab = [a.tab EXCEPT ![t] = r]]
    OBVIOUS
  <2>2. [a EXCEPT !.tab[t] = r] = [a EXCEPT !.tab = tr]
    BY <1>12, <1>19, <2>1
  <2> QED BY ONLY <1>17, <1>18, <2>2
<1>21. finishdup(k, p, f, new) =
         Return(fdpunlock([FRELE(a, f) EXCEPT !.tab[t] = fd_used(@, new)], p), p)
  <2>1. a = [k EXCEPT !.tab[t].fd_ofiles[new] = f, !.file[f].f_count = @ + 1,
                            !.proc[p].fp = NULL]
    BY ONLY <1>3, <1>8, <1>10, <1>11, <1>15 DEF Fill
  <2>2. finishdup(k, p, f, new) =
          Return(fdpunlock([FRELE([k EXCEPT !.tab[t].fd_ofiles[new] = f, !.file[f].f_count = @ + 1,
                            !.proc[p].fp = NULL], f) EXCEPT !.tab[t] = fd_used(@, new)], p), p)
    BY DEF finishdup
  <2> QED BY ONLY <2>1, <2>2
<1>22. [FRELE(a, f) EXCEPT !.tab[t] = fd_used(@, new)] = FRELE(l, f)
  <2>1. PICK b : b = FRELE(a, f)
    OBVIOUS
  <2>2. b.tab = a.tab
    BY <1>17, <1>19, <2>1, FRELEis
  <2>3. fd_used(b.tab[t], new) = r
    BY <1>4, <1>12, <1>19, <2>2
  <2>4. [b EXCEPT !.tab[t] = fd_used(@, new)] = [b EXCEPT !.tab[t] = fd_used(b.tab[t], new)]
    OBVIOUS
  <2>5. [b EXCEPT !.tab[t] = r] = FRELE([a EXCEPT !.tab[t] = r], f)
    BY <1>7, <1>17, <1>19, <2>1, FRELEtab
  <2>6. [b EXCEPT !.tab[t] = r] = FRELE(l, f)
    BY ONLY <1>20, <2>5
  <2> QED BY ONLY <2>1, <2>3, <2>4, <2>6
<1>23. Mid(l, p, TRUE, f, NULL, NULL) /\ l.proc[p].p_fd = t /\ l.proc[p].call = k.proc[p].call
  <2>1. l = Install(k, p, t, r, f)
    BY ONLY <1>9, <1>10, <1>11, <1>16 DEF Install, OneMore
  <2>2. /\ p \in Procs /\ f \in Files /\ t \in Tables /\ Mid(k, p, TRUE, f, NULL, NULL)
        /\ Dupping(k, p, t, f) /\ new \in Fds /\ NULL = k.tab[t].fd_ofiles[new]
    BY DEF Dupping
  <2>3. Mid(l, p, TRUE, f, NULL, NULL)
    BY ONLY <1>7, <2>1, <2>2, Installs
  <2>4. l.proc[p].p_fd = k.proc[p].p_fd /\ l.proc[p].call = k.proc[p].call
    BY <1>1, <2>1, InstallsProc
  <2> QED BY <2>3, <2>4
<1>24. Rest(Return(fdpunlock(FRELE(l, f), p), p))
  BY <1>1, <1>23, DropReturns
<1> QED BY ONLY <1>21, <1>22, <1>24

\* finishdup over an open descriptor, which is closed.
LEMMA DupsOver ==
  ASSUME NEW k, NEW p \in Procs, NEW f \in Files, Mid(k, p, TRUE, f, NULL, NULL),
         NEW t \in Tables, Dupping(k, p, t, f), NEW new \in Fds,
         k.file[f].f_count # MaxCount, k.tab[t].fd_ofiles[new] # NULL
  PROVE  Rest(finishdup(k, p, f, new))
<1>0. PICK old : old = k.tab[t].fd_ofiles[new]
  OBVIOUS
<1>1. /\ k \in Sys /\ NULL \notin Files /\ TRUE \in BOOLEAN /\ k.proc[p].call # "exit"
      /\ k.proc[p].p_fd = t
  BY DescrAssumption DEF Mid, Dupping
<1>2. k.tab[t] \in Tab /\ Cover(k.tab[t]) /\ k.tab \in [Tables -> Tab]
  BY TableCover
<1>3. old \in Files /\ k.file[old].open /\ old # NULL /\ "WANTCLOSE" \notin k.file[old].f_iflags
  BY <1>0, SlotOpen
<1>4. PICK m : m = FREF(k, old)
  OBVIOUS
<1>5. Mid(m, p, TRUE, f, old, NULL)
  BY <1>3, <1>4, Hold
<1>6. m \in Sys /\ m.tab = k.tab /\ m.proc = k.proc /\ SameFile(k, m, f)
  BY <1>1, <1>3, <1>4, FREFis
<1>7. PICK w : w = Fill(k.tab[t], new, f)
  OBVIOUS
<1>8. /\ w \in Tab /\ w.fd_ofiles = [k.tab[t].fd_ofiles EXCEPT ![new] = f]
      /\ w.fd_lock = k.tab[t].fd_lock /\ w.fd_refcnt = k.tab[t].fd_refcnt
      /\ w.fd_map = k.tab[t].fd_map /\ w.fd_lastfile = k.tab[t].fd_lastfile
      /\ \A j \in Fds \ {new} : w.fd_ofiles[j] = k.tab[t].fd_ofiles[j]
  BY <1>2, <1>7, Fills
<1>9. Replaces(w, m.tab[t], new, f)
  <2>1. Cover(w)
    BY <1>0, <1>2, <1>8 DEF Cover
  <2> QED BY <1>6, <1>8, <2>1 DEF Replaces
<1>10. PICK l : l = Install(m, p, t, w, f)
  OBVIOUS
<1>11. Mid(l, p, TRUE, f, old, old)
  <2>1. Dupping(m, p, t, f) /\ old = m.tab[t].fd_ofiles[new]
    BY <1>0, <1>6 DEF Dupping, SameFile
  <2> QED BY <1>5, <1>9, <1>10, <2>1, Installs
<1>12. l.proc[p].p_fd = t /\ l.proc[p].call = k.proc[p].call /\ l.proc[p].fp = NULL
  <2>1. l.proc[p].p_fd = m.proc[p].p_fd /\ l.proc[p].call = m.proc[p].call /\ l.proc[p].fp = NULL
    BY <1>6, <1>10, InstallsProc
  <2> QED BY <1>1, <1>6, <2>1
<1>13. PICK n : n = FRELE(l, f)
  OBVIOUS
<1>14. finishdup(k, p, f, new) = closef(n, p, old)
  <2>1. finishdup(k, p, f, new) =
            closef(FRELE([FREF(k, old) EXCEPT !.tab[t].fd_ofiles[new] = f,
                                   !.file[f].f_count = @ + 1, !.proc[p].fp = NULL], f), p, old)
    BY <1>0, <1>1, <1>3 DEF finishdup
  <2>2. finishdup(k, p, f, new) =
            closef(FRELE([m EXCEPT !.tab[t].fd_ofiles[new] = f,
                                   !.file[f].f_count = @ + 1, !.proc[p].fp = NULL], f), p, old)
    BY ONLY <2>1, <1>4
  <2>3. w = [m.tab[t] EXCEPT !.fd_ofiles[new] = f]
    BY ONLY <1>6, <1>7 DEF Fill
  <2>4. l = [m EXCEPT !.tab[t].fd_ofiles[new] = f, !.file[f].f_count = @ + 1, !.proc[p].fp = NULL]
    BY ONLY <1>10, <2>3 DEF Install, OneMore
  <2> QED BY ONLY <1>13, <2>2, <2>4
<1>15. Mid(n, p, TRUE, NULL, old, old)
  BY <1>11, <1>13, Drop
<1>16. l \in Sys /\ l.file[f].f_usecount > 0
  BY <1>11, Used
<1>17. SameProc(l, n, p)
  BY <1>13, <1>16, FRELEis
<1>18. InCall(n, p, TRUE, NULL) /\ n.proc[p].call # "exit"
  BY <1>1, <1>12, <1>17 DEF InCall, SameProc, Dupping
<1>19. Rest(closef(n, p, old))
  BY <1>1, <1>3, <1>15, <1>18, Closes
<1> QED BY <1>14, <1>19

\* finishdup.
LEMMA Dups ==
  ASSUME NEW k, NEW p \in Procs, NEW f \in Files, Mid(k, p, TRUE, f, NULL, NULL),
         NEW t \in Tables, Dupping(k, p, t, f), NEW new \in Fds
  PROVE  Rest(finishdup(k, p, f, new))
<1>1. k.proc[p].p_fd = t /\ k.proc[p].call \in {"dup", "dup2"} /\ k.file[f].f_count > 0
  BY DEF Dupping
<1>2. CASE k.file[f].f_count = MaxCount
  <2>1. finishdup(k, p, f, new) = Return(fdpunlock(FRELE(k, f), p), p)
    BY <1>2 DEF finishdup
  <2>2. TRUE \in BOOLEAN /\ k.proc[p].call # "exit"
    BY <1>1
  <2>3. Rest(Return(fdpunlock(FRELE(k, f), p), p))
    BY <1>1, <2>2, DropReturns
  <2> QED BY <2>1, <2>3
<1>3. CASE k.file[f].f_count # MaxCount /\ k.tab[t].fd_ofiles[new] = NULL
  BY <1>1, <1>3, DupsFree
<1>4. CASE k.file[f].f_count # MaxCount /\ k.tab[t].fd_ofiles[new] # NULL
  BY <1>1, <1>4, DupsOver
<1> QED BY <1>2, <1>3, <1>4

-----------------------------------------------------------------------------
WithTable(k, t, r) == [k EXCEPT !.tab = [k.tab EXCEPT ![t] = r]]

\* What changes with it.
LEMMA Tabled ==
  ASSUME NEW k \in Sys, NEW t \in Tables, NEW r \in Tab
  PROVE  LET l == WithTable(k, t, r)
         IN /\ l \in Sys /\ l.file = k.file /\ l.proc = k.proc /\ l.tab[t] = r
            /\ \A a \in Tables \ {t} : l.tab[a] = k.tab[a]
<1>0. PICK l : l = WithTable(k, t, r)
  OBVIOUS
<1>1. PICK tb : tb = [k.tab EXCEPT ![t] = r]
  OBVIOUS
<1>2. tb \in [Tables -> Tab] /\ tb[t] = r /\ \A a \in Tables \ {t} : tb[a] = k.tab[a]
  BY <1>1 DEF Sys
<1>3. l = [k EXCEPT !.tab = tb]
  BY <1>0, <1>1 DEF WithTable
<1>4. l \in Sys /\ l.file = k.file /\ l.proc = k.proc /\ l.tab = tb
  BY ONLY k \in Sys, <1>2, <1>3, SetTab
<1> QED BY ONLY <1>0, <1>1, <1>2, <1>4

\* A slot is emptied, and its file is still to be counted, or the slots stay.
LEMMA Reslots ==
  ASSUME NEW k, NEW p \in Procs, NEW h \in BOOLEAN, NEW u, NEW x, Mid(k, p, h, u, x, NULL),
         NEW t \in Tables, k.proc[p].p_fd = t, h \/ k.proc[p].call = "exit",
         NEW i \in Fds, NEW r, NEW g, Replaces(r, k.tab[t], i, g),
         NEW y2, NEW old, old = k.tab[t].fd_ofiles[i],
         (g = NULL /\ y2 = old) \/ (g = old /\ y2 = NULL)
  PROVE  Mid(WithTable(k, t, r), p, h, u, x, y2)
<1>1. k \in Sys /\ NULL \notin Files /\ k.file \in [Files -> File]
  BY DescrAssumption DEF Mid, Sys
<1>2. k.tab[t] \in Tab
  BY TableCover
<1>3. old \in Files \union {NULL} /\ g \in Files \union {NULL} /\ r \in Tab
  BY <1>2 DEF Tab, Replaces
<1>4. PICK l : l = WithTable(k, t, r)
  OBVIOUS
<1>5. /\ l \in Sys /\ l.file = k.file /\ l.proc = k.proc /\ l.tab[t] = r
      /\ \A a \in Tables \ {t} : l.tab[a] = k.tab[a]
  BY <1>1, <1>3, <1>4, Tabled
<1>6. old # NULL => k.file[old].open
  BY SlotOpen
<1>7. \A f \in Files : Moved(k, l, NULL, y2, old, g, f)
  <2> TAKE f \in Files
  <2>1. k.file[f].f_count \in Nat
    BY <1>1 DEF File
  <2>2. One(f = NULL) = 0 /\ One(old = f) \in Nat /\ One(old = f) = One(g = f) + One(f = y2)
    BY <1>1 DEF One
  <2>3. l.file[f].f_count + One(f = NULL) + One(old = f) = k.file[f].f_count + One(g = f) + One(f = y2)
    <3>1. One(g = f) \in Nat /\ One(f = y2) \in Nat
      BY DEF One
    <3> QED BY <1>5, <2>1, <2>2, <3>1
  <2>4. ~k.file[f].open => f # g /\ f # y2
    BY <1>1, <1>6
  <2> QED BY <1>5, <2>3, <2>4 DEF Moved
<1>8. Mid(l, p, h, u, x, y2)
  <2>1. /\ p \in Procs /\ h \in BOOLEAN /\ Mid(k, p, h, u, x, NULL)
        /\ t \in Tables /\ k.proc[p].p_fd = t /\ (h \/ k.proc[p].call = "exit")
        /\ i \in Fds /\ Replaces(r, k.tab[t], i, g) /\ old = k.tab[t].fd_ofiles[i]
    OBVIOUS
  <2> QED BY ONLY <1>3, <1>5, <1>7, <2>1, SlotChange
<1> QED BY <1>4, <1>8

\* The descriptor i of p, with file f, is removed by fdremove and f closed.
LEMMA Releases ==
  ASSUME NEW k, NEW p \in Procs, NEW h \in BOOLEAN, NEW u, NEW x, Mid(k, p, h, u, x, NULL),
         NEW t \in Tables, k.proc[p].p_fd = t, h \/ k.proc[p].call = "exit", InCall(k, p, h, u),
         k.proc[p].call # "exit" => h, k.proc[p].call = "exit" => k.proc[p].new = NULL,
         NEW i \in Fds, NEW f \in Files, f = k.tab[t].fd_ofiles[i],
         NEW r, Replaces(r, k.tab[t], i, NULL), NEW l, l = WithTable(k, t, r)
  PROVE  /\ x = NULL => Rest(closef(FREF(l, f), p, f))
         /\ x = f => Rest(closef(l, p, f))
<1>1. k \in Sys /\ r \in Tab /\ NULL \notin Files
  BY DescrAssumption DEF Mid, Replaces
<1>2. Mid(l, p, h, u, x, f)
  BY Reslots
<1>3. l \in Sys /\ l.file = k.file /\ l.proc = k.proc /\ l.tab[t] = r
  BY ONLY <1>1, t \in Tables, l = WithTable(k, t, r), Tabled
<1>4. InCall(l, p, h, u) /\ l.proc[p] = k.proc[p]
  BY <1>1, <1>3 DEF InCall, Replaces
<1>5. CASE x = NULL
  <2>1. PICK m : m = FREF(l, f)
    OBVIOUS
  <2>2. l.file[f].open /\ "WANTCLOSE" \notin l.file[f].f_iflags
    BY <1>2, Used
  <2>3. Mid(m, p, h, u, f, f)
    BY <1>2, <1>5, <2>1, <2>2, Hold
  <2>4. m.proc = l.proc /\ m.tab = l.tab
    BY <1>3, <2>1, FREFis
  <2>5. /\ InCall(m, p, h, u) /\ (m.proc[p].call # "exit" => h)
        /\ (m.proc[p].call = "exit" => m.proc[p].new = NULL)
    BY <1>4, <2>4 DEF InCall
  <2>6. Rest(closef(m, p, f))
    BY <2>3, <2>5, Closes
  <2> QED BY <1>1, <1>5, <2>1, <2>6
<1>6. CASE x = f
  <2>1. /\ (l.proc[p].call # "exit" => h)
        /\ (l.proc[p].call = "exit" => l.proc[p].new = NULL)
    BY <1>4
  <2>2. Rest(closef(l, p, f))
    BY <1>2, <1>4, <1>6, <2>1, Closes
  <2> QED BY <1>1, <1>6, <2>2
<1> QED BY <1>5, <1>6

\* fdrelease.
LEMMA Fdreleases ==
  ASSUME NEW k, NEW p \in Procs, Mid(k, p, TRUE, NULL, NULL, NULL),
         InCall(k, p, TRUE, NULL), k.proc[p].call # "exit", NEW i \in Fds
  PROVE  Rest(fdrelease(k, p, i))
<1>1. PICK t \in Tables : k.proc[p].p_fd = t
  BY DEF InCall
<1>2. PICK f : f = k.tab[t].fd_ofiles[i]
  OBVIOUS
<1>3. k.tab[t] \in Tab /\ Cover(k.tab[t]) /\ NULL \notin Files /\ TRUE \in BOOLEAN
  BY TableCover, DescrAssumption
<1>4. CASE f = NULL
  <2>1. fdrelease(k, p, i) = AfterClosef(k, p)
    BY <1>1, <1>2, <1>4 DEF fdrelease
  <2> QED BY <1>3, <2>1, Finish
<1>5. CASE f # NULL
  <2>1. PICK r : r = fdremove(k.tab[t], i)
    OBVIOUS
  <2>2. Replaces(r, k.tab[t], i, NULL)
    BY <1>3, <2>1, Removes DEF Replaces
  <2>3. PICK l : l = WithTable(k, t, r)
    OBVIOUS
  <2>4. fdrelease(k, p, i) = closef(FREF(l, f), p, f)
    <3>1. fdrelease(k, p, i) =
            closef(FREF([k EXCEPT !.tab[t] = fdremove(@, i)], f), p, f)
      BY <1>1, <1>2, <1>5 DEF fdrelease
    <3>2. l = [k EXCEPT !.tab[t] = fdremove(@, i)]
      BY ONLY <2>1, <2>3 DEF WithTable
    <3> QED BY ONLY <3>1, <3>2
  <2>5. f \in Files
    BY <1>2, <1>5, SlotOpen
  <2>6. /\ p \in Procs /\ i \in Fds /\ Mid(k, p, TRUE, NULL, NULL, NULL)
        /\ InCall(k, p, TRUE, NULL) /\ k.proc[p].call # "exit"
    OBVIOUS
  <2>7. Rest(closef(FREF(l, f), p, f))
    BY ONLY <1>1, <1>2, <1>3, <2>2, <2>3, <2>5, <2>6, Releases
  <2> QED BY ONLY <2>4, <2>7
<1> QED BY <1>4, <1>5

-----------------------------------------------------------------------------
\* p, about to take the table's lock or with it, has done no more than look up
\* its file u.
Ready(k, p, u) ==
  /\ k.proc[p].p_fd \in Tables /\ k.proc[p].wchan = NULL /\ k.proc[p].new = NULL
  /\ k.proc[p].call \in {"open", "close", "dup", "dup2", "accept"}
  /\ u = k.proc[p].fp /\ (u # NULL <=> k.proc[p].call \in {"dup", "dup2", "accept"})

\* A new file in a slot of the table of p.
NewFile == [open |-> TRUE, f_count |-> 1, f_usecount |-> 1, f_iflags |-> {"LARVAL"}]

\* l is k with table r, which has file f in slot i, and with f a new file.
Added(k, l, t, r, i, f) ==
  /\ k.tab[t].fd_ofiles[i] = NULL /\ ~k.file[f].open /\ Replaces(r, k.tab[t], i, f)
  /\ l.proc = k.proc /\ l.tab[t] = r /\ \A a \in Tables \ {t} : l.tab[a] = k.tab[a]
  /\ l.file[f] = NewFile /\ \A g \in Files \ {f} : l.file[g] = k.file[g]

\* The new file has one descriptor, and one reference for the process that makes it.
LEMMA Makes ==
  ASSUME NEW k, NEW p \in Procs, NEW u, Mid(k, p, TRUE, u, NULL, NULL),
         NEW t \in Tables, k.proc[p].p_fd = t,
         NEW i \in Fds, NEW f \in Files, NEW r, NEW l \in Sys, Added(k, l, t, r, i, f)
  PROVE  Mid(l, p, TRUE, u, f, NULL)
<1>0. /\ k.tab[t].fd_ofiles[i] = NULL /\ ~k.file[f].open /\ Replaces(r, k.tab[t], i, f)
      /\ l.proc = k.proc /\ l.tab[t] = r /\ \A a \in Tables \ {t} : l.tab[a] = k.tab[a]
      /\ l.file[f] = NewFile /\ \A g \in Files \ {f} : l.file[g] = k.file[g]
  BY DEF Added
<1> USE <1>0
<1>1. k \in Sys /\ k.tab \in [Tables -> Tab] /\ NULL \notin Files
  BY DescrAssumption DEF Mid, Sys
<1>2. /\ r \in Tab /\ Cover(r) /\ r.fd_ofiles = [k.tab[t].fd_ofiles EXCEPT ![i] = f]
      /\ r.fd_lock = k.tab[t].fd_lock /\ r.fd_refcnt = k.tab[t].fd_refcnt
  BY DEF Replaces
<1>3. OneSlot(k.tab, l.tab, t, i, f)
  <2>1. k.tab[t].fd_ofiles \in [Fds -> Files \union {NULL}]
    BY <1>1 DEF Tab
  <2> QED BY <1>1, <1>2, <2>1 DEF OneSlot
<1>4. /\ SlotsIn(k.tab, f) = {} /\ UsersBut(k, p, f) = {} /\ MakersBut(k, p, f) = {}
      /\ f # u
  BY DEF Mid, FileInv
<1>5. \A g \in Files : FileInv(l, p, u, f, NULL, g)
  <2> TAKE g \in Files
  <2>1. FileInv(k, p, u, NULL, NULL, g)
    BY DEF Mid
  <2>2. UsersBut(l, p, g) = UsersBut(k, p, g) /\ MakersBut(l, p, g) = MakersBut(k, p, g)
    BY DEF UsersBut, MakersBut
  <2>3. /\ Cardinality(SlotsIn(k.tab, g)) \in Nat /\ Cardinality(SlotsIn(l.tab, g)) \in Nat
        /\ Cardinality(SlotsIn(l.tab, g)) + One(NULL = g) = Cardinality(SlotsIn(k.tab, g)) + One(f = g)
    BY <1>3, SlotsChange
  <2>4. CASE g = f
    <3>1. /\ Cardinality(SlotsIn(k.tab, g)) = 0 /\ Cardinality(UsersBut(k, p, g)) = 0
          /\ Cardinality(MakersBut(k, p, g)) = 0
      BY <1>4, <2>4, FS_EmptySet
    <3>2. Cardinality(SlotsIn(l.tab, g)) = 1
      BY <1>1, <2>3, <2>4, <3>1 DEF One
    <3>3. One(g = u) = 0 /\ One(g = f) = 1 /\ One(g = NULL) = 0
      BY <1>1, <1>4, <2>4 DEF One
    <3>4. l.file[g].open /\ l.file[g].f_count = 1 /\ l.file[g].f_usecount = 1
          /\ "WANTCLOSE" \notin l.file[g].f_iflags
      BY <2>4 DEF NewFile
    <3> QED BY <2>2, <3>1, <3>2, <3>3, <3>4 DEF FileInv
  <2>5. CASE g # f
    <3>1. l.file[g] = k.file[g] /\ One(g = f) = 0 /\ One(NULL = g) = 0 /\ One(f = g) = 0 /\ One(g = NULL) = 0
      BY <1>1, <2>5 DEF One
    <3>2. Cardinality(SlotsIn(l.tab, g)) = Cardinality(SlotsIn(k.tab, g))
      BY <2>3, <3>1
    <3>3. CASE k.file[g].open
      <4>1. "WANTCLOSE" \in l.file[g].f_iflags =>
               \E q \in Procs \ {p} : l.proc[q].pc \in {"closef", "fo_close"} /\ l.proc[q].new = g
        BY <1>1, <2>1, <3>1, <3>3 DEF FileInv
      <4> QED BY <2>1, <2>2, <3>1, <3>2, <3>3, <4>1 DEF FileInv
    <3>4. CASE ~k.file[g].open
      <4>1. SlotsIn(l.tab, g) = {}
        <5>1. SlotsIn(k.tab, g) = {}
          BY <2>1, <3>4 DEF FileInv
        <5>2. \A a \in Tables, j \in Fds : k.tab[a].fd_ofiles[j] # g
          BY ONLY <5>1, NoSlots
        <5> QED BY ONLY <1>3, <2>5, <5>2 DEF SlotsIn, OneSlot
      <4> QED BY <1>1, <2>1, <2>2, <2>5, <3>1, <3>4, <4>1 DEF FileInv
    <3> QED BY <3>3, <3>4
  <2> QED BY <2>4, <2>5
<1>6. TabInv(k, p, TRUE, t)
  BY DEF Mid
<1>7. /\ l.tab[t].fd_refcnt = k.tab[t].fd_refcnt /\ l.tab[t].fd_lock = k.tab[t].fd_lock
      /\ k.tab[t].fd_lock = p /\ TRUE \in BOOLEAN /\ (l.tab[t].fd_lock = p <=> TRUE)
      /\ \A j \in Fds : l.tab[t].fd_ofiles[j] # NULL =>
           j \in l.tab[t].fd_map /\ j <= l.tab[t].fd_lastfile
  BY <1>2, <1>6 DEF TabInv, Cover
<1>8. Keeps(k, l, p)
  BY <1>1, <1>4 DEF Keeps, MakersBut, Sys, Proc
<1>9. /\ p \in Procs /\ t \in Tables /\ Mid(k, p, TRUE, u, NULL, NULL) /\ k.proc[p].p_fd = t
      /\ l \in Sys /\ l.proc = k.proc /\ \A a \in Tables \ {t} : l.tab[a] = k.tab[a]
  BY <1>0
<1>10. Mid(l, p, TRUE, u, f, NULL)
  BY ONLY <1>5, <1>7, <1>8, <1>9, Shift
<1> QED BY <1>10

\* falloc finds the slot i of table t and the file f, and leaves p making f.
Allotted(k, t, i, f) ==
  [[k EXCEPT !.tab = [k.tab EXCEPT ![t] = Fill(fdalloc(k.tab[t], 0), i, f)]]
     EXCEPT !.file = [k.file EXCEPT ![f] = NewFile]]
MakerOf(r, i, f) == [[[r EXCEPT !.pc = "making"] EXCEPT !.new = f] EXCEPT !.fd = i]

LEMMA FallocIs ==
  ASSUME NEW k, Shape(k), NEW p \in Procs, NEW t \in Tables, k.proc[p].p_fd = t,
         Candidates(k.tab[t], 0) # {}, NEW i, i = Min(Candidates(k.tab[t], 0)),
         {f \in Files : ~k.file[f].open} # {},
         NEW f, f = CHOOSE g \in {e \in Files : ~k.file[e].open} : TRUE
  PROVE  falloc(k, p) =
           [Allotted(k, t, i, f) EXCEPT !.proc = [@ EXCEPT ![p] = MakerOf(k.proc[p], i, f)]]
<1>1. PICK tb : tb = [k.tab EXCEPT ![t] = Fill(fdalloc(k.tab[t], 0), i, f)]
  OBVIOUS
<1>2. PICK fl : fl = [k.file EXCEPT ![f] = NewFile]
  OBVIOUS
<1>3. PICK m : m = [[k EXCEPT !.tab = tb] EXCEPT !.file = fl]
  OBVIOUS
<1>4. PICK v : v = MakerOf(k.proc[p], i, f)
  OBVIOUS
<1>5. PICK l : l = falloc(k, p)
  OBVIOUS
<1>6. l = [k EXCEPT !.tab[t] = [fdalloc(@, 0) EXCEPT !.fd_ofiles[i] = f],
                    !.file[f] = [open |-> TRUE, f_count |-> 1,
                                 f_usecount |-> 1, f_iflags |-> {"LARVAL"}],
                    !.proc[p].pc = "making", !.proc[p].new = f,
                    !.proc[p].fd = i]
  <2>1. /\ k.proc[p].p_fd = t /\ Candidates(k.tab[t], 0) # {} /\ i = Min(Candidates(k.tab[t], 0))
        /\ {g \in Files : ~k.file[g].open} # {}
        /\ f = CHOOSE g \in {h \in Files : ~k.file[h].open} : TRUE
    OBVIOUS
  <2> QED BY ONLY <1>5, <2>1 DEF falloc
<1>7. k.proc \in [Procs -> Proc] /\ k.proc[p] \in Proc
  BY DEF Shape
<1>8. PICK a : a = [m EXCEPT !.proc[p].pc = "making"]
  OBVIOUS
<1>9. PICK b : b = [a EXCEPT !.proc[p].new = f]
  OBVIOUS
<1>10. l = [b EXCEPT !.proc[p].fd = i]
  <2>1. m = [k EXCEPT !.tab[t] = [fdalloc(@, 0) EXCEPT !.fd_ofiles[i] = f],
                      !.file[f] = [open |-> TRUE, f_count |-> 1,
                                   f_usecount |-> 1, f_iflags |-> {"LARVAL"}]]
    BY ONLY <1>1, <1>2, <1>3 DEF NewFile, Fill
  <2> QED BY ONLY <1>6, <1>8, <1>9, <2>1
<1>11. PICK pa : pa = [k.proc EXCEPT ![p].pc = "making"]
  OBVIOUS
<1>12. PICK pb : pb = [pa EXCEPT ![p].new = f]
  OBVIOUS
<1>13. PICK pc : pc = [pb EXCEPT ![p].fd = i]
  OBVIOUS
<1>14. pc = [k.proc EXCEPT ![p] = v]
  BY ONLY <1>4, <1>7, <1>11, <1>12, <1>13, p \in Procs DEF MakerOf
<1>15. m = [tab |-> tb, file |-> fl, proc |-> k.proc]
  BY <1>3 DEF Shape
<1>16. a = [tab |-> tb, file |-> fl, proc |-> pa]
  BY ONLY <1>8, <1>11, <1>15
<1>17. b = [tab |-> tb, file |-> fl, proc |-> pb]
  BY ONLY <1>9, <1>12, <1>16
<1>18. [b EXCEPT !.proc[p].fd = i] = [tab |-> tb, file |-> fl, proc |-> pc]
  BY ONLY <1>13, <1>17
<1>19. [m EXCEPT !.proc = pc] = [tab |-> tb, file |-> fl, proc |-> pc] /\ m.proc = k.proc
  BY ONLY <1>15
<1>20. m = Allotted(k, t, i, f)
  BY ONLY <1>1, <1>2, <1>3 DEF Allotted
<1>21. l = [m EXCEPT !.proc = [m.proc EXCEPT ![p] = v]]
  BY ONLY <1>10, <1>14, <1>18, <1>19
<1> QED BY ONLY <1>4, <1>5, <1>20, <1>21

\* falloc.
LEMMA Fallocs ==
  ASSUME NEW k, NEW p \in Procs, NEW u, Mid(k, p, TRUE, u, NULL, NULL),
         Ready(k, p, u), k.proc[p].call \in {"open", "accept"}
  PROVE  Rest(falloc(k, p))
<1>1. k \in Sys /\ 0 \in Fds /\ NULL \notin Files /\ NULL \notin Tables /\ TRUE \in BOOLEAN
  BY DescrAssumption DEF Mid
<1>2. PICK t \in Tables : k.proc[p].p_fd = t
  BY DEF Ready
<1>3. k.tab[t] \in Tab /\ Cover(k.tab[t])
  BY TableCover
<1>4. InCall(k, p, TRUE, u) /\ k.proc[p].call # "exit"
  BY DEF InCall, Ready
<1>5. CASE Candidates(k.tab[t], 0) = {}
  <2>1. falloc(k, p) = AfterClosef(k, p)
    BY <1>2, <1>5 DEF falloc
  <2> QED BY <1>1, <1>4, <2>1, Finish
<1>6. CASE Candidates(k.tab[t], 0) # {}
  <2>1. PICK i : i = Min(Candidates(k.tab[t], 0))
    OBVIOUS
  <2>2. PICK s : s = fdalloc(k.tab[t], 0)
    OBVIOUS
  <2>3. /\ i \in Fds /\ k.tab[t].fd_ofiles[i] = NULL /\ s \in Tab /\ Cover(s) /\ i <= s.fd_lastfile
        /\ s.fd_ofiles = k.tab[t].fd_ofiles /\ s.fd_lock = k.tab[t].fd_lock
        /\ s.fd_refcnt = k.tab[t].fd_refcnt /\ i \in s.fd_map
    <3>1. /\ i \in Fds /\ k.tab[t].fd_ofiles[i] = NULL /\ s \in Tab /\ Cover(s)
          /\ s.fd_ofiles = k.tab[t].fd_ofiles /\ s.fd_lock = k.tab[t].fd_lock
          /\ s.fd_refcnt = k.tab[t].fd_refcnt /\ s.fd_map = k.tab[t].fd_map \union {i}
          /\ s.fd_lastfile = IF i > k.tab[t].fd_lastfile THEN i ELSE k.tab[t].fd_lastfile
      BY <1>1, <1>3, <1>6, <2>1, <2>2, Allocs
    <3>2. i \in Nat /\ k.tab[t].fd_lastfile \in Nat
      BY <1>3, <3>1, DescrAssumption DEF Tab
    <3> QED BY <3>1, <3>2
  <2>4. CASE {f \in Files : ~k.file[f].open} = {}
    <3>1. PICK r : r = fd_unused(s, i)
      OBVIOUS
    <3>2. PICK l : l = WithTable(k, t, r)
      OBVIOUS
    <3>3. falloc(k, p) = AfterClosef(l, p)
      <4>1. falloc(k, p) =
              AfterClosef([k EXCEPT !.tab[t] = fd_unused(fdalloc(@, 0), i)], p)
        BY <1>2, <1>6, <2>1, <2>4 DEF falloc
      <4>2. l = [k EXCEPT !.tab[t] = fd_unused(fdalloc(@, 0), i)]
        BY ONLY <2>2, <3>1, <3>2 DEF WithTable
      <4> QED BY ONLY <4>1, <4>2
    <3>4. Replaces(r, k.tab[t], i, NULL)
      <4>1. /\ r \in Tab /\ Cover(r) /\ r.fd_ofiles = s.fd_ofiles
            /\ r.fd_lock = s.fd_lock /\ r.fd_refcnt = s.fd_refcnt
        BY <2>3, <3>1, Unuses
      <4>2. k.tab[t].fd_ofiles = [k.tab[t].fd_ofiles EXCEPT ![i] = NULL]
        BY <1>3, <2>3 DEF Tab
      <4> QED BY <2>3, <4>1, <4>2 DEF Replaces
    <3>5. Mid(l, p, TRUE, u, NULL, NULL)
      BY <1>1, <1>2, <1>4, <2>3, <3>2, <3>4, Reslots
    <3>6. l.proc = k.proc
      BY <1>1, <3>2, <3>4, Tabled DEF Replaces
    <3>7. InCall(l, p, TRUE, u) /\ l.proc[p].call # "exit"
      BY <1>4, <3>6 DEF InCall
    <3> QED BY <1>1, <3>3, <3>5, <3>7, Finish
  <2>5. CASE {f \in Files : ~k.file[f].open} # {}
    <3>1. PICK f : f = CHOOSE g \in {e \in Files : ~k.file[e].open} : TRUE
      OBVIOUS
    <3>2. f \in Files /\ ~k.file[f].open
      BY <2>5, <3>1
    <3>3. PICK r : r = Fill(s, i, f)
      OBVIOUS
    <3>4. PICK tb : tb = [k.tab EXCEPT ![t] = r]
      OBVIOUS
    <3>5. PICK fl : fl = [k.file EXCEPT ![f] = NewFile]
      OBVIOUS
    <3>6. PICK m : m = [[k EXCEPT !.tab = tb] EXCEPT !.file = fl]
      OBVIOUS
    <3>7. PICK v : v = [[[k.proc[p] EXCEPT !.pc = "making"] EXCEPT !.new = f] EXCEPT !.fd = i]
      OBVIOUS
    <3>8. PICK l : l = falloc(k, p)
      OBVIOUS
    <3>9. l = [m EXCEPT !.proc = [m.proc EXCEPT ![p] = v]]
      <4>1. Shape(k)
        BY <1>1 DEF Sys, Shape
      <4>2. l = [Allotted(k, t, i, f) EXCEPT !.proc = [@ EXCEPT ![p] = MakerOf(k.proc[p], i, f)]]
        BY ONLY p \in Procs, <1>2, <1>6, <2>1, <2>5, <3>1, <3>8, <4>1, FallocIs
      <4>3. m = Allotted(k, t, i, f) /\ v = MakerOf(k.proc[p], i, f)
        BY ONLY <2>2, <3>3, <3>4, <3>5, <3>6, <3>7 DEF Allotted, MakerOf
      <4> QED BY ONLY <4>2, <4>3
    <3>10. Replaces(r, k.tab[t], i, f) /\ r.fd_ofiles[i] = f
      <4>1. /\ r \in Tab /\ r.fd_ofiles = [s.fd_ofiles EXCEPT ![i] = f]
            /\ r.fd_lock = s.fd_lock /\ r.fd_refcnt = s.fd_refcnt
            /\ r.fd_map = s.fd_map /\ r.fd_lastfile = s.fd_lastfile
            /\ r.fd_ofiles[i] = f /\ \A j \in Fds \ {i} : r.fd_ofiles[j] = s.fd_ofiles[j]
        BY <2>3, <3>2, <3>3, Fills
      <4>2. Cover(r)
        BY <2>3, <4>1 DEF Cover
      <4> QED BY <2>3, <4>1, <4>2 DEF Replaces
    <3>11. /\ m \in Sys /\ m.proc = k.proc /\ m.tab[t] = r /\ m.file[f] = NewFile
           /\ \A a \in Tables \ {t} : m.tab[a] = k.tab[a]
           /\ \A g \in Files \ {f} : m.file[g] = k.file[g]
      <4>1. tb \in [Tables -> Tab] /\ tb[t] = r /\ \A a \in Tables \ {t} : tb[a] = k.tab[a]
        BY <1>1, <3>4, <3>10 DEF Sys, Replaces
      <4>2. fl \in [Files -> File] /\ fl[f] = NewFile /\ \A g \in Files \ {f} : fl[g] = k.file[g]
        BY <1>1, <3>2, <3>5 DEF Sys, NewFile, File
      <4>3. m \in Sys /\ m.proc = k.proc /\ m.tab = tb /\ m.file = fl
        BY ONLY <1>1, <3>6, <4>1, <4>2 DEF Sys
      <4> QED BY ONLY <4>1, <4>2, <4>3
    <3>18. MakersBut(k, p, f) = {}
      BY <3>2 DEF Mid, FileInv
    <3>12. Mid(m, p, TRUE, u, f, NULL)
      <4>1. p \in Procs /\ Mid(k, p, TRUE, u, NULL, NULL) /\ i \in Fds /\ m \in Sys
        BY <2>3, <3>11
      <4>2. Added(k, m, t, r, i, f)
        BY ONLY <2>3, <3>2, <3>10, <3>11 DEF Added
      <4> QED BY ONLY <1>2, <3>2, <4>1, <4>2, Makes
    <3>13. /\ v \in Proc /\ v.p_fd = k.proc[p].p_fd /\ v.call = k.proc[p].call /\ v.fp = k.proc[p].fp
           /\ v.pc = "making" /\ v.new = f /\ v.fd = i /\ v.wchan = k.proc[p].wchan
      <4>1. k.proc[p] \in Proc
        BY <1>1 DEF Sys
      <4> QED BY <2>3, <3>2, <3>7, <4>1 DEF Proc, Pcs
    <3>14. l \in Sys /\ Owns(m, l, p, v)
      BY ONLY p \in Procs, <3>9, <3>11, <3>13, SetOwn
    <3>15. Place(l, p)
      BY <1>1, <1>2, <3>2, <3>10, <3>11, <3>13, <3>14 DEF Place, Owns, Ready, NewFile
    <3>16. /\ (v.call = "exit" <=> m.proc[p].call = "exit") /\ v.p_fd = m.proc[p].p_fd
           /\ u = (IF v.call = "flock" THEN NULL ELSE v.fp)
           /\ f = v.new /\ (HoldsLock(v) <=> TRUE)
           /\ "WANTCLOSE" \notin m.file[f].f_iflags
           /\ \A q \in Procs \ {p} : m.proc[q].new # f
      BY <3>11, <3>18, <3>13 DEF HoldsLock, Ready, MakersBut, NewFile
    <3>17. Rest(l)
      BY <1>1, <3>12, <3>13, <3>14, <3>15, <3>16, Settle
    <3> QED BY <3>8, <3>17
  <2> QED BY <2>4, <2>5
<1> QED BY <1>5, <1>6

-----------------------------------------------------------------------------
\* dup, once it has the lock.
LEMMA DupLocks ==
  ASSUME NEW k, NEW p \in Procs, NEW f \in Files, Mid(k, p, TRUE, f, NULL, NULL),
         k.proc[p].fp = f, NEW t \in Tables, Dupping(k, p, t, f)
  PROVE  Rest(DupLocked(k, p))
<1>1. k \in Sys /\ k.tab[t] \in Tab /\ Cover(k.tab[t]) /\ TRUE \in BOOLEAN
  BY TableCover DEF Mid
<1>2. k.proc[p].p_fd = t /\ k.proc[p].call # "exit"
  BY DEF Dupping
<1>3. PICK want : want = k.proc[p].fd
  OBVIOUS
<1>4. want \in Fds
  BY <1>1, <1>3 DEF Sys, Proc
<1>5. CASE Candidates(k.tab[t], want) = {}
  <2>1. DupLocked(k, p) = Return(fdpunlock(FRELE(k, f), p), p)
    BY <1>2, <1>3, <1>5 DEF DupLocked
  <2> QED BY <1>1, <1>2, <2>1, DropReturns
<1>6. CASE Candidates(k.tab[t], want) # {}
  <2>1. PICK i : i = Min(Candidates(k.tab[t], want))
    OBVIOUS
  <2>2. PICK r : r = fdalloc(k.tab[t], want)
    OBVIOUS
  <2>3. PICK l : l = WithTable(k, t, r)
    OBVIOUS
  <2>4. DupLocked(k, p) = finishdup(l, p, f, i)
    <3>1. DupLocked(k, p) = finishdup([k EXCEPT !.tab[t] = fdalloc(@, want)], p, f, i)
      BY <1>2, <1>3, <1>6, <2>1 DEF DupLocked
    <3>2. l = [k EXCEPT !.tab[t] = fdalloc(@, want)]
      BY ONLY <2>2, <2>3 DEF WithTable
    <3> QED BY ONLY <3>1, <3>2
  <2>5. /\ i \in Fds /\ k.tab[t].fd_ofiles[i] = NULL /\ r \in Tab /\ Cover(r)
        /\ r.fd_ofiles = k.tab[t].fd_ofiles /\ r.fd_lock = k.tab[t].fd_lock
        /\ r.fd_refcnt = k.tab[t].fd_refcnt
    BY <1>1, <1>4, <1>6, <2>1, <2>2, Allocs
  <2>6. Replaces(r, k.tab[t], i, NULL)
    <3>1. k.tab[t].fd_ofiles = [k.tab[t].fd_ofiles EXCEPT ![i] = NULL]
      BY <1>1, <2>5 DEF Tab
    <3> QED BY <2>5, <3>1 DEF Replaces
  <2>7. Mid(l, p, TRUE, f, NULL, NULL)
    BY <1>1, <1>2, <2>3, <2>5, <2>6, Reslots
  <2>8. l.file = k.file /\ l.proc = k.proc
    BY <1>1, <2>3, <2>5, Tabled
  <2>9. Dupping(l, p, t, f)
    BY <2>8 DEF Dupping
  <2>10. Rest(finishdup(l, p, f, i))
    BY ONLY p \in Procs, f \in Files, t \in Tables, <2>5, <2>7, <2>9, Dups
  <2> QED BY ONLY <2>4, <2>10
<1> QED BY <1>5, <1>6

\* The file that dup and dup2 work with still has a descriptor.
Counted(k, p) ==
  k.proc[p].call \in {"dup", "dup2"} => k.file[k.proc[p].fp].f_count > 0

\* A call, once it has the lock.
LEMMA Lockeds ==
  ASSUME NEW k, NEW p \in Procs, NEW u, Mid(k, p, TRUE, u, NULL, NULL),
         Ready(k, p, u), Counted(k, p)
  PROVE  Rest(Locked(k, p))
<1>1. k \in Sys /\ k.proc[p] \in Proc /\ NULL \notin Files
  BY DescrAssumption DEF Mid, Sys
<1>2. u = k.proc[p].fp /\ u \in Files \union {NULL} /\ k.proc[p].fd \in Fds
  BY <1>1 DEF Ready, Proc
<1>3. CASE k.proc[p].call \in {"open", "accept"}
  <2>1. Locked(k, p) = falloc(k, p)
    BY <1>3 DEF Locked
  <2> QED BY <1>3, <2>1, Fallocs
<1>4. CASE k.proc[p].call = "close"
  <2>1. Locked(k, p) = fdrelease(k, p, k.proc[p].fd)
    BY <1>4 DEF Locked
  <2>2. u = NULL /\ InCall(k, p, TRUE, NULL) /\ k.proc[p].call # "exit"
    BY <1>4 DEF Ready, InCall
  <2>3. Mid(k, p, TRUE, NULL, NULL, NULL)
    BY <2>2
  <2> QED BY <1>2, <2>1, <2>2, <2>3, Fdreleases
<1>5. CASE k.proc[p].call \in {"dup", "dup2"}
  <2>1. PICK t \in Tables : k.proc[p].p_fd = t
    BY DEF Ready
  <2>2. u \in Files /\ Dupping(k, p, t, u)
    BY <1>2, <1>5, <2>1 DEF Ready, Dupping, Counted
  <2>3. CASE k.proc[p].call = "dup"
    <3>1. Locked(k, p) = DupLocked(k, p)
      BY <2>3 DEF Locked
    <3> QED BY <1>2, <2>2, <3>1, DupLocks
  <2>4. CASE k.proc[p].call = "dup2"
    <3>1. Locked(k, p) = finishdup(k, p, u, k.proc[p].fd)
      BY <1>2, <2>4 DEF Locked
    <3> QED BY <1>2, <2>2, <3>1, Dups
  <2> QED BY <1>5, <2>3, <2>4
<1> QED BY <1>3, <1>4, <1>5 DEF Ready

\* p takes the lock of its table t.
WithLock(k, p, t) == [k EXCEPT !.tab[t].fd_lock = p]

\* The lock taken by a process that has it not.
LEMMA TakesLock ==
  ASSUME NEW k, NEW p \in Procs, NEW u, Mid(k, p, FALSE, u, NULL, NULL),
         NEW t \in Tables, k.proc[p].p_fd = t, k.tab[t].fd_lock = NULL
  PROVE  /\ Mid(WithLock(k, p, t), p, TRUE, u, NULL, NULL)
         /\ WithLock(k, p, t).proc = k.proc /\ WithLock(k, p, t).file = k.file
<1>0. PICK l : l = WithLock(k, p, t)
  OBVIOUS
<1>1. k \in Sys /\ k.tab[t] \in Tab /\ Cover(k.tab[t]) /\ TRUE \in BOOLEAN /\ NULL \notin Procs
  BY TableCover, DescrAssumption DEF Mid
<1>2. PICK r : r = [k.tab[t] EXCEPT !.fd_lock = p]
  OBVIOUS
<1>3. /\ r \in Tab /\ Cover(r) /\ r.fd_ofiles = k.tab[t].fd_ofiles /\ r.fd_lock = p
      /\ r.fd_refcnt = k.tab[t].fd_refcnt
  BY <1>1, <1>2 DEF Tab, Cover
<1>4. l = WithTable(k, t, r)
  BY <1>0, <1>2 DEF WithTable, WithLock
<1>5. /\ l \in Sys /\ l.file = k.file /\ l.proc = k.proc /\ l.tab[t] = r
      /\ \A a \in Tables \ {t} : l.tab[a] = k.tab[a]
  BY ONLY <1>1, <1>3, <1>4, t \in Tables, Tabled
<1>6. \A g \in Files : FileInv(l, p, u, NULL, NULL, g)
  <2> TAKE g \in Files
  <2>1. FileInv(k, p, u, NULL, NULL, g)
    BY DEF Mid
  <2>2. \A a \in Tables : l.tab[a].fd_ofiles = k.tab[a].fd_ofiles
    BY <1>3, <1>5
  <2>3. SlotsIn(l.tab, g) = SlotsIn(k.tab, g)
    BY ONLY <2>2, SameSlots
  <2>4. UsersBut(l, p, g) = UsersBut(k, p, g) /\ MakersBut(l, p, g) = MakersBut(k, p, g)
    BY <1>5 DEF UsersBut, MakersBut
  <2> QED BY ONLY <1>5, <2>1, <2>3, <2>4 DEF FileInv
<1>7. Keeps(k, l, p)
  BY <1>5 DEF Keeps
<1>8. /\ l.tab[t].fd_refcnt = k.tab[t].fd_refcnt /\ (l.tab[t].fd_lock = p <=> TRUE)
      /\ {l.tab[t].fd_lock, k.tab[t].fd_lock} \subseteq {p, NULL}
      /\ l.tab[t].fd_ofiles = k.tab[t].fd_ofiles
      /\ \A j \in Fds : l.tab[t].fd_ofiles[j] # NULL =>
           j \in l.tab[t].fd_map /\ j <= l.tab[t].fd_lastfile
  BY <1>3, <1>5 DEF Cover
<1>9. /\ p \in Procs /\ Mid(k, p, FALSE, u, NULL, NULL) /\ t \in Tables /\ k.proc[p].p_fd = t
      /\ TRUE \in BOOLEAN
  BY <1>1
<1>10. Mid(l, p, TRUE, u, NULL, NULL)
  BY ONLY <1>5, <1>6, <1>7, <1>8, <1>9, Shift
<1> QED BY <1>0, <1>5, <1>10

\* fdplock.
LEMMA Fdplocks ==
  ASSUME NEW k, NEW p \in Procs, NEW u, Mid(k, p, FALSE, u, NULL, NULL), Ready(k, p, u),
         k.tab[k.proc[p].p_fd].fd_lock = NULL => Counted(k, p)
  PROVE  Rest(fdplock(k, p))
<1>1. PICK t \in Tables : k.proc[p].p_fd = t
  BY DEF Ready
<1>2. k \in Sys /\ k.proc[p] \in Proc /\ NULL \notin Tables /\ FALSE \in BOOLEAN
  BY DescrAssumption DEF Mid, Sys
<1>3. CASE k.tab[t].fd_lock = NULL
  <2>1. PICK l : l = WithLock(k, p, t)
    OBVIOUS
  <2>2. fdplock(k, p) = Locked(l, p)
    BY <1>1, <1>3, <2>1 DEF fdplock, WithLock
  <2>3. Mid(l, p, TRUE, u, NULL, NULL) /\ l.proc = k.proc /\ l.file = k.file
    <3>1. p \in Procs /\ Mid(k, p, FALSE, u, NULL, NULL) /\ t \in Tables
      BY <1>1
    <3> QED BY ONLY <1>1, <1>3, <2>1, <3>1, TakesLock
  <2>4. Ready(l, p, u) /\ Counted(l, p)
    BY <1>1, <1>3, <2>3 DEF Ready, Counted
  <2> QED BY <2>2, <2>3, <2>4, Lockeds
<1>4. CASE k.tab[t].fd_lock # NULL
  <2>1. PICK r : r = [k.proc[p] EXCEPT !.pc = "fdplock"]
    OBVIOUS
  <2>2. PICK l : l = fdplock(k, p)
    OBVIOUS
  <2>3. /\ r \in Proc /\ r.pc = "fdplock" /\ r.p_fd = k.proc[p].p_fd /\ r.call = k.proc[p].call
        /\ r.fp = k.proc[p].fp /\ r.new = k.proc[p].new /\ r.wchan = k.proc[p].wchan
    BY <1>2, <2>1 DEF Proc, Pcs
  <2>4. l \in Sys /\ Owns(k, l, p, r)
    <3>1. l = [k EXCEPT !.proc = [k.proc EXCEPT ![p] = r]]
      BY <1>1, <1>4, <2>1, <2>2 DEF fdplock
    <3> QED BY ONLY p \in Procs, <1>2, <2>3, <3>1, SetOwn
  <2>5. /\ r.p_fd \in Tables /\ r.wchan = NULL /\ r.new = NULL
        /\ r.call \in {"open", "close", "dup", "dup2", "accept"}
        /\ u = r.fp /\ (u # NULL <=> r.call \in {"dup", "dup2", "accept"})
    BY <2>3 DEF Ready
  <2>6. Place(l, p)
    BY <1>2, <2>3, <2>4, <2>5 DEF Place, Owns
  <2>7. /\ (r.call = "exit" <=> k.proc[p].call = "exit") /\ r.p_fd = k.proc[p].p_fd
        /\ u = (IF r.call = "flock" THEN NULL ELSE r.fp)
        /\ NULL = r.new /\ (HoldsLock(r) <=> FALSE) /\ r.pc # "making"
    BY <2>3, <2>5 DEF HoldsLock
  <2>8. Rest(l)
    BY <1>2, <2>3, <2>4, <2>6, <2>7, Settle
  <2> QED BY <2>2, <2>8
<1> QED BY <1>3, <1>4
-----------------------------------------------------------------------------
(***************************************************************************)
(* The actions.                                                            *)
(***************************************************************************)

\* A step to a state with the invariant.
LEMMA Became ==
  ASSUME NEW k, Becomes(k), Rest(k), Inv
  PROVE  Inv'
<1>1. k \in Sys
  BY DEF Rest, Mid
<1>2. System' = k
  BY <1>1 DEF Sys, System, Becomes
<1>3. Rest(System')
  BY <1>2
<1>4. program' \in Programs
  BY DEF Inv, Becomes
<1> QED BY <1>3, <1>4 DEF Inv

\* A process between two calls.
LEMMA Idles ==
  ASSUME NEW k, Rest(k), NEW p \in Procs, k.proc[p].pc = "idle"
  PROVE  /\ Mid(k, p, FALSE, NULL, NULL, NULL)
         /\ k.proc[p].p_fd \in Tables /\ k.proc[p].call = "none" /\ k.proc[p].fp = NULL
         /\ k.proc[p].new = NULL /\ k.proc[p].wchan = NULL /\ k.proc[p] \in Proc
<1>1. k \in Sys /\ NULL \notin Procs /\ FALSE \in BOOLEAN
  BY DescrAssumption DEF Rest, Mid
<1>2. Place(k, p) /\ k.proc[p] \in Proc
  BY <1>1 DEF Rest, Mid, Sys
<1>3. /\ k.proc[p].p_fd \in Tables /\ k.proc[p].call = "none" /\ k.proc[p].fp = NULL
      /\ k.proc[p].new = NULL /\ k.proc[p].wchan = NULL
  BY <1>2 DEF Place, Proc
<1>4. /\ (FALSE <=> HoldsLock(k.proc[p]))
      /\ NULL = IF k.proc[p].call = "flock" THEN NULL ELSE k.proc[p].fp
      /\ NULL = k.proc[p].new
  BY <1>3 DEF HoldsLock
<1>5. Mid(k, p, FALSE, NULL, NULL, NULL)
  BY <1>1, <1>4, Enter
<1> QED BY <1>2, <1>3, <1>5

\* p has begun call c for descriptor i and file f, and done nothing else.
Begun(l, p, c, i, f) ==
  /\ Mid(l, p, FALSE, NULL, NULL, NULL)
  /\ l.tab = tab /\ l.file = file /\ l.proc[p].call = c /\ l.proc[p].fd = i
  /\ l.proc[p].fp = f /\ l.proc[p].p_fd \in Tables /\ l.proc[p].p_fd = proc[p].p_fd
  /\ l.proc[p].new = NULL /\ l.proc[p].wchan = NULL /\ l.proc[p] \in Proc

\* The record of a process that has begun the call.
StarterOf(r, c, i, f) == [[[r EXCEPT !.call = c] EXCEPT !.fd = i] EXCEPT !.fp = f]

\* The start of a call replaces the record of the process.
LEMMA StartedIs ==
  ASSUME NEW k, k = System, Shape(k), NEW p \in Procs, NEW c, NEW i, NEW f
  PROVE  Started(p, c, i, f) =
           [k EXCEPT !.proc = [k.proc EXCEPT ![p] = StarterOf(k.proc[p], c, i, f)]]
<1>1. PICK r : r = StarterOf(k.proc[p], c, i, f)
  OBVIOUS
<1>2. PICK l : l = Started(p, c, i, f)
  OBVIOUS
<1>3. l = [k EXCEPT !.proc[p].call = c, !.proc[p].fd = i, !.proc[p].fp = f]
  BY <1>2 DEF Started
<1>4. PICK pa : pa = [k.proc EXCEPT ![p].call = c]
  OBVIOUS
<1>5. PICK pb : pb = [pa EXCEPT ![p].fd = i]
  OBVIOUS
<1>6. PICK pc : pc = [pb EXCEPT ![p].fp = f]
  OBVIOUS
<1>7. k.proc \in [Procs -> Proc]
  BY DEF Shape
<1>8. pc = [k.proc EXCEPT ![p] = r]
  BY ONLY <1>1, <1>4, <1>5, <1>6, <1>7, p \in Procs DEF StarterOf
<1>9. k = [tab |-> k.tab, file |-> k.file, proc |-> k.proc]
  BY DEF Shape
<1>10. PICK a : a = [k EXCEPT !.proc[p].call = c]
  OBVIOUS
<1>11. PICK b : b = [a EXCEPT !.proc[p].fd = i]
  OBVIOUS
<1>12. l = [b EXCEPT !.proc[p].fp = f]
  BY ONLY <1>3, <1>10, <1>11
<1>13. a = [tab |-> k.tab, file |-> k.file, proc |-> pa]
  BY ONLY <1>4, <1>9, <1>10
<1>14. b = [tab |-> k.tab, file |-> k.file, proc |-> pb]
  BY ONLY <1>5, <1>11, <1>13
<1>15. l = [tab |-> k.tab, file |-> k.file, proc |-> pc]
  BY ONLY <1>6, <1>12, <1>14
<1>16. [k EXCEPT !.proc = pc] = [tab |-> k.tab, file |-> k.file, proc |-> pc]
  BY ONLY <1>9
<1> QED BY ONLY <1>1, <1>2, <1>8, <1>15, <1>16

\* The start of a call keeps the invariant.
LEMMA StartsCall ==
  ASSUME Inv, NEW p \in Procs, proc[p].pc = "idle",
         NEW c \in Calls, c # "exit", NEW i \in Fds, NEW f, f \in Files \/ f = NULL
  PROVE  Begun(Started(p, c, i, f), p, c, i, f)
<1>1. PICK k : k = System
  OBVIOUS
<1>2. k.tab = tab /\ k.file = file /\ k.proc = proc /\ Rest(k)
  BY <1>1 DEF System, Inv
<1>3. /\ Mid(k, p, FALSE, NULL, NULL, NULL)
      /\ k.proc[p].p_fd \in Tables /\ k.proc[p].call = "none" /\ k.proc[p].fp = NULL
      /\ k.proc[p].new = NULL /\ k.proc[p].wchan = NULL /\ k.proc[p] \in Proc
  BY <1>2, Idles
<1>4. k \in Sys
  BY <1>3 DEF Mid
<1>5. PICK r : r = [[[k.proc[p] EXCEPT !.call = c] EXCEPT !.fd = i] EXCEPT !.fp = f]
  OBVIOUS
<1>6. /\ r \in Proc /\ r.call = c /\ r.fd = i /\ r.fp = f /\ r.p_fd = k.proc[p].p_fd
      /\ r.new = NULL /\ r.wchan = NULL
  BY <1>3, <1>5 DEF Proc
<1>7. PICK l : l = Started(p, c, i, f)
  OBVIOUS
<1>8. l = [k EXCEPT !.proc = [k.proc EXCEPT ![p] = r]]
  <2>1. Shape(k)
    BY <1>4 DEF Sys, Shape
  <2>2. r = StarterOf(k.proc[p], c, i, f)
    BY ONLY <1>5 DEF StarterOf
  <2> QED BY ONLY p \in Procs, <1>1, <1>7, <2>1, <2>2, StartedIs
<1>9. l \in Sys /\ Owns(k, l, p, r)
  BY ONLY p \in Procs, <1>4, <1>6, <1>8, SetOwn
<1>10. Mid(l, p, FALSE, NULL, NULL, NULL)
  <2>1. r.call = "exit" <=> k.proc[p].call = "exit"
    BY <1>3, <1>6
  <2> QED BY ONLY p \in Procs, FALSE \in BOOLEAN, <1>3, <1>6, <1>9, <2>1, OwnRecord
<1>11. l.tab = tab /\ l.file = file /\ l.proc[p] = r
  BY <1>2, <1>9 DEF Owns
<1>12. Begun(l, p, c, i, f)
  BY <1>2, <1>3, <1>6, <1>10, <1>11 DEF Begun
<1> QED BY <1>7, <1>12

\* What fd_getfile finds.
LEMMA Getfile ==
  ASSUME NEW k, Rest(k), NEW p \in Procs, NEW t \in Tables, k.proc[p].p_fd = t, NEW i \in Fds,
         NEW f, f = fd_getfile(k, p, i), f # NULL
  PROVE  /\ f \in Files /\ k.file[f].open /\ k.file[f].f_count > 0 /\ k.file[f].f_iflags = {}
         /\ k.tab[t].fd_ofiles[i] = f
<1>1. Mid(k, NULL, FALSE, NULL, NULL, NULL)
  BY Zenon DEF Rest
<1>2. f = k.tab[t].fd_ofiles[i] /\ f # NULL /\ k.file[f].f_iflags = {}
  BY Zenon DEF fd_getfile
<1>3. f \in Files /\ k.file[f].open /\ k.file[f].f_count > 0
  BY <1>1, <1>2, SlotOpen
<1> QED BY <1>2, <1>3
\* The state as a constant.
LEMMA Now ==
  ASSUME Inv
  PROVE  Rest(System) /\ System.tab = tab /\ System.file = file /\ System.proc = proc
BY DEF Inv, System

\* A call with no file to look up takes the lock.
LEMMA Opens ==
  ASSUME Inv, NEW p \in Procs, proc[p].pc = "idle", NEW c \in {"open", "close"}, NEW i \in Fds
  PROVE  Rest(fdplock(Started(p, c, i, NULL), p))
<1>1. PICK l : l = Started(p, c, i, NULL)
  OBVIOUS
<1>2. /\ Mid(l, p, FALSE, NULL, NULL, NULL) /\ l.proc[p].call = c
      /\ l.proc[p].fp = NULL /\ l.proc[p].p_fd \in Tables
      /\ l.proc[p].new = NULL /\ l.proc[p].wchan = NULL
  <2>1. c \in Calls /\ c # "exit"
    BY DEF Calls
  <2>2. Begun(l, p, c, i, NULL)
    BY <1>1, <2>1, StartsCall
  <2> QED BY ONLY <2>2 DEF Begun
<1>3. Ready(l, p, NULL) /\ Counted(l, p)
  BY <1>2 DEF Ready, Counted
<1>4. Rest(fdplock(l, p))
  BY ONLY p \in Procs, <1>2, <1>3, Fdplocks
<1> QED BY <1>1, <1>4

\* sys_open.
LEMMA StepOpen ==
  ASSUME Inv, NEW p \in Procs, sys_open(p)
  PROVE  Inv'
<1>1. proc[p].pc = "idle" /\ 0 \in Fds
  BY DescrAssumption DEF sys_open, Begins
<1>2. PICK k : k = fdplock(Started(p, "open", 0, NULL), p)
  OBVIOUS
<1>3. Rest(k)
  BY <1>1, <1>2, Opens
<1>4. Becomes(k)
  BY <1>2 DEF sys_open
<1> QED BY <1>3, <1>4, Became

\* sys_close.
LEMMA StepClose ==
  ASSUME Inv, NEW p \in Procs, NEW fd \in Fds, sys_close(p, fd)
  PROVE  Inv'
<1>1. proc[p].pc = "idle"
  BY DEF sys_close, Begins
<1>2. PICK k : k = fdplock(Started(p, "close", fd, NULL), p)
  OBVIOUS
<1>3. Rest(k)
  BY <1>1, <1>2, Opens
<1>4. Becomes(k)
  BY <1>2 DEF sys_close
<1> QED BY <1>3, <1>4, Became

\* p has begun call c, and has a reference to f.
Looked(m, p, c, i, f) ==
  /\ Mid(m, p, FALSE, f, NULL, NULL) /\ f \in Files /\ m.file[f].f_count > 0
  /\ m.proc[p].call = c /\ m.proc[p].fp = f /\ m.proc[p].fd = i /\ m.proc[p].p_fd \in Tables
  /\ m.proc[p].new = NULL /\ m.proc[p].wchan = NULL /\ m.proc[p] \in Proc

\* A call that looks up its file and takes a reference.
LEMMA LooksUp ==
  ASSUME Inv, NEW p \in Procs, proc[p].pc = "idle", NEW c \in Calls, c # "exit",
         NEW old \in Fds, NEW i \in Fds, NEW f, f = fd_getfile(System, p, old), f # NULL
  PROVE  Looked(FREF(Started(p, c, i, f), f), p, c, i, f)
<1>0. PICK l : l = Started(p, c, i, f)
  OBVIOUS
<1>1. PICK k : k = System
  OBVIOUS
<1>2. Rest(k) /\ k.tab = tab /\ k.file = file /\ k.proc = proc
  BY <1>1, Now
<1>3. PICK t \in Tables : k.proc[p].p_fd = t
  BY <1>2, Idles
<1>4. f \in Files /\ k.file[f].open /\ k.file[f].f_count > 0 /\ k.file[f].f_iflags = {}
  <2>1. f = fd_getfile(k, p, old) /\ f # NULL /\ k.proc[p].p_fd = t
    BY <1>1, <1>3
  <2> QED BY ONLY <1>2, <1>3, <2>1, p \in Procs, old \in Fds, Getfile
<1>5. /\ Mid(l, p, FALSE, NULL, NULL, NULL) /\ l.file = file /\ l.proc[p].call = c
      /\ l.proc[p].fp = f /\ l.proc[p].p_fd \in Tables /\ l.proc[p].fd = i
      /\ l.proc[p].new = NULL /\ l.proc[p].wchan = NULL /\ l.proc[p] \in Proc
  <2>1. Begun(l, p, c, i, f)
    BY <1>0, <1>4, StartsCall
  <2> QED BY ONLY <2>1 DEF Begun
<1>6. /\ l \in Sys /\ l.file[f].open /\ l.file[f].f_count > 0
      /\ "WANTCLOSE" \notin l.file[f].f_iflags
  BY <1>2, <1>4, <1>5 DEF Mid
<1>7. Mid(FREF(l, f), p, FALSE, f, NULL, NULL)
  BY ONLY <1>4, <1>5, <1>6, Hold
<1>8. FREF(l, f).proc = l.proc /\ SameFile(l, FREF(l, f), f)
  BY ONLY <1>4, <1>6, FREFis
<1>9. PICK m : m = FREF(l, f)
  OBVIOUS
<1>10. Looked(m, p, c, i, f)
  BY ONLY <1>4, <1>5, <1>6, <1>7, <1>8, <1>9 DEF SameFile, Looked
<1> QED BY <1>0, <1>9, <1>10

\* dup and dup2 take the lock.
LEMMA Duplicates ==
  ASSUME Inv, NEW p \in Procs, proc[p].pc = "idle", NEW c \in {"dup", "dup2"},
         NEW old \in Fds, NEW i \in Fds, NEW f, f = fd_getfile(System, p, old), f # NULL
  PROVE  Rest(fdplock(FREF(Started(p, c, i, f), f), p))
<1>1. PICK m : m = FREF(Started(p, c, i, f), f)
  OBVIOUS
<1>2. Looked(m, p, c, i, f)
  <2>1. c \in Calls /\ c # "exit"
    BY DEF Calls
  <2> QED BY <1>1, <2>1, LooksUp
<1>3. Ready(m, p, f) /\ Counted(m, p) /\ Mid(m, p, FALSE, f, NULL, NULL)
  BY <1>2, DescrAssumption DEF Ready, Counted, Looked
<1>4. Rest(fdplock(m, p))
  BY ONLY p \in Procs, <1>3, Fdplocks
<1> QED BY <1>1, <1>4

\* sys_dup and sys_dup2, up to the wait for the table's lock.
LEMMA StepDup ==
  ASSUME Inv, NEW p \in Procs, NEW old \in Fds, NEW new \in Fds,
         sys_dup(p, old, new) \/ sys_dup2(p, old, new)
  PROVE  Inv'
<1>1. PICK f : f = fd_getfile(System, p, old)
  OBVIOUS
<1>2. proc[p].pc = "idle" /\ f # NULL
  BY <1>1 DEF sys_dup, sys_dup2, Begins
<1>3. CASE sys_dup(p, old, new)
  <2>1. PICK k : k = fdplock(FREF(Started(p, "dup", new, f), f), p)
    OBVIOUS
  <2>2. Rest(k)
    BY <1>1, <1>2, <2>1, Duplicates
  <2>3. Becomes(k)
    BY <1>1, <1>3, <2>1 DEF sys_dup
  <2> QED BY <2>2, <2>3, Became
<1>4. CASE sys_dup2(p, old, new)
  <2>1. PICK k : k = fdplock(FREF(Started(p, "dup2", new, f), f), p)
    OBVIOUS
  <2>2. Rest(k)
    BY <1>1, <1>2, <2>1, Duplicates
  <2>3. Becomes(k)
    BY <1>1, <1>4, <2>1 DEF sys_dup2
  <2> QED BY <2>2, <2>3, Became
<1> QED BY <1>3, <1>4
-----------------------------------------------------------------------------
\* p sleeps at c.
AtPc(m, p, c) == [m EXCEPT !.proc[p].pc = c]

\* Nothing else changes.
LEMMA AtPcIs ==
  ASSUME NEW m \in Sys, NEW p \in Procs, NEW c \in Pcs
  PROVE  LET l == AtPc(m, p, c)
             r == [m.proc[p] EXCEPT !.pc = c]
         IN l \in Sys /\ Owns(m, l, p, r) /\ r \in Proc
<1>1. PICK r : r = [m.proc[p] EXCEPT !.pc = c]
  OBVIOUS
<1>2. PICK l : l = AtPc(m, p, c)
  OBVIOUS
<1>3. r \in Proc
  BY <1>1 DEF Sys, Proc
<1>4. l = [m EXCEPT !.proc = [m.proc EXCEPT ![p] = r]]
  BY <1>1, <1>2 DEF AtPc
<1>5. l \in Sys /\ Owns(m, l, p, r)
  BY ONLY p \in Procs, m \in Sys, <1>3, <1>4, SetOwn
<1> QED BY <1>1, <1>2, <1>3, <1>5

\* A call that sleeps with a reference to its file.
LEMMA Sleeps ==
  ASSUME NEW m, NEW p \in Procs, NEW c \in {"io", "accept"}, NEW i, NEW f, Looked(m, p, c, i, f)
  PROVE  Rest(AtPc(m, p, c))
<1>1. /\ Mid(m, p, FALSE, f, NULL, NULL) /\ f \in Files
      /\ m.proc[p].call = c /\ m.proc[p].fp = f /\ m.proc[p].p_fd \in Tables
      /\ m.proc[p].new = NULL /\ m.proc[p].wchan = NULL /\ m.proc[p] \in Proc
  BY DEF Looked
<1>2. m \in Sys /\ c \in Pcs /\ NULL \notin Files /\ NULL \notin Tables /\ FALSE \in BOOLEAN
  BY <1>1, DescrAssumption DEF Mid, Pcs
<1>3. PICK r : r = [m.proc[p] EXCEPT !.pc = c]
  OBVIOUS
<1>4. PICK l : l = AtPc(m, p, c)
  OBVIOUS
<1>5. l \in Sys /\ Owns(m, l, p, r) /\ r \in Proc
  BY ONLY p \in Procs, <1>2, <1>3, <1>4, AtPcIs
<1>6. /\ r.pc = c /\ r.call = c /\ r.fp = f /\ r.new = NULL /\ r.wchan = NULL
      /\ r.p_fd = m.proc[p].p_fd
  BY <1>1, <1>3 DEF Proc
<1>7. Place(l, p)
  BY <1>1, <1>2, <1>5, <1>6 DEF Place, Owns
<1>8. /\ (r.call = "exit" <=> m.proc[p].call = "exit")
      /\ f = (IF r.call = "flock" THEN NULL ELSE r.fp)
      /\ NULL = r.new /\ (HoldsLock(r) <=> FALSE) /\ r.pc # "making"
  BY <1>1, <1>6 DEF HoldsLock
<1>9. Rest(l)
  BY <1>1, <1>2, <1>5, <1>6, <1>7, <1>8, Settle
<1> QED BY <1>4, <1>9

\* sys_io and sys_accept take their reference and sleep.
LEMMA StepIo ==
  ASSUME Inv, NEW p \in Procs, NEW fd \in Fds, sys_io(p, fd) \/ sys_accept(p, fd)
  PROVE  Inv'
<1>1. PICK f : f = fd_getfile(System, p, fd)
  OBVIOUS
<1>2. proc[p].pc = "idle" /\ f # NULL
  BY <1>1 DEF sys_io, sys_accept, Begins
<1>3. "io" \in Calls /\ "accept" \in Calls
  BY DEF Calls
<1>4. CASE sys_io(p, fd)
  <2>1. PICK m : m = FREF(Started(p, "io", fd, f), f)
    OBVIOUS
  <2>2. PICK k : k = AtPc(m, p, "io")
    OBVIOUS
  <2>3. Looked(m, p, "io", fd, f)
    BY <1>1, <1>2, <1>3, <2>1, LooksUp
  <2>4. Rest(k)
    BY <2>2, <2>3, Sleeps
  <2>5. Becomes(k)
    BY <1>1, <1>4, <2>1, <2>2 DEF sys_io, AtPc
  <2> QED BY <2>4, <2>5, Became
<1>5. CASE sys_accept(p, fd)
  <2>1. PICK m : m = FREF(Started(p, "accept", fd, f), f)
    OBVIOUS
  <2>2. PICK k : k = AtPc(m, p, "accept")
    OBVIOUS
  <2>3. Looked(m, p, "accept", fd, f)
    BY <1>1, <1>2, <1>3, <2>1, LooksUp
  <2>4. Rest(k)
    BY <2>2, <2>3, Sleeps
  <2>5. Becomes(k)
    BY <1>1, <1>5, <2>1, <2>2 DEF sys_accept, AtPc
  <2> QED BY <2>4, <2>5, Became
<1> QED BY <1>4, <1>5

\* flock, which takes no reference.
LEMMA StepFlock ==
  ASSUME Inv, NEW p \in Procs, NEW fd \in Fds, sys_flock(p, fd)
  PROVE  Inv'
<1>1. PICK f : f = fd_getfile(System, p, fd)
  OBVIOUS
<1>2. proc[p].pc = "idle" /\ f # NULL
  BY <1>1 DEF sys_flock, Begins
<1>3. PICK t \in Tables : System.proc[p].p_fd = t
  BY <1>2, Now, Idles
<1>4. f \in Files
  <2>1. Rest(System)
    BY Now
  <2> QED BY ONLY <1>1, <1>2, <1>3, <2>1, p \in Procs, fd \in Fds, Getfile
<1>5. PICK m : m = Started(p, "flock", fd, f)
  OBVIOUS
<1>6. Begun(m, p, "flock", fd, f)
  <2>1. "flock" \in Calls
    BY DEF Calls
  <2> QED BY <1>2, <1>4, <1>5, <2>1, StartsCall
<1>7. /\ Mid(m, p, FALSE, NULL, NULL, NULL)
      /\ m.proc[p].call = "flock" /\ m.proc[p].fp = f /\ m.proc[p].p_fd \in Tables
      /\ m.proc[p].new = NULL /\ m.proc[p].wchan = NULL /\ m.proc[p] \in Proc
  BY ONLY <1>6 DEF Begun
<1>8. m \in Sys /\ "flock" \in Pcs /\ NULL \notin Files /\ NULL \notin Tables /\ FALSE \in BOOLEAN
  BY <1>7, DescrAssumption DEF Mid, Pcs
<1>9. PICK r : r = [m.proc[p] EXCEPT !.pc = "flock"]
  OBVIOUS
<1>10. PICK l : l = AtPc(m, p, "flock")
  OBVIOUS
<1>11. l \in Sys /\ Owns(m, l, p, r) /\ r \in Proc
  BY ONLY p \in Procs, <1>8, <1>9, <1>10, AtPcIs
<1>12. /\ r.pc = "flock" /\ r.call = "flock" /\ r.fp = f /\ r.new = NULL /\ r.wchan = NULL
       /\ r.p_fd = m.proc[p].p_fd
  BY <1>7, <1>9 DEF Proc
<1>13. Place(l, p)
  BY <1>4, <1>7, <1>8, <1>11, <1>12 DEF Place, Owns
<1>14. /\ (r.call = "exit" <=> m.proc[p].call = "exit")
       /\ NULL = (IF r.call = "flock" THEN NULL ELSE r.fp)
       /\ NULL = r.new /\ (HoldsLock(r) <=> FALSE) /\ r.pc # "making"
  BY <1>7, <1>12 DEF HoldsLock
<1>15. Rest(l)
  BY <1>7, <1>8, <1>11, <1>12, <1>13, <1>14, Settle
<1>16. Becomes(l)
  BY <1>1, <1>5, <1>10 DEF sys_flock, AtPc
<1> QED BY <1>15, <1>16, Became

\* The return of sys_flock, which has no reference to drop.
LEMMA StepFlockDone ==
  ASSUME Inv, NEW p \in Procs, FlockDone(p)
  PROVE  Inv'
<1>1. PICK k : k = System
  OBVIOUS
<1>2. Rest(k) /\ k.proc = proc
  BY <1>1, Now
<1>3. k.proc[p].pc = "flock"
  BY <1>2 DEF FlockDone
<1>4. k \in Sys /\ Place(k, p) /\ FALSE \in BOOLEAN /\ k.proc[p] \in Proc
  BY <1>2, DescrAssumption DEF Rest, Mid, Sys
<1>5. /\ k.proc[p].p_fd \in Tables /\ k.proc[p].call = "flock" /\ k.proc[p].new = NULL
  BY <1>3, <1>4 DEF Place, Proc
<1>6. /\ (FALSE <=> HoldsLock(k.proc[p]))
      /\ NULL = IF k.proc[p].call = "flock" THEN NULL ELSE k.proc[p].fp
      /\ NULL = k.proc[p].new
  BY <1>3, <1>5 DEF HoldsLock
<1>7. Mid(k, p, FALSE, NULL, NULL, NULL)
  BY <1>2, <1>4, <1>6, Enter
<1>8. Rest(Return(k, p))
  BY <1>5, <1>7, Returned
<1>9. Becomes(Return(k, p))
  BY <1>1 DEF FlockDone
<1> QED BY <1>8, <1>9, Became
-----------------------------------------------------------------------------
\* What is known of a process at work.
LEMMA AtWork ==
  ASSUME NEW k, Rest(k), NEW p \in Procs
  PROVE  k \in Sys /\ Place(k, p) /\ k.proc[p] \in Proc
BY DescrAssumption DEF Rest, Mid, Sys

\* p sleeps in io or accept, with a reference.
LEMMA Wakes ==
  ASSUME NEW k, Rest(k), NEW p \in Procs, NEW f, f = k.proc[p].fp,
         \/ k.proc[p].pc \in {"io", "accept"}
         \/ k.proc[p].pc = "fdplock"
  PROVE  /\ Mid(k, p, FALSE, f, NULL, NULL) /\ k.proc[p].p_fd \in Tables
         /\ k.proc[p].new = NULL /\ k.proc[p].wchan = NULL
         /\ k.proc[p].call # "exit" /\ k.proc[p].call # "flock"
<1>1. k \in Sys /\ Place(k, p) /\ k.proc[p] \in Proc /\ FALSE \in BOOLEAN
  BY AtWork
<1>2. /\ k.proc[p].p_fd \in Tables /\ k.proc[p].new = NULL /\ k.proc[p].wchan = NULL
      /\ k.proc[p].call # "exit" /\ k.proc[p].call # "flock"
  BY <1>1 DEF Place, Proc
<1>3. /\ (FALSE <=> HoldsLock(k.proc[p]))
      /\ f = (IF k.proc[p].call = "flock" THEN NULL ELSE k.proc[p].fp)
      /\ NULL = k.proc[p].new
  BY <1>2 DEF HoldsLock
<1>4. Mid(k, p, FALSE, f, NULL, NULL)
  BY <1>1, <1>3, Enter
<1> QED BY <1>2, <1>4

\* The end of an operation on a file drops its reference.
LEMMA StepIoDone ==
  ASSUME Inv, NEW p \in Procs, IoDone(p)
  PROVE  Inv'
<1>1. PICK k : k = System
  OBVIOUS
<1>2. Rest(k) /\ k.proc = proc
  BY <1>1, Now
<1>3. PICK f : f = k.proc[p].fp
  OBVIOUS
<1>4. k.proc[p].pc = "io"
  BY <1>2 DEF IoDone
<1>5. /\ Mid(k, p, FALSE, f, NULL, NULL) /\ k.proc[p].p_fd \in Tables /\ k.proc[p].call # "exit"
  BY <1>2, <1>3, <1>4, Wakes
<1>6. k \in Sys /\ f \in Files
  <2>1. k \in Sys /\ Place(k, p) /\ k.proc[p] \in Proc
    BY <1>2, AtWork
  <2> QED BY <1>3, <1>4, <2>1 DEF Place, Proc
<1>7. PICK l : l = FRELE(k, f)
  OBVIOUS
<1>8. Mid(l, p, FALSE, NULL, NULL, NULL)
  BY <1>5, <1>6, <1>7, Drop
<1>9. l.proc[p].p_fd \in Tables /\ l.proc[p].call # "exit"
  <2>1. k.file[f].f_usecount > 0
    BY <1>5, <1>6, Used
  <2>2. SameProc(k, l, p)
    BY <1>6, <1>7, <2>1, FRELEis
  <2> QED BY <1>5, <2>2 DEF SameProc
<1>10. Rest(Return(l, p))
  BY <1>8, <1>9, Returned
<1>11. Becomes(Return(l, p))
  BY <1>1, <1>2, <1>3, <1>7 DEF IoDone
<1> QED BY <1>10, <1>11, Became

\* sys_accept has a connection, and goes on to make a file for it.
LEMMA StepConnection ==
  ASSUME Inv, NEW p \in Procs, Connection(p)
  PROVE  Inv'
<1>1. PICK k : k = System
  OBVIOUS
<1>2. Rest(k) /\ k.proc = proc
  BY <1>1, Now
<1>3. PICK f : f = k.proc[p].fp
  OBVIOUS
<1>4. k.proc[p].pc = "accept"
  BY <1>2 DEF Connection
<1>5. /\ Mid(k, p, FALSE, f, NULL, NULL) /\ k.proc[p].p_fd \in Tables
      /\ k.proc[p].new = NULL /\ k.proc[p].wchan = NULL
  BY <1>2, <1>3, <1>4, Wakes
<1>6. k.proc[p].call = "accept" /\ f # NULL
  <2>1. Place(k, p)
    BY <1>2, AtWork
  <2> QED BY <1>3, <1>4, <2>1 DEF Place
<1>7. Ready(k, p, f) /\ Counted(k, p)
  BY <1>3, <1>5, <1>6 DEF Ready, Counted
<1>8. Rest(fdplock(k, p))
  BY <1>5, <1>7, Fdplocks
<1>9. Becomes(fdplock(k, p))
  BY <1>1 DEF Connection
<1> QED BY <1>8, <1>9, Became

\* sys_accept fails while nobody has the table's lock.
LEMMA StepAcceptBad ==
  ASSUME Inv, NEW p \in Procs, AcceptBad(p), LockFree(p)
  PROVE  Inv'
<1>1. PICK k : k = System
  OBVIOUS
<1>2. Rest(k) /\ k.proc = proc /\ k.tab = tab
  BY <1>1, Now
<1>3. PICK f : f = k.proc[p].fp
  OBVIOUS
<1>4. k.proc[p].pc = "accept"
  BY <1>2 DEF AcceptBad
<1>5. /\ Mid(k, p, FALSE, f, NULL, NULL) /\ k.proc[p].p_fd \in Tables
      /\ k.proc[p].new = NULL /\ k.proc[p].wchan = NULL
  BY <1>2, <1>3, <1>4, Wakes
<1>6. k.proc[p].call = "accept" /\ f # NULL
  <2>1. Place(k, p)
    BY <1>2, AtWork
  <2> QED BY <1>3, <1>4, <2>1 DEF Place
<1>7. InCall(k, p, FALSE, f)
  BY <1>2, <1>3, <1>5, <1>6 DEF InCall, LockFree
<1>8. Rest(AfterClosef(k, p))
  <2>1. k.proc[p].call # "exit" /\ FALSE \in BOOLEAN /\ p \in Procs
    BY <1>6
  <2> QED BY ONLY <1>5, <1>7, <2>1, Finish
<1>9. Becomes(AfterClosef(k, p))
  BY <1>1 DEF AcceptBad
<1> QED BY <1>8, <1>9, Became

\* A process gets the table's lock and does its call.
LEMMA StepFdplock ==
  ASSUME Inv, NEW p \in Procs, Fdplock(p),
         proc[p].call \in {"dup", "dup2"} => file[proc[p].fp].f_count > 0
  PROVE  Inv'
<1>1. PICK k : k = System
  OBVIOUS
<1>2. Rest(k) /\ k.proc = proc /\ k.file = file
  BY <1>1, Now
<1>3. PICK f : f = k.proc[p].fp
  OBVIOUS
<1>4. k.proc[p].pc = "fdplock"
  BY <1>2 DEF Fdplock
<1>5. /\ Mid(k, p, FALSE, f, NULL, NULL) /\ k.proc[p].p_fd \in Tables
      /\ k.proc[p].new = NULL /\ k.proc[p].wchan = NULL
  BY <1>2, <1>3, <1>4, Wakes
<1>6. Ready(k, p, f)
  <2>1. Place(k, p)
    BY <1>2, AtWork
  <2> QED BY <1>3, <1>4, <1>5, <2>1 DEF Place, Ready
<1>7. Counted(k, p)
  BY <1>2 DEF Counted
<1>8. Rest(fdplock(k, p))
  BY <1>5, <1>6, <1>7, Fdplocks
<1>9. Becomes(fdplock(k, p))
  BY <1>1 DEF Fdplock
<1> QED BY <1>8, <1>9, Became

\* closef goes on, the last reference dropped.
LEMMA StepClosef ==
  ASSUME Inv, NEW p \in Procs, Closef(p)
  PROVE  Inv'
<1>1. PICK k : k = System
  OBVIOUS
<1>2. Rest(k) /\ k.proc = proc
  BY <1>1, Now
<1>3. PICK f : f = k.proc[p].new
  OBVIOUS
<1>4. k.proc[p].pc = "closef" /\ k.proc[p].wchan = NULL
  BY <1>2 DEF Closef
<1>5. k \in Sys /\ Place(k, p) /\ k.proc[p] \in Proc
  BY <1>2, AtWork
<1>6. PICK u : u = k.proc[p].fp
  OBVIOUS
<1>7. PICK h \in BOOLEAN : h <=> k.proc[p].call # "exit"
  <2>1. (k.proc[p].call # "exit") \in BOOLEAN
    OBVIOUS
  <2> QED BY <2>1
<1>8. /\ f \in Files /\ k.proc[p].p_fd \in Tables
      /\ k.proc[p].call \in {"open", "close", "dup", "dup2", "accept", "exit"}
      /\ (u # NULL <=> k.proc[p].call = "accept") /\ "WANTCLOSE" \in k.file[f].f_iflags
  BY <1>3, <1>4, <1>5, <1>6 DEF Place, Proc
<1>9. Mid(k, p, h, u, f, NULL)
  <2>1. /\ (h <=> HoldsLock(k.proc[p]))
        /\ u = (IF k.proc[p].call = "flock" THEN NULL ELSE k.proc[p].fp)
        /\ f = k.proc[p].new /\ k.proc[p].pc \in {"making", "closef", "fo_close"}
    BY <1>3, <1>4, <1>6, <1>7, <1>8 DEF HoldsLock
  <2> QED BY <1>2, <1>7, <2>1, Enter
<1>10. InCall(k, p, h, u)
  BY <1>4, <1>6, <1>7, <1>8 DEF InCall
<1>11. Rest(ClosefWait(k, p, f))
  BY <1>7, <1>8, <1>9, <1>10, Waits
<1>12. Becomes(ClosefWait(k, p, f))
  BY <1>1, <1>2, <1>3 DEF Closef
<1> QED BY <1>11, <1>12, Became

\* fo_close is done.
LEMMA StepFoClosed ==
  ASSUME Inv, NEW p \in Procs, FoClosed(p)
  PROVE  Inv'
<1>1. PICK k : k = System
  OBVIOUS
<1>2. Rest(k) /\ k.proc = proc
  BY <1>1, Now
<1>3. PICK f : f = k.proc[p].new
  OBVIOUS
<1>4. k.proc[p].pc = "fo_close"
  BY <1>2 DEF FoClosed
<1>5. k \in Sys /\ Place(k, p) /\ k.proc[p] \in Proc
  BY <1>2, AtWork
<1>6. PICK u : u = k.proc[p].fp
  OBVIOUS
<1>7. PICK h \in BOOLEAN : h <=> k.proc[p].call # "exit"
  <2>1. (k.proc[p].call # "exit") \in BOOLEAN
    OBVIOUS
  <2> QED BY <2>1
<1>8. /\ f \in Files /\ k.proc[p].p_fd \in Tables
      /\ k.proc[p].call \in {"open", "close", "dup", "dup2", "accept", "exit"}
      /\ (u # NULL <=> k.proc[p].call = "accept") /\ "WANTCLOSE" \in k.file[f].f_iflags
      /\ k.file[f].f_usecount = 1 /\ k.proc[p].wchan = NULL
  BY <1>3, <1>4, <1>5, <1>6 DEF Place, Proc
<1>9. Mid(k, p, h, u, f, NULL)
  <2>1. /\ (h <=> HoldsLock(k.proc[p]))
        /\ u = (IF k.proc[p].call = "flock" THEN NULL ELSE k.proc[p].fp)
        /\ f = k.proc[p].new /\ k.proc[p].pc \in {"making", "closef", "fo_close"}
    BY <1>3, <1>4, <1>6, <1>7, <1>8 DEF HoldsLock
  <2> QED BY <1>2, <1>7, <2>1, Enter
<1>10. InCall(k, p, h, u)
  BY <1>4, <1>6, <1>7, <1>8 DEF InCall
<1>11. Rest(AfterClosef(Freed(k, p, f), p))
  BY <1>7, <1>8, <1>9, <1>10, Frees
<1>12. Becomes(AfterClosef(Freed(k, p, f), p))
  BY <1>1, <1>2, <1>3 DEF FoClosed
<1> QED BY <1>11, <1>12, Became
-----------------------------------------------------------------------------
\* p, with table t, makes file f in slot i of it; u is the file it works with.
Making(k, p, t, i, f, u) ==
  /\ Mid(k, p, TRUE, u, f, NULL) /\ InCall(k, p, TRUE, u)
  /\ t \in Tables /\ k.proc[p].p_fd = t /\ f \in Files /\ i \in Fds
  /\ k.proc[p].call \in {"open", "accept"}
  /\ k.tab[t].fd_ofiles[i] = f /\ "LARVAL" \in k.file[f].f_iflags
  /\ \A q \in Procs \ {p} : k.proc[q].new # f

\* A process that makes a file, seen in the middle of its call.
LEMMA Makings ==
  ASSUME NEW k, Rest(k), NEW p \in Procs, k.proc[p].pc = "making"
  PROVE  Making(k, p, k.proc[p].p_fd, k.proc[p].fd, k.proc[p].new, k.proc[p].fp)
<1>1. k \in Sys /\ Place(k, p) /\ k.proc[p] \in Proc /\ TRUE \in BOOLEAN /\ NULL \notin Procs
      /\ NULL \notin Files
  BY AtWork, DescrAssumption
<1>2. PICK t : t = k.proc[p].p_fd
  OBVIOUS
<1>3. PICK i : i = k.proc[p].fd
  OBVIOUS
<1>4. PICK f : f = k.proc[p].new
  OBVIOUS
<1>5. PICK u : u = k.proc[p].fp
  OBVIOUS
<1>6. /\ t \in Tables /\ f \in Files /\ i \in Fds /\ k.proc[p].call \in {"open", "accept"}
      /\ k.tab[t].fd_ofiles[i] = f /\ "LARVAL" \in k.file[f].f_iflags
      /\ (u # NULL <=> k.proc[p].call = "accept")
  BY <1>1, <1>2, <1>3, <1>4, <1>5 DEF Place, Proc
<1>7. Mid(k, p, TRUE, u, f, NULL)
  <2>1. /\ (TRUE <=> HoldsLock(k.proc[p]))
        /\ u = (IF k.proc[p].call = "flock" THEN NULL ELSE k.proc[p].fp)
        /\ f = k.proc[p].new /\ k.proc[p].pc \in {"making", "closef", "fo_close"}
    BY <1>4, <1>5, <1>6 DEF HoldsLock
  <2> QED BY <1>1, <2>1, Enter
<1>8. InCall(k, p, TRUE, u)
  BY <1>2, <1>5, <1>6 DEF InCall
<1>9. ASSUME NEW q \in Procs \ {p}, k.proc[q].new = f
      PROVE  FALSE
  <2>1. Place(k, q)
    BY AtWork
  <2>2. k.proc[q].pc \in {"making", "closef", "fo_close"}
    BY <1>1, <1>6, <1>9, <2>1 DEF Place
  <2>3. k.proc[q].pc # "making"
    BY <1>1, <1>4, <1>9 DEF Rest, Mid
  <2>4. "WANTCLOSE" \notin k.file[f].f_iflags
    BY <1>1, <1>6, <1>7, SlotOpen
  <2> QED BY <1>9, <2>1, <2>2, <2>3, <2>4 DEF Place
<1> QED BY <1>2, <1>3, <1>4, <1>5, <1>6, <1>7, <1>8, <1>9 DEF Making

\* File f is no longer LARVAL.
Mature(k, f) == [k EXCEPT !.file[f].f_iflags = @ \ {"LARVAL"}]

\* m is k with file f mature, and p still in its call with it.
Matured(k, m, p, f, u) ==
  /\ Mid(m, p, TRUE, u, f, NULL) /\ m \in Sys /\ m.proc = k.proc /\ m.tab = k.tab
  /\ "WANTCLOSE" \notin m.file[f].f_iflags

\* FILE_SET_MATURE changes no count.
LEMMA Matures ==
  ASSUME NEW k, NEW p \in Procs, NEW t, NEW i, NEW f, NEW u, Making(k, p, t, i, f, u)
  PROVE  Matured(k, Mature(k, f), p, f, u)
<1>1. /\ Mid(k, p, TRUE, u, f, NULL) /\ t \in Tables /\ k.proc[p].p_fd = t /\ f \in Files /\ i \in Fds
      /\ k.tab[t].fd_ofiles[i] = f /\ \A q \in Procs \ {p} : k.proc[q].new # f
  BY DEF Making
<1>2. k \in Sys /\ k.file \in [Files -> File] /\ NULL \notin Files /\ TRUE \in BOOLEAN
  BY <1>1, DescrAssumption DEF Mid, Sys
<1>3. PICK fl : fl = [k.file EXCEPT ![f].f_iflags = @ \ {"LARVAL"}]
  OBVIOUS
<1>4. /\ fl \in [Files -> File] /\ \A g \in Files \ {f} : fl[g] = k.file[g]
      /\ fl[f].open = k.file[f].open /\ fl[f].f_count = k.file[f].f_count
      /\ fl[f].f_usecount = k.file[f].f_usecount /\ fl[f].f_iflags = k.file[f].f_iflags \ {"LARVAL"}
  BY <1>1, <1>2, <1>3 DEF File
<1>5. PICK l : l = Mature(k, f)
  OBVIOUS
<1>6. l \in Sys /\ l.tab = k.tab /\ l.proc = k.proc /\ l.file = fl
  <2>1. l = [k EXCEPT !.file = fl]
    BY <1>3, <1>5 DEF Mature
  <2> QED BY ONLY <1>2, <1>4, <2>1, SetFile
<1>7. "WANTCLOSE" \notin k.file[f].f_iflags
  BY <1>1, <1>2, SlotOpen
<1>8. \A g \in Files : FileInv(l, p, u, f, NULL, g)
  <2> TAKE g \in Files
  <2>1. FileInv(k, p, u, f, NULL, g)
    BY <1>1 DEF Mid
  <2>2. UsersBut(l, p, g) = UsersBut(k, p, g) /\ MakersBut(l, p, g) = MakersBut(k, p, g)
    BY <1>6 DEF UsersBut, MakersBut
  <2>3. /\ l.file[g].open = k.file[g].open /\ l.file[g].f_count = k.file[g].f_count
        /\ l.file[g].f_usecount = k.file[g].f_usecount
        /\ ("WANTCLOSE" \in l.file[g].f_iflags <=> "WANTCLOSE" \in k.file[g].f_iflags)
    BY <1>4, <1>6
  <2> QED BY ONLY <1>6, <2>1, <2>2, <2>3 DEF FileInv
<1>9. Keeps(k, l, p)
  <2> SUFFICES ASSUME NEW q \in Procs \ {p}, k.proc[q].new # NULL
               PROVE  l.file[k.proc[q].new] = k.file[k.proc[q].new]
    BY DEF Keeps
  <2>1. k.proc[q].new \in Files \ {f}
    BY <1>1, <1>2 DEF Sys, Proc
  <2> QED BY <1>4, <1>6, <2>1
<1>10. Mid(l, p, TRUE, u, f, NULL)
  <2>1. TabInv(k, p, TRUE, t)
    BY <1>1 DEF Mid
  <2>2. /\ l.tab[t].fd_refcnt = k.tab[t].fd_refcnt /\ l.tab[t].fd_lock = k.tab[t].fd_lock
        /\ (l.tab[t].fd_lock = p <=> TRUE) /\ l.tab[t].fd_ofiles = k.tab[t].fd_ofiles
        /\ \A j \in Fds : l.tab[t].fd_ofiles[j] # NULL =>
             j \in l.tab[t].fd_map /\ j <= l.tab[t].fd_lastfile
        /\ \A a \in Tables \ {t} : l.tab[a] = k.tab[a]
    BY <1>1, <1>6, <2>1 DEF TabInv
  <2> QED BY ONLY p \in Procs, <1>1, <1>2, <1>6, <1>8, <1>9, <2>2, Shift
<1>11. Matured(k, l, p, f, u)
  BY <1>1, <1>4, <1>6, <1>7, <1>10 DEF Matured
<1> QED BY <1>5, <1>11

\* The file is made.
LEMMA StepMade ==
  ASSUME Inv, NEW p \in Procs, Made(p)
  PROVE  Inv'
<1>1. PICK k : k = System
  OBVIOUS
<1>2. Rest(k) /\ k.proc = proc /\ TRUE \in BOOLEAN
  BY <1>1, Now
<1>3. PICK t, i, f, u : t = k.proc[p].p_fd /\ i = k.proc[p].fd /\ f = k.proc[p].new /\ u = k.proc[p].fp
  OBVIOUS
<1>4. Making(k, p, t, i, f, u)
  <2>1. k.proc[p].pc = "making"
    BY <1>2 DEF Made
  <2> QED BY <1>2, <1>3, <2>1, Makings
<1>5. InCall(k, p, TRUE, u) /\ f \in Files /\ k.proc[p].call \in {"open", "accept"}
  BY <1>4 DEF Making
<1>6. PICK m : m = Mature(k, f)
  OBVIOUS
<1>7. /\ Mid(m, p, TRUE, u, f, NULL) /\ m \in Sys /\ m.proc = k.proc /\ m.tab = k.tab
      /\ "WANTCLOSE" \notin m.file[f].f_iflags
  <2>1. Matured(k, m, p, f, u)
    BY ONLY p \in Procs, <1>4, <1>6, Matures
  <2> QED BY ONLY <2>1 DEF Matured
<1>8. PICK l : l = FRELE(m, f)
  OBVIOUS
<1>9. Mid(l, p, TRUE, u, NULL, NULL)
  BY ONLY <1>5, <1>7, <1>8, Drop
<1>10. InCall(l, p, TRUE, u) /\ l.proc[p].call # "exit"
  <2>1. m.file[f].f_usecount > 0
    BY <1>5, <1>7, Used
  <2>2. SameProc(m, l, p) /\ l.tab = m.tab
    BY <1>5, <1>7, <1>8, <2>1, FRELEis
  <2> QED BY <1>5, <1>7, <2>2 DEF InCall, SameProc
<1>11. Rest(AfterClosef(l, p))
  BY ONLY p \in Procs, <1>2, <1>9, <1>10, Finish
<1>12. Becomes(AfterClosef(l, p))
  BY <1>1, <1>2, <1>3, <1>6, <1>8 DEF Made, FILE_SET_MATURE, Mature
<1> QED BY <1>11, <1>12, Became

\* It is not: the slot is emptied and the file closed.
LEMMA StepMakeFailed ==
  ASSUME Inv, NEW p \in Procs, MakeFailed(p)
  PROVE  Inv'
<1>1. PICK k : k = System
  OBVIOUS
<1>2. Rest(k) /\ k.proc = proc /\ TRUE \in BOOLEAN /\ NULL \notin Files
  BY <1>1, Now, DescrAssumption
<1>3. PICK t, i, f, u : t = k.proc[p].p_fd /\ i = k.proc[p].fd /\ f = k.proc[p].new /\ u = k.proc[p].fp
  OBVIOUS
<1>4. Making(k, p, t, i, f, u)
  <2>1. k.proc[p].pc = "making"
    BY <1>2 DEF MakeFailed
  <2> QED BY <1>2, <1>3, <2>1, Makings
<1>5. /\ Mid(k, p, TRUE, u, f, NULL) /\ InCall(k, p, TRUE, u)
      /\ t \in Tables /\ k.proc[p].p_fd = t /\ f \in Files /\ i \in Fds
      /\ k.proc[p].call # "exit" /\ f = k.tab[t].fd_ofiles[i]
  BY <1>4 DEF Making
<1>6. PICK r : r = fdremove(k.tab[t], i)
  OBVIOUS
<1>7. Replaces(r, k.tab[t], i, NULL)
  <2>1. k.tab[t] \in Tab /\ Cover(k.tab[t])
    BY <1>5, TableCover
  <2> QED BY <1>5, <1>6, <2>1, Removes DEF Replaces
<1>8. PICK l : l = WithTable(k, t, r)
  OBVIOUS
<1>9. Rest(closef(l, p, f))
  BY ONLY p \in Procs, <1>2, <1>5, <1>7, <1>8, Releases
<1>10. Becomes(closef(l, p, f))
  <2>1. l = [k EXCEPT !.tab[t] = fdremove(@, i)]
    BY ONLY <1>6, <1>8 DEF WithTable
  <2> QED BY <1>1, <1>2, <1>3, <2>1 DEF MakeFailed
<1> QED BY <1>9, <1>10, Became
-----------------------------------------------------------------------------
\* dupfdopen: the slot of the file that p makes gets file f, of slot j.
LEMMA OpensFd ==
  ASSUME NEW k, NEW p \in Procs, NEW t, NEW i, NEW g, NEW u, Making(k, p, t, i, g, u),
         NEW f \in Files, k.file[f].open, k.file[f].f_count > 0,
         NEW r, r = fd_used(Fill(k.tab[t], i, f), i)
  PROVE  Rest(closef(OneMore(k, t, r, f), p, g))
<1>1. /\ Mid(k, p, TRUE, u, g, NULL) /\ InCall(k, p, TRUE, u)
      /\ t \in Tables /\ k.proc[p].p_fd = t /\ g \in Files /\ i \in Fds
      /\ k.proc[p].call # "exit" /\ g = k.tab[t].fd_ofiles[i]
  BY DEF Making
<1>2. k.tab[t] \in Tab /\ Cover(k.tab[t]) /\ k \in Sys
  BY <1>1, TableCover DEF Mid
<1>3. PICK w : w = Fill(k.tab[t], i, f)
  OBVIOUS
<1>4. /\ w \in Tab /\ w.fd_ofiles = [k.tab[t].fd_ofiles EXCEPT ![i] = f]
      /\ w.fd_lock = k.tab[t].fd_lock /\ w.fd_refcnt = k.tab[t].fd_refcnt
      /\ w.fd_map = k.tab[t].fd_map /\ w.fd_lastfile = k.tab[t].fd_lastfile
      /\ \A j \in Fds \ {i} : w.fd_ofiles[j] = k.tab[t].fd_ofiles[j]
  BY <1>1, <1>2, <1>3, Fills
<1>5. \A j \in Fds \ {i} : w.fd_ofiles[j] # NULL => j \in w.fd_map /\ j <= w.fd_lastfile
  BY <1>2, <1>4 DEF Cover
<1>6. Replaces(r, k.tab[t], i, f)
  <2>1. r = fd_used(w, i)
    BY <1>3
  <2>2. /\ r \in Tab /\ Cover(r) /\ r.fd_ofiles = w.fd_ofiles /\ r.fd_lock = w.fd_lock
        /\ r.fd_refcnt = w.fd_refcnt
    BY ONLY <1>1, <1>4, <1>5, <2>1, Uses
  <2> QED BY <1>4, <2>2 DEF Replaces
<1>7. PICK l : l = OneMore(k, t, r, f)
  OBVIOUS
<1>8. Mid(l, p, TRUE, u, g, g)
  <2>1. p \in Procs /\ f \in Files /\ k.file[f].open /\ k.file[f].f_count > 0
    OBVIOUS
  <2> QED BY ONLY <1>1, <1>6, <1>7, <2>1, OneMoreMid
<1>9. l.proc = k.proc
  BY <1>2, <1>7, OneMoreProc
<1>10. InCall(l, p, TRUE, u) /\ l.proc[p].call # "exit"
  BY <1>1, <1>9 DEF InCall
<1>11. Rest(closef(l, p, g))
  BY ONLY p \in Procs, TRUE \in BOOLEAN, <1>1, <1>8, <1>10, Closes
<1> QED BY <1>7, <1>11

\* The same with slot j emptied instead of f counted.
LEMMA StealsFd ==
  ASSUME NEW k, NEW p \in Procs, NEW t, NEW i, NEW g, NEW u, Making(k, p, t, i, g, u),
         NEW j \in Fds, NEW f \in Files, k.tab[t].fd_ofiles[j] = f, f # g,
         NEW r, r = fd_unused(fd_used(Fill(Fill(k.tab[t], i, f), j, NULL), i), j)
  PROVE  Rest(closef(WithTable(k, t, r), p, g))
<1>1. /\ Mid(k, p, TRUE, u, g, NULL) /\ InCall(k, p, TRUE, u)
      /\ t \in Tables /\ k.proc[p].p_fd = t /\ g \in Files /\ i \in Fds
      /\ k.proc[p].call # "exit" /\ g = k.tab[t].fd_ofiles[i]
  BY DEF Making
<1>2. /\ k.tab[t] \in Tab /\ Cover(k.tab[t]) /\ k \in Sys /\ NULL \notin Files /\ TRUE \in BOOLEAN
  BY <1>1, TableCover, DescrAssumption DEF Mid
<1>3. i # j /\ j \in k.tab[t].fd_map /\ j <= k.tab[t].fd_lastfile
  BY <1>1, <1>2 DEF Cover
<1>4. PICK a : a = Fill(k.tab[t], j, NULL)
  OBVIOUS
<1>5. /\ a \in Tab /\ a.fd_ofiles = [k.tab[t].fd_ofiles EXCEPT ![j] = NULL]
      /\ a.fd_lock = k.tab[t].fd_lock /\ a.fd_refcnt = k.tab[t].fd_refcnt
      /\ a.fd_map = k.tab[t].fd_map /\ a.fd_lastfile = k.tab[t].fd_lastfile
      /\ a.fd_ofiles[j] = NULL
      /\ \A n \in Fds \ {j} : a.fd_ofiles[n] = k.tab[t].fd_ofiles[n]
  BY <1>2, <1>4, Fills
<1>6. Replaces(a, k.tab[t], j, NULL)
  <2>1. Cover(a)
    BY <1>2, <1>5 DEF Cover
  <2> QED BY <1>5, <2>1 DEF Replaces
<1>7. PICK m : m = WithTable(k, t, a)
  OBVIOUS
<1>8. Mid(m, p, TRUE, u, g, f)
  <2>1. p \in Procs /\ j \in Fds /\ f = k.tab[t].fd_ofiles[j]
    OBVIOUS
  <2> QED BY ONLY <1>1, <1>2, <1>6, <1>7, <2>1, Reslots
<1>9. /\ m \in Sys /\ m.file = k.file /\ m.proc = k.proc /\ m.tab[t] = a
      /\ \A b \in Tables \ {t} : m.tab[b] = k.tab[b]
  BY ONLY <1>1, <1>2, <1>5, <1>7, Tabled
<1>10. PICK w : w = Fill(Fill(k.tab[t], i, f), j, NULL)
  OBVIOUS
<1>11. /\ w \in Tab /\ w.fd_ofiles = [a.fd_ofiles EXCEPT ![i] = f]
       /\ w.fd_lock = a.fd_lock /\ w.fd_refcnt = a.fd_refcnt
       /\ w.fd_map = a.fd_map /\ w.fd_lastfile = a.fd_lastfile
  <2>1. PICK v : v = Fill(k.tab[t], i, f)
    OBVIOUS
  <2>2. /\ v \in Tab /\ v.fd_ofiles = [k.tab[t].fd_ofiles EXCEPT ![i] = f]
        /\ v.fd_lock = k.tab[t].fd_lock /\ v.fd_refcnt = k.tab[t].fd_refcnt
        /\ v.fd_map = k.tab[t].fd_map /\ v.fd_lastfile = k.tab[t].fd_lastfile
    BY <1>1, <1>2, <2>1, Fills
  <2>3. /\ w \in Tab /\ w.fd_ofiles = [v.fd_ofiles EXCEPT ![j] = NULL]
        /\ w.fd_lock = v.fd_lock /\ w.fd_refcnt = v.fd_refcnt
        /\ w.fd_map = v.fd_map /\ w.fd_lastfile = v.fd_lastfile
    <3>1. w = Fill(v, j, NULL) /\ NULL \in Files \union {NULL} /\ j \in Fds /\ v \in Tab
      BY <1>10, <2>1, <2>2
    <3> QED BY ONLY <3>1, Fills
  <2>4. [v.fd_ofiles EXCEPT ![j] = NULL] = [a.fd_ofiles EXCEPT ![i] = f]
    <3>1. k.tab[t].fd_ofiles \in [Fds -> Files \union {NULL}]
      BY <1>2 DEF Tab
    <3> QED BY <1>1, <1>3, <1>5, <2>2, <3>1
  <2> QED BY <1>5, <2>2, <2>3, <2>4
<1>12. w.fd_ofiles[j] = NULL /\ w.fd_ofiles[i] = f
       /\ \A n \in Fds \ {i} : w.fd_ofiles[n] = a.fd_ofiles[n]
  <2>1. a.fd_ofiles \in [Fds -> Files \union {NULL}]
    BY <1>5 DEF Tab
  <2> QED BY <1>1, <1>3, <1>5, <1>11, <2>1
<1>13. PICK v : v = fd_used(w, i)
  OBVIOUS
<1>14. /\ v \in Tab /\ Cover(v) /\ v.fd_ofiles = w.fd_ofiles /\ v.fd_lock = w.fd_lock
       /\ v.fd_refcnt = w.fd_refcnt
  <2>1. \A n \in Fds \ {i} : w.fd_ofiles[n] # NULL => n \in w.fd_map /\ n <= w.fd_lastfile
    BY <1>6, <1>11, <1>12 DEF Replaces, Cover
  <2> QED BY ONLY <1>1, <1>11, <1>13, <2>1, Uses
<1>15. /\ r \in Tab /\ Cover(r) /\ r.fd_ofiles = v.fd_ofiles /\ r.fd_lock = v.fd_lock
       /\ r.fd_refcnt = v.fd_refcnt
  <2>1. r = fd_unused(v, j) /\ v.fd_ofiles[j] = NULL /\ j \in Fds
    BY <1>10, <1>12, <1>13, <1>14
  <2> QED BY ONLY <1>14, <2>1, Unuses
<1>16. Replaces(r, m.tab[t], i, f)
  BY <1>9, <1>11, <1>14, <1>15 DEF Replaces
<1>17. PICK l : l = WithTable(k, t, r)
  OBVIOUS
<1>18. /\ l \in Sys /\ l.file = k.file /\ l.proc = k.proc /\ l.tab[t] = r
       /\ \A b \in Tables \ {t} : l.tab[b] = k.tab[b]
  BY ONLY <1>1, <1>2, <1>15, <1>17, Tabled
<1>19. \A h \in Files : Moved(m, l, f, g, g, f, h)
  <2> TAKE h \in Files
  <2>1. One(h = f) = One(f = h) /\ One(h = g) = One(g = h)
    BY DEF One
  <2>2. m.file[h].open \/ (h # f /\ h # g)
    BY <1>8, Used
  <2> QED BY <1>9, <1>18, <2>1, <2>2 DEF Moved
<1>20. Mid(l, p, TRUE, u, g, g)
  <2>1. /\ p \in Procs /\ TRUE \in BOOLEAN /\ t \in Tables /\ m.proc[p].p_fd = t /\ i \in Fds
        /\ f \in Files \union {NULL} /\ l \in Sys /\ l.proc = m.proc /\ l.tab[t] = r
        /\ \A b \in Tables \ {t} : l.tab[b] = m.tab[b]
    BY <1>1, <1>9, <1>18
  <2>2. g = m.tab[t].fd_ofiles[i]
    BY ONLY <1>1, <1>3, <1>5, <1>9
  <2> QED BY ONLY <1>8, <1>16, <1>19, <2>1, <2>2, SlotChange
<1>21. InCall(l, p, TRUE, u) /\ l.proc[p].call # "exit"
  BY <1>1, <1>18 DEF InCall
<1>22. Rest(closef(l, p, g))
  BY ONLY p \in Procs, TRUE \in BOOLEAN, <1>1, <1>20, <1>21, Closes
<1> QED BY <1>17, <1>22

\* dupfdopen of an open file, mode 0: the slot of the new file gets the old one.
LEMMA BecomesOpened ==
  ASSUME NEW p, NEW dfd, OpenedFd(p, dfd), NEW k, k = System, Shape(k),
         NEW t, t = k.proc[p].p_fd, NEW i, i = k.proc[p].fd, NEW g, g = k.proc[p].new,
         NEW f, f = fd_getfile(k, p, dfd), NEW r, r = fd_used(Fill(k.tab[t], i, f), i)
  PROVE  Becomes(closef(OneMore(k, t, r, f), p, g))
<1>1. PICK l : l = OneMore(k, t, r, f)
  OBVIOUS
<1>2. PICK tb : tb = [k.tab EXCEPT ![t] = r]
  OBVIOUS
<1>3. PICK fl : fl = [k.file EXCEPT ![f].f_count = @ + 1]
  OBVIOUS
<1>4. k = [tab |-> k.tab, file |-> k.file, proc |-> k.proc]
  BY DEF Shape
<1>5. PICK a : a = [k EXCEPT !.tab[t] = fd_used([@ EXCEPT !.fd_ofiles[i] = f], i)]
  OBVIOUS
<1>6. a = [tab |-> tb, file |-> k.file, proc |-> k.proc]
  BY ONLY r = fd_used(Fill(k.tab[t], i, f), i), <1>2, <1>4, <1>5 DEF Fill
<1>7. PICK b : b = [k EXCEPT !.tab[t] = fd_used([@ EXCEPT !.fd_ofiles[i] = f], i),
                             !.file[f].f_count = @ + 1]
  OBVIOUS
<1>8. b = [a EXCEPT !.file[f].f_count = @ + 1]
  BY ONLY <1>5, <1>7
<1>9. b = [tab |-> tb, file |-> fl, proc |-> k.proc]
  BY ONLY <1>3, <1>6, <1>8
<1>10. l = [tab |-> tb, file |-> fl, proc |-> k.proc]
  BY ONLY <1>1, <1>2, <1>3, <1>4 DEF OneMore
<1>11. System.tab = tab /\ System.file = file /\ System.proc = proc
  BY DEF System
<1>12. Becomes(closef(b, p, g))
  BY <1>7, <1>11 DEF OpenedFd
<1> QED BY ONLY <1>1, <1>9, <1>10, <1>12

\* dupfdopen, mode 1: the old slot is emptied besides.
LEMMA BecomesStole ==
  ASSUME NEW p, NEW dfd, StoleFd(p, dfd), NEW k, k = System,
         NEW t, t = k.proc[p].p_fd, NEW i, i = k.proc[p].fd, NEW g, g = k.proc[p].new,
         NEW f, f = fd_getfile(k, p, dfd),
         NEW r, r = fd_unused(fd_used(Fill(Fill(k.tab[t], i, f), dfd, NULL), i), dfd)
  PROVE  Becomes(closef(WithTable(k, t, r), p, g))
<1>1. PICK l : l = WithTable(k, t, r)
  OBVIOUS
<1>2. PICK w : w = [k.tab[t] EXCEPT !.fd_ofiles[i] = f, !.fd_ofiles[dfd] = NULL]
  OBVIOUS
<1>3. w = Fill(Fill(k.tab[t], i, f), dfd, NULL)
  BY ONLY <1>2 DEF Fill
<1>4. r = fd_unused(fd_used(w, i), dfd)
  BY ONLY <1>3, r = fd_unused(fd_used(Fill(Fill(k.tab[t], i, f), dfd, NULL), i), dfd)
<1>5. l = [k EXCEPT !.tab[t] = fd_unused(fd_used([@ EXCEPT
                             !.fd_ofiles[i] = f, !.fd_ofiles[dfd] = NULL], i), dfd)]
  BY ONLY <1>1, <1>2, <1>4 DEF WithTable
<1>6. System.tab = tab /\ System.file = file /\ System.proc = proc
  BY DEF System
<1>7. Becomes(closef(l, p, g))
  BY <1>5, <1>6 DEF StoleFd
<1> QED BY ONLY <1>1, <1>7

\* Both keep the invariant; the new file is closed.
LEMMA StepOpenedFd ==
  ASSUME Inv, NEW p \in Procs, NEW dfd \in Fds, OpenedFd(p, dfd) \/ StoleFd(p, dfd)
  PROVE  Inv'
<1>1. PICK k : k = System
  OBVIOUS
<1>2. Rest(k) /\ k.proc = proc /\ k.tab = tab /\ k.file = file
  BY <1>1, Now
<1>3. PICK t, i, g, u : t = k.proc[p].p_fd /\ i = k.proc[p].fd /\ g = k.proc[p].new /\ u = k.proc[p].fp
  OBVIOUS
<1>4. Making(k, p, t, i, g, u)
  <2>1. k.proc[p].pc = "making"
    BY <1>2 DEF OpenedFd, StoleFd
  <2> QED BY <1>2, <1>3, <2>1, Makings
<1>5. PICK f : f = fd_getfile(k, p, dfd)
  OBVIOUS
<1>6. f # NULL
  BY <1>1, <1>5 DEF OpenedFd, StoleFd
<1>7. t \in Tables /\ "LARVAL" \in k.file[g].f_iflags
  BY <1>4 DEF Making
<1>8. /\ f \in Files /\ k.file[f].open /\ k.file[f].f_count > 0 /\ k.file[f].f_iflags = {}
      /\ k.tab[t].fd_ofiles[dfd] = f
  BY ONLY p \in Procs, dfd \in Fds, <1>2, <1>3, <1>5, <1>6, <1>7, Getfile
<1>9. f # g
  BY <1>7, <1>8
<1>10. CASE OpenedFd(p, dfd)
  <2>1. PICK r : r = fd_used(Fill(k.tab[t], i, f), i)
    OBVIOUS
  <2>2. PICK l : l = OneMore(k, t, r, f)
    OBVIOUS
  <2>3. Rest(closef(l, p, g))
    BY ONLY p \in Procs, <1>4, <1>8, <2>1, <2>2, OpensFd
  <2>4. Becomes(closef(l, p, g))
    <3>1. Shape(k)
      BY <1>2, AtWork DEF Sys, Shape
    <3> QED BY ONLY <1>1, <1>3, <1>5, <1>10, <2>1, <2>2, <3>1, BecomesOpened
  <2> QED BY <2>3, <2>4, Became
<1>11. CASE StoleFd(p, dfd)
  <2>1. PICK r : r = fd_unused(fd_used(Fill(Fill(k.tab[t], i, f), dfd, NULL), i), dfd)
    OBVIOUS
  <2>2. PICK l : l = WithTable(k, t, r)
    OBVIOUS
  <2>3. Rest(closef(l, p, g))
    BY ONLY p \in Procs, dfd \in Fds, <1>4, <1>8, <1>9, <2>1, <2>2, StealsFd
  <2>4. Becomes(closef(l, p, g))
    BY ONLY <1>1, <1>3, <1>5, <1>11, <2>1, <2>2, BecomesStole
  <2> QED BY <2>3, <2>4, Became
<1> QED BY <1>10, <1>11
-----------------------------------------------------------------------------
\* A process that has no file and no table's lock.
Outside(r) == r.fp = NULL /\ r.new = NULL /\ r.pc \notin {"making", "closef", "fo_close"}

\* The processes of table t.
Peopled(k, t) ==
  /\ k.tab[t].fd_refcnt = Cardinality(Members(k, t))
  /\ (\A q \in Procs : k.proc[q].p_fd # t) => \A i \in Fds : k.tab[t].fd_ofiles[i] = NULL
  /\ \A q, r \in Procs :
        k.proc[q].p_fd = t /\ k.proc[r].p_fd = t /\ k.proc[q].call = "exit" => q = r

\* The other processes do not notice.
Unnoticed(k, l, q) ==
  /\ Outside(k.proc[q]) /\ Outside(l.proc[q]) /\ \A z \in Procs \ {q} : l.proc[z] = k.proc[z]
  /\ \A f \in Files : /\ l.file[f].f_iflags = k.file[f].f_iflags
                      /\ l.file[f].f_usecount = k.file[f].f_usecount
  /\ \A t \in Tables : /\ Cover(l.tab[t]) /\ l.tab[t].fd_lock = k.tab[t].fd_lock
                       /\ \A z \in Procs \ {q} : k.proc[z].p_fd = t =>
                            l.tab[t].fd_ofiles = k.tab[t].fd_ofiles

\* A process comes, goes or takes another table.
LEMMA Population ==
  ASSUME NEW k, Rest(k), NEW q \in Procs, NEW l \in Sys, Unnoticed(k, l, q), Place(l, q),
         \A f \in Files : FileInv(l, NULL, NULL, NULL, NULL, f),
         \A t \in Tables : Peopled(l, t)
  PROVE  Rest(l)
<1>1. k \in Sys /\ NULL \notin Procs /\ NULL \notin Files /\ NULL \notin Tables
  BY DescrAssumption DEF Rest, Mid
<1>2. /\ Outside(k.proc[q]) /\ Outside(l.proc[q]) /\ \A z \in Procs \ {q} : l.proc[z] = k.proc[z]
      /\ \A f \in Files : /\ l.file[f].f_iflags = k.file[f].f_iflags
                          /\ l.file[f].f_usecount = k.file[f].f_usecount
      /\ \A t \in Tables : /\ Cover(l.tab[t]) /\ l.tab[t].fd_lock = k.tab[t].fd_lock
                           /\ \A z \in Procs \ {q} : k.proc[z].p_fd = t =>
                                l.tab[t].fd_ofiles = k.tab[t].fd_ofiles
  BY DEF Unnoticed
<1>3. \A t \in Tables : TabInv(l, NULL, FALSE, t)
  <2> TAKE t \in Tables
  <2>1. TabInv(k, NULL, FALSE, t)
    BY DEF Rest, Mid
  <2>2. \A z \in Procs : HoldsLock(l.proc[z]) => z # q /\ l.proc[z] = k.proc[z]
    BY <1>2 DEF HoldsLock, Outside
  <2>3. \A z \in Procs : HoldsLock(k.proc[z]) => z # q /\ l.proc[z] = k.proc[z]
    BY <1>2 DEF HoldsLock, Outside
  <2>4. \A z \in Procs \ {NULL} : l.tab[t].fd_lock = z <=> l.proc[z].p_fd = t /\ HoldsLock(l.proc[z])
    <3>1. \A z \in Procs \ {NULL} : k.tab[t].fd_lock = z <=> k.proc[z].p_fd = t /\ HoldsLock(k.proc[z])
      BY <2>1 DEF TabInv
    <3> QED BY <1>2, <2>2, <2>3, <3>1
  <2>5. Cover(l.tab[t]) /\ Peopled(l, t)
    BY <1>2
  <2> QED BY <1>1, <2>4, <2>5 DEF TabInv, Cover, Peopled
<1>4. \A z \in Procs \ {NULL} : Place(l, z)
  <2> TAKE z \in Procs \ {NULL}
  <2>1. CASE z # q
    <3>1. Place(k, z) /\ l.proc[z] = k.proc[z] /\ k.proc[z] \in Proc
      BY <1>1, <1>2, <2>1 DEF Rest, Mid, Sys
    <3>2. k.proc[z].p_fd \in Tables => l.tab[k.proc[z].p_fd].fd_ofiles = k.tab[k.proc[z].p_fd].fd_ofiles
      BY <1>2, <2>1
    <3>3. k.proc[z].new \in Files =>
            /\ l.file[k.proc[z].new].f_iflags = k.file[k.proc[z].new].f_iflags
            /\ l.file[k.proc[z].new].f_usecount = k.file[k.proc[z].new].f_usecount
      BY <1>2
    <3>4. k.proc[z].p_fd \in Tables \union {NULL} /\ k.proc[z].new \in Files \union {NULL}
      BY <3>1 DEF Proc
    <3> QED BY ONLY <3>1, <3>2, <3>3, <3>4 DEF Place
  <2> QED BY <2>1
<1>5. \A z, s \in Procs \ {NULL} :
        l.proc[z].pc = "making" /\ l.proc[s].pc = "making" /\ l.proc[z].new = l.proc[s].new => z = s
  <2>1. \A z \in Procs : l.proc[z].pc = "making" => l.proc[z] = k.proc[z]
    BY <1>2 DEF Outside
  <2>2. \A z, s \in Procs \ {NULL} :
          k.proc[z].pc = "making" /\ k.proc[s].pc = "making" /\ k.proc[z].new = k.proc[s].new => z = s
    BY DEF Rest, Mid
  <2> QED BY <2>1, <2>2
<1> QED BY <1>3, <1>4, <1>5 DEF Rest, Mid

\* The files, when no slot changes.
LEMMA SameFiles ==
  ASSUME NEW k, Rest(k), NEW q \in Procs, NEW l, Unnoticed(k, l, q), l.file = k.file,
         \A t \in Tables : l.tab[t].fd_ofiles = k.tab[t].fd_ofiles
  PROVE  \A f \in Files : FileInv(l, NULL, NULL, NULL, NULL, f)
<1> TAKE f \in Files
<1>1. FileInv(k, NULL, NULL, NULL, NULL, f) /\ NULL \notin Files
  BY DescrAssumption DEF Rest, Mid
<1>2. SlotsIn(l.tab, f) = SlotsIn(k.tab, f)
  BY SameSlots
<1>3. UsersBut(l, NULL, f) = UsersBut(k, NULL, f) /\ MakersBut(l, NULL, f) = MakersBut(k, NULL, f)
  BY <1>1 DEF Unnoticed, Outside, UsersBut, MakersBut
<1>4. (\E z \in Procs \ {NULL} : k.proc[z].pc \in {"closef", "fo_close"} /\ k.proc[z].new = f) =>
        \E z \in Procs \ {NULL} : l.proc[z].pc \in {"closef", "fo_close"} /\ l.proc[z].new = f
  BY DEF Unnoticed, Outside
<1> QED BY <1>1, <1>2, <1>3, <1>4 DEF FileInv

\* A table with an idle process in it.
LEMMA IdleTable ==
  ASSUME NEW k, Rest(k), NEW p \in Procs, k.proc[p].pc = "idle", NEW t, t = k.proc[p].p_fd
  PROVE  /\ t \in Tables /\ p \in Members(k, t) /\ Peopled(k, t) /\ Outside(k.proc[p])
         /\ \A q \in Procs : k.proc[q].p_fd = t => k.proc[q].call # "exit"
<1>1. /\ t \in Tables /\ k.proc[p].call = "none" /\ k.proc[p].fp = NULL
      /\ k.proc[p].new = NULL
  BY Idles
<1>2. TabInv(k, NULL, FALSE, t)
  BY <1>1 DEF Rest, Mid
<1>3. Peopled(k, t)
  BY <1>2 DEF TabInv, Peopled
<1>4. p \in Members(k, t)
  BY <1>1 DEF Members
<1>5. \A q \in Procs : k.proc[q].p_fd = t => k.proc[q].call # "exit"
  BY <1>1, <1>3 DEF Peopled
<1> QED BY <1>1, <1>3, <1>4, <1>5 DEF Outside

\* All tables.
LEMMA AllPeopled ==
  ASSUME NEW k, Rest(k), NEW t \in Tables
  PROVE  Peopled(k, t) /\ Cover(k.tab[t]) /\ k.tab[t] \in Tab
<1>1. TabInv(k, NULL, FALSE, t)
  BY DEF Rest, Mid
<1>2. k.tab[t] \in Tab
  BY DEF Rest, Mid, Sys
<1> QED BY <1>1, <1>2 DEF TabInv, Peopled, Cover

\* A process that does not exist.
LEMMA NoProcs ==
  ASSUME NEW k, Rest(k), NEW q \in Procs, k.proc[q].pc = "none"
  PROVE  Outside(k.proc[q]) /\ k.proc[q].p_fd = NULL
<1>1. Place(k, q)
  BY AtWork
<1> QED BY <1>1 DEF Place, Outside

\* Table t is replaced by r, with the same slots, and the record of q by s.
Replaced(k, l, t, r, q, s) ==
  /\ l \in Sys /\ l.file = k.file /\ l.tab[t] = r /\ \A a \in Tables \ {t} : l.tab[a] = k.tab[a]
  /\ l.proc[q] = s /\ \A z \in Procs \ {q} : l.proc[z] = k.proc[z]
  /\ r \in Tab /\ r.fd_ofiles = k.tab[t].fd_ofiles /\ r.fd_lock = k.tab[t].fd_lock /\ Cover(r)
  /\ Outside(k.proc[q]) /\ Outside(s)
  /\ k.proc[q].p_fd \in {t, NULL} /\ s.p_fd \in {t, NULL}

\* Such a change keeps the invariant.
LEMMA Replacement ==
  ASSUME NEW k, Rest(k), NEW t \in Tables, NEW q \in Procs, NEW r, NEW s, NEW l,
         Replaced(k, l, t, r, q, s), Peopled(l, t), Place(l, q)
  PROVE  Rest(l)
<1>1. /\ l \in Sys /\ l.file = k.file /\ l.tab[t] = r /\ \A a \in Tables \ {t} : l.tab[a] = k.tab[a]
      /\ l.proc[q] = s /\ \A z \in Procs \ {q} : l.proc[z] = k.proc[z]
      /\ r.fd_ofiles = k.tab[t].fd_ofiles /\ r.fd_lock = k.tab[t].fd_lock /\ Cover(r)
      /\ Outside(k.proc[q]) /\ Outside(s)
      /\ k.proc[q].p_fd \in {t, NULL} /\ s.p_fd \in {t, NULL} /\ NULL \notin Tables
  BY DescrAssumption DEF Replaced
<1>2. \A a \in Tables : /\ Cover(l.tab[a]) /\ l.tab[a].fd_lock = k.tab[a].fd_lock
                        /\ l.tab[a].fd_ofiles = k.tab[a].fd_ofiles
  BY <1>1, AllPeopled
<1>3. Unnoticed(k, l, q)
  BY <1>1, <1>2 DEF Unnoticed
<1>4. \A f \in Files : FileInv(l, NULL, NULL, NULL, NULL, f)
  BY <1>1, <1>2, <1>3, SameFiles
<1>5. \A a \in Tables : Peopled(l, a)
  <2> TAKE a \in Tables
  <2>1. CASE a # t
    <3>1. Peopled(k, a)
      BY AllPeopled
    <3>2. \A z \in Procs : /\ l.proc[z].p_fd = a <=> k.proc[z].p_fd = a
                           /\ l.proc[z].p_fd = a => l.proc[z] = k.proc[z]
      BY <1>1, <2>1
    <3>3. Members(l, a) = Members(k, a)
      BY <3>2 DEF Members
    <3> QED BY <1>1, <2>1, <3>1, <3>2, <3>3 DEF Peopled
  <2> QED BY <2>1
<1> QED BY ONLY Rest(k), <1>1, <1>3, <1>4, <1>5, q \in Procs, Place(l, q), Population

\* The same as a step.
LEMMA Replacing ==
  ASSUME Inv, NEW t \in Tables, NEW q \in Procs, NEW r \in Tab, NEW s \in Proc,
         tab' = [tab EXCEPT ![t] = r], proc' = [proc EXCEPT ![q] = s], file' = file,
         r.fd_ofiles = tab[t].fd_ofiles, r.fd_lock = tab[t].fd_lock, Cover(r),
         Outside(proc[q]), Outside(s), proc[q].p_fd \in {t, NULL}, s.p_fd \in {t, NULL}
  PROVE  Replaced(System, System', t, r, q, s)
<1>1. PICK k : k = System
  OBVIOUS
<1>2. k.proc = proc /\ k.tab = tab /\ k.file = file /\ k \in Sys
  <2>1. Rest(k) /\ k.proc = proc /\ k.tab = tab /\ k.file = file
    BY <1>1, Now
  <2> QED BY <2>1, AtWork
<1>3. PICK l : l = System'
  OBVIOUS
<1>4. l.tab = tab' /\ l.file = file' /\ l.proc = proc' /\ l = [tab |-> tab', file |-> file', proc |-> proc']
  BY <1>3 DEF System
<1>5. tab \in [Tables -> Tab] /\ file \in [Files -> File] /\ proc \in [Procs -> Proc]
  BY <1>2 DEF Sys
<1>6. /\ tab' \in [Tables -> Tab] /\ tab'[t] = r /\ \A a \in Tables \ {t} : tab'[a] = tab[a]
  BY <1>5
<1>7. /\ proc' \in [Procs -> Proc] /\ proc'[q] = s /\ \A z \in Procs \ {q} : proc'[z] = proc[z]
  BY <1>5
<1>8. l \in Sys
  BY <1>4, <1>5, <1>6, <1>7 DEF Sys
<1>9. Replaced(k, l, t, r, q, s)
  BY <1>2, <1>4, <1>6, <1>7, <1>8 DEF Replaced
<1> QED BY <1>1, <1>3, <1>9

\* fdshare: the new process is counted in fd_refcnt.
LEMMA StepShare ==
  ASSUME Inv, NEW p \in Procs, NEW q \in Procs, fdshare(p, q)
  PROVE  Inv'
<1>1. PICK k : k = System
  OBVIOUS
<1>2. Rest(k) /\ k.proc = proc /\ k.tab = tab /\ k.file = file
  BY <1>1, Now
<1>3. NULL \notin Tables /\ 0 \in Fds
  BY DescrAssumption
<1>4. PICK t : t = k.proc[p].p_fd
  OBVIOUS
<1>5. k.proc[p].pc = "idle" /\ k.proc[q].pc = "none"
  BY <1>2 DEF fdshare, Begins
<1>6. /\ t \in Tables /\ Peopled(k, t)
      /\ \A z \in Procs : k.proc[z].p_fd = t => k.proc[z].call # "exit"
  BY <1>2, <1>4, <1>5, IdleTable
<1>7. Outside(k.proc[q]) /\ k.proc[q].p_fd = NULL
  BY <1>2, <1>5, NoProcs
<1>8. PICK r : r = [k.tab[t] EXCEPT !.fd_refcnt = @ + 1]
  OBVIOUS
<1>9. k.tab[t] \in Tab /\ Cover(k.tab[t])
  BY <1>2, <1>6, AllPeopled
<1>10. /\ r \in Tab /\ r.fd_ofiles = k.tab[t].fd_ofiles /\ r.fd_lock = k.tab[t].fd_lock
       /\ r.fd_refcnt = k.tab[t].fd_refcnt + 1 /\ Cover(r)
  BY <1>8, <1>9 DEF Tab, Cover
<1>11. PICK s : s = Idle(t)
  OBVIOUS
<1>12. /\ s \in Proc /\ s.p_fd = t /\ s.call = "none" /\ s.pc = "idle"
       /\ s.fp = NULL /\ s.new = NULL /\ s.wchan = NULL
  BY <1>3, <1>6, <1>11 DEF Idle, Proc, Pcs
<1>13. /\ tab' = [tab EXCEPT ![t] = r] /\ file' = file /\ proc' = [proc EXCEPT ![q] = s]
       /\ program' = program
  BY <1>2, <1>4, <1>8, <1>11 DEF fdshare
<1>14. PICK l : l = System'
  OBVIOUS
<1>15. Replaced(k, l, t, r, q, s)
  <2>1. /\ Outside(proc[q]) /\ Outside(s) /\ proc[q].p_fd \in {t, NULL} /\ s.p_fd \in {t, NULL}
        /\ r.fd_ofiles = tab[t].fd_ofiles /\ r.fd_lock = tab[t].fd_lock
    BY <1>2, <1>7, <1>10, <1>12 DEF Outside
  <2> QED BY ONLY Inv, q \in Procs, <1>1, <1>6, <1>10, <1>12, <1>13, <1>14, <2>1, Replacing
<1>16. /\ l.tab[t] = r /\ l.proc[q] = s /\ \A z \in Procs \ {q} : l.proc[z] = k.proc[z]
  BY <1>15 DEF Replaced
<1>17. Place(l, q)
  BY <1>3, <1>6, <1>12, <1>16 DEF Place
<1>18. Peopled(l, t)
  <2>1. Members(l, t) = Members(k, t) \union {q} /\ q \notin Members(k, t)
    BY <1>3, <1>6, <1>7, <1>12, <1>16 DEF Members
  <2>2. IsFiniteSet(Members(k, t)) /\ Cardinality(Members(k, t)) \in Nat
    BY Counts
  <2>3. Cardinality(Members(l, t)) = Cardinality(Members(k, t)) + 1
    BY <2>1, <2>2, FS_AddElement
  <2>4. \A z \in Procs : l.proc[z].p_fd = t => l.proc[z].call # "exit"
    BY <1>6, <1>12, <1>16
  <2> QED BY <1>6, <1>10, <1>12, <1>16, <2>3, <2>4 DEF Peopled
<1>19. Rest(l)
  BY ONLY q \in Procs, <1>2, <1>6, <1>15, <1>17, <1>18, Replacement
<1>20. program' \in Programs
  BY <1>13 DEF Inv
<1> QED BY <1>14, <1>19, <1>20 DEF Inv

\* What NoProc is.
LEMMA NoProcIs ==
  /\ NoProc \in Proc /\ NoProc.p_fd = NULL /\ NoProc.pc = "none" /\ NoProc.call = "none"
  /\ NoProc.fp = NULL /\ NoProc.new = NULL /\ NoProc.wchan = NULL
<1>1. 0 \in Fds
  BY DescrAssumption
<1> QED BY <1>1 DEF NoProc, Idle, Proc, Pcs

\* exit: the process is no longer counted, and the last one goes on with fdfree.
LEMMA StepExit ==
  ASSUME Inv, NEW p \in Procs, exit(p)
  PROVE  Inv'
<1>1. PICK k : k = System
  OBVIOUS
<1>2. Rest(k) /\ k.proc = proc /\ k.tab = tab /\ k.file = file
  BY <1>1, Now
<1>3. NULL \notin Tables /\ 0 \in Fds
  BY DescrAssumption
<1>4. PICK t : t = k.proc[p].p_fd
  OBVIOUS
<1>5. k.proc[p].pc = "idle"
  BY <1>2 DEF exit, Begins
<1>6. /\ t \in Tables /\ Peopled(k, t) /\ p \in Members(k, t) /\ Outside(k.proc[p])
      /\ \A z \in Procs : k.proc[z].p_fd = t => k.proc[z].call # "exit"
  BY <1>2, <1>4, <1>5, IdleTable
<1>7. k.proc[p] \in Proc /\ k.proc[p].wchan = NULL
  BY <1>2, <1>5, Idles
<1>8. PICK r : r = [k.tab[t] EXCEPT !.fd_refcnt = @ - 1]
  OBVIOUS
<1>9. k.tab[t] \in Tab /\ Cover(k.tab[t])
  BY <1>2, <1>6, AllPeopled
<1>10. /\ IsFiniteSet(Members(k, t)) /\ Cardinality(Members(k, t)) \in Nat
       /\ Cardinality(Members(k, t) \ {p}) = k.tab[t].fd_refcnt - 1
       /\ Cardinality(Members(k, t) \ {p}) \in Nat /\ IsFiniteSet(Members(k, t) \ {p})
  <2>1. IsFiniteSet(Members(k, t)) /\ Cardinality(Members(k, t)) \in Nat
    BY Counts
  <2>2. Cardinality(Members(k, t)) = k.tab[t].fd_refcnt
    BY <1>6 DEF Peopled
  <2> QED BY <1>6, <2>1, <2>2, FS_RemoveElement, FS_CardinalityType
<1>11. /\ r \in Tab /\ r.fd_ofiles = k.tab[t].fd_ofiles /\ r.fd_lock = k.tab[t].fd_lock
       /\ r.fd_refcnt = k.tab[t].fd_refcnt - 1 /\ Cover(r)
  BY <1>8, <1>9, <1>10 DEF Tab, Cover
<1>12. PICK s : s = IF k.tab[t].fd_refcnt > 1 THEN NoProc
                    ELSE [k.proc[p] EXCEPT !.pc = "fdfree", !.call = "exit"]
  OBVIOUS
<1>13. /\ s \in Proc /\ Outside(s) /\ s.p_fd \in {t, NULL} /\ s.wchan = NULL
       /\ k.tab[t].fd_refcnt > 1 => s.p_fd = NULL /\ s.pc = "none" /\ s.call = "none"
       /\ ~(k.tab[t].fd_refcnt > 1) => s.p_fd = t /\ s.pc = "fdfree" /\ s.call = "exit"
  <2>1. CASE k.tab[t].fd_refcnt > 1
    BY <1>12, <2>1, NoProcIs DEF Outside
  <2>2. CASE ~(k.tab[t].fd_refcnt > 1)
    BY <1>4, <1>6, <1>7, <1>12, <2>2 DEF Outside, Proc, Pcs, Calls
  <2> QED BY <2>1, <2>2
<1>14. /\ tab' = [tab EXCEPT ![t] = r] /\ file' = file /\ proc' = [proc EXCEPT ![p] = s]
       /\ program' = program
  BY <1>2, <1>4, <1>8, <1>12 DEF exit
<1>15. PICK l : l = System'
  OBVIOUS
<1>16. Replaced(k, l, t, r, p, s)
  <2>1. /\ Outside(proc[p]) /\ Outside(s) /\ proc[p].p_fd \in {t, NULL} /\ s.p_fd \in {t, NULL}
        /\ r.fd_ofiles = tab[t].fd_ofiles /\ r.fd_lock = tab[t].fd_lock
    BY <1>2, <1>4, <1>6, <1>11, <1>13
  <2> QED BY ONLY Inv, p \in Procs, <1>1, <1>6, <1>11, <1>13, <1>14, <1>15, <2>1, Replacing
<1>17. /\ l.tab[t] = r /\ l.proc[p] = s /\ \A z \in Procs \ {p} : l.proc[z] = k.proc[z]
  BY <1>16 DEF Replaced
<1>18. Place(l, p)
  BY <1>3, <1>6, <1>13, <1>17 DEF Place, Outside
<1>19. Peopled(l, t)
  <2>1. Members(l, t) = Members(k, t) \ {p}
    BY <1>3, <1>6, <1>13, <1>17 DEF Members
  <2>2. CASE k.tab[t].fd_refcnt > 1
    <3>1. Members(l, t) # {}
      BY <1>9, <1>10, <2>1, <2>2, FS_EmptySet DEF Tab
    <3>2. \E z \in Procs : l.proc[z].p_fd = t
      BY <3>1 DEF Members
    <3>3. \A z \in Procs : l.proc[z].p_fd = t => l.proc[z].call # "exit"
      BY <1>3, <1>6, <1>13, <1>17, <2>2
    <3> QED BY <1>10, <1>11, <1>17, <2>1, <3>2, <3>3 DEF Peopled
  <2>3. CASE ~(k.tab[t].fd_refcnt > 1)
    <3>1. Members(k, t) \ {p} = {}
      BY <1>9, <1>10, <2>3, FS_EmptySet DEF Tab
    <3>2. \A z \in Procs : l.proc[z].p_fd = t => z = p
      BY <1>6, <1>17, <3>1 DEF Members
    <3>3. l.proc[p].p_fd = t
      BY <1>13, <1>17, <2>3
    <3> QED BY <1>10, <1>11, <1>17, <2>1, <3>2, <3>3 DEF Peopled
  <2> QED BY <2>2, <2>3
<1>20. Rest(l)
  BY ONLY p \in Procs, <1>2, <1>6, <1>16, <1>18, <1>19, Replacement
<1>21. program' \in Programs
  BY <1>14 DEF Inv
<1> QED BY <1>15, <1>20, <1>21 DEF Inv
\* What EmptyTable is.
LEMMA EmptyTableIs ==
  /\ EmptyTable \in Tab /\ Cover(EmptyTable) /\ EmptyTable.fd_lock = NULL
  /\ EmptyTable.fd_ofiles = [i \in Fds |-> NULL] /\ EmptyTable.fd_refcnt = 0
<1>1. 0 \in Fds
  BY DescrAssumption
<1> QED BY <1>1 DEF EmptyTable, Tab, Cover

\* What the loop of fdfree has still to close.
OpenIn(k, t) == {i \in Fds : i <= k.tab[t].fd_lastfile /\ k.tab[t].fd_ofiles[i] # NULL}

\* p closes file f, in slot i of table t, in a round of that loop.
Round(k, p, t, i, f) ==
  /\ t = k.proc[p].p_fd /\ OpenIn(k, t) # {} /\ i = Min(OpenIn(k, t))
  /\ f = k.tab[t].fd_ofiles[i]

\* Such a round takes the file out of its slot and closes it.
LEMMA FdfreeIs ==
  ASSUME NEW p, fdfree(p), NEW t, NEW i, NEW f, Round(System, p, t, i, f)
  PROVE  Becomes(closef(FREF(WithTable(System, t, Fill(System.tab[t], i, NULL)), f), p, f))
<1>1. PICK k : k = System
  OBVIOUS
<1>2. k.tab = tab /\ k.file = file /\ k.proc = proc
  BY <1>1 DEF System
<1>3. PICK l : l = WithTable(k, t, Fill(k.tab[t], i, NULL))
  OBVIOUS
<1>4. l = [k EXCEPT !.tab[t].fd_ofiles[i] = NULL]
  BY ONLY <1>3 DEF WithTable, Fill
<1>5. /\ t = k.proc[p].p_fd /\ OpenIn(k, t) # {} /\ i = Min(OpenIn(k, t))
      /\ f = k.tab[t].fd_ofiles[i]
  BY <1>1 DEF Round
<1>6. Becomes(closef(FREF([k EXCEPT !.tab[t].fd_ofiles[i] = NULL], f), p, f))
  <2> DEFINE T == proc[p].p_fd
             O == {j \in Fds : j <= tab[T].fd_lastfile /\ tab[T].fd_ofiles[j] # NULL}
             I == Min(O)
             F == tab[T].fd_ofiles[I]
  <2>1. T = t /\ O = OpenIn(k, t)
    BY ONLY <1>2, <1>5 DEF OpenIn
  <2>2. I = i /\ F = f
    BY ONLY <1>2, <1>5, <2>1
  <2>3. Becomes(closef(FREF([System EXCEPT !.tab[T].fd_ofiles[I] = NULL], F), p, F))
    <3>1. O # {}
      BY ONLY <1>5, <2>1
    <3> QED BY ONLY fdfree(p), <3>1 DEF fdfree
  <2> HIDE DEF T, O, I, F
  <2> QED BY ONLY <1>1, <2>1, <2>2, <2>3
<1> QED BY ONLY <1>1, <1>3, <1>4, <1>6

\* fdfree closes the next file, or gives up the table when none is left.
LEMMA StepFdfree ==
  ASSUME Inv, NEW p \in Procs, fdfree(p)
  PROVE  Inv'
<1>1. PICK k : k = System
  OBVIOUS
<1>2. Rest(k) /\ k.proc = proc /\ k.tab = tab /\ k.file = file
  BY <1>1, Now
<1>3. NULL \notin Tables /\ NULL \notin Procs /\ NULL \notin Files /\ Fds \subseteq Nat /\ FALSE \in BOOLEAN
  BY DescrAssumption
<1>4. PICK t : t = k.proc[p].p_fd
  OBVIOUS
<1>5. k.proc[p].pc = "fdfree"
  BY <1>2 DEF fdfree
<1>6. /\ k \in Sys /\ k.proc[p] \in Proc /\ t \in Tables /\ k.proc[p].call = "exit"
      /\ k.proc[p].fp = NULL /\ k.proc[p].new = NULL /\ k.proc[p].wchan = NULL
  <2>1. k \in Sys /\ Place(k, p) /\ k.proc[p] \in Proc
    BY <1>2, AtWork
  <2> QED BY <1>4, <1>5, <2>1 DEF Place, Proc
<1>7. k.tab[t] \in Tab /\ Cover(k.tab[t]) /\ Peopled(k, t)
  BY <1>2, <1>6, AllPeopled
<1>8. \A z \in Procs : k.proc[z].p_fd = t => z = p
  BY <1>4, <1>6, <1>7 DEF Peopled
<1>9. PICK open : open = {i \in Fds : i <= k.tab[t].fd_lastfile /\ k.tab[t].fd_ofiles[i] # NULL}
  OBVIOUS
<1>10. CASE open = {}
  <2>1. PICK l : l = [System EXCEPT !.tab[t] = EmptyTable, !.proc[p] = NoProc]
    OBVIOUS
  <2>2. Becomes(l)
    BY <1>2, <1>4, <1>9, <1>10, <2>1 DEF fdfree
  <2>3. Replaced(k, l, t, EmptyTable, p, NoProc)
    <3>1. k = [tab |-> k.tab, file |-> k.file, proc |-> k.proc]
      BY <1>6 DEF Sys
    <3>2. PICK tb : tb = [k.tab EXCEPT ![t] = EmptyTable]
      OBVIOUS
    <3>3. PICK pr : pr = [k.proc EXCEPT ![p] = NoProc]
      OBVIOUS
    <3>4. l = [tab |-> tb, file |-> k.file, proc |-> pr]
      BY ONLY <1>1, <2>1, <3>1, <3>2, <3>3
    <3>5. k.tab \in [Tables -> Tab] /\ k.file \in [Files -> File] /\ k.proc \in [Procs -> Proc]
      BY <1>6 DEF Sys
    <3>6. /\ tb \in [Tables -> Tab] /\ tb[t] = EmptyTable /\ \A a \in Tables \ {t} : tb[a] = k.tab[a]
      BY <1>6, <3>2, <3>5, EmptyTableIs
    <3>7. /\ pr \in [Procs -> Proc] /\ pr[p] = NoProc /\ \A z \in Procs \ {p} : pr[z] = k.proc[z]
      BY <3>3, <3>5, NoProcIs
    <3>8. l \in Sys /\ l.tab = tb /\ l.file = k.file /\ l.proc = pr
      BY <3>4, <3>5, <3>6, <3>7 DEF Sys
    <3>9. EmptyTable.fd_ofiles = k.tab[t].fd_ofiles
      <4>1. \A i \in Fds : k.tab[t].fd_ofiles[i] = NULL
        BY <1>7, <1>9, <1>10 DEF Cover
      <4>2. k.tab[t].fd_ofiles \in [Fds -> Files \union {NULL}]
        BY <1>7 DEF Tab
      <4> QED BY <4>1, <4>2, EmptyTableIs
    <3>10. EmptyTable.fd_lock = k.tab[t].fd_lock
      <4>1. TabInv(k, NULL, FALSE, t)
        BY <1>2, <1>6 DEF Rest, Mid
      <4>2. \A z \in Procs : k.tab[t].fd_lock # z
        BY <1>3, <1>5, <1>8, <4>1 DEF TabInv, HoldsLock
      <4>3. k.tab[t].fd_lock \in Procs \union {NULL}
        BY <1>7 DEF Tab
      <4> QED BY <4>2, <4>3, EmptyTableIs
    <3> QED BY <1>4, <1>5, <1>6, <3>6, <3>7, <3>8, <3>9, <3>10, EmptyTableIs, NoProcIs
            DEF Replaced, Outside
  <2>4. /\ l.tab[t] = EmptyTable /\ l.proc[p] = NoProc
        /\ \A z \in Procs \ {p} : l.proc[z] = k.proc[z]
    BY <2>3 DEF Replaced
  <2>5. Place(l, p)
    BY <1>3, <2>4, NoProcIs DEF Place
  <2>6. Peopled(l, t)
    <3>1. \A z \in Procs : l.proc[z].p_fd # t
      BY <1>3, <1>6, <1>8, <2>4, NoProcIs
    <3>2. Members(l, t) = {}
      BY <3>1 DEF Members
    <3> QED BY <2>4, <3>1, <3>2, EmptyTableIs, FS_EmptySet DEF Peopled
  <2>7. Rest(l)
    BY ONLY p \in Procs, <1>2, <1>6, <2>3, <2>5, <2>6, Replacement
  <2> QED BY <2>2, <2>7, Became
<1>11. CASE open # {}
  <2>1. PICK i : i = Min(open)
    OBVIOUS
  <2>2. PICK f : f = k.tab[t].fd_ofiles[i]
    OBVIOUS
  <2>3. i \in Fds /\ f # NULL
    <3>1. open \in SUBSET Nat
      BY <1>3, <1>9
    <3>2. i \in open
      BY <1>11, <2>1, <3>1, HasMin
    <3> QED BY <1>9, <2>2, <3>2
  <2>4. Mid(k, p, FALSE, NULL, NULL, NULL)
    <3>1. /\ (FALSE <=> HoldsLock(k.proc[p]))
          /\ NULL = (IF k.proc[p].call = "flock" THEN NULL ELSE k.proc[p].fp)
          /\ NULL = k.proc[p].new
      BY <1>5, <1>6 DEF HoldsLock
    <3> QED BY <1>2, <1>3, <3>1, Enter
  <2>5. f \in Files
    BY <1>6, <2>2, <2>3, <2>4, SlotOpen
  <2>6. PICK r : r = Fill(k.tab[t], i, NULL)
    OBVIOUS
  <2>7. Replaces(r, k.tab[t], i, NULL)
    <3>1. /\ r \in Tab /\ r.fd_ofiles = [k.tab[t].fd_ofiles EXCEPT ![i] = NULL]
          /\ r.fd_lock = k.tab[t].fd_lock /\ r.fd_refcnt = k.tab[t].fd_refcnt
          /\ r.fd_map = k.tab[t].fd_map /\ r.fd_lastfile = k.tab[t].fd_lastfile
          /\ r.fd_ofiles[i] = NULL /\ \A j \in Fds \ {i} : r.fd_ofiles[j] = k.tab[t].fd_ofiles[j]
      BY <1>7, <2>3, <2>6, Fills
    <3>2. Cover(r)
      BY <1>7, <3>1 DEF Cover
    <3> QED BY <3>1, <3>2 DEF Replaces
  <2>8. PICK l : l = WithTable(k, t, r)
    OBVIOUS
  <2>9. InCall(k, p, FALSE, NULL)
    BY <1>4, <1>6 DEF InCall
  <2>10. Rest(closef(FREF(l, f), p, f))
    <3>1. /\ k.proc[p].p_fd = t /\ (FALSE \/ k.proc[p].call = "exit")
          /\ (k.proc[p].call # "exit" => FALSE) /\ (k.proc[p].call = "exit" => k.proc[p].new = NULL)
          /\ p \in Procs /\ FALSE \in BOOLEAN /\ t \in Tables /\ i \in Fds
      BY <1>4, <1>6, <2>3
    <3> QED BY ONLY <2>2, <2>4, <2>5, <2>7, <2>8, <2>9, <3>1, Releases
  <2>11. Becomes(closef(FREF(l, f), p, f))
    <3>1. Round(k, p, t, i, f)
      <4>1. open = OpenIn(k, t)
        BY ONLY <1>9 DEF OpenIn
      <4> QED BY ONLY <1>4, <1>11, <2>1, <2>2, <4>1 DEF Round
    <3> QED BY ONLY fdfree(p), <1>1, <2>6, <2>8, <3>1, FdfreeIs
  <2> QED BY <2>10, <2>11, Became
<1> QED BY <1>10, <1>11
-----------------------------------------------------------------------------
\* What fdcopy makes of a table.
LEMMA Copies ==
  ASSUME NEW r \in Tab, Cover(r)
  PROVE  /\ CopyOf(r) \in Tab /\ Cover(CopyOf(r))
         /\ CopyOf(r).fd_lock = r.fd_lock /\ CopyOf(r).fd_refcnt = 1
         /\ \A i \in Fds : CopyOf(r).fd_ofiles[i] = IF i \in Uncopied(r) THEN NULL ELSE r.fd_ofiles[i]
<1>1. PICK out : out = Uncopied(r)
  OBVIOUS
<1>2. out \subseteq Fds /\ Fds \subseteq Nat /\ r.fd_freefile \in Fds /\ r.fd_lastfile \in Fds
  BY <1>1, DescrAssumption DEF Uncopied, Tab
<1>3. PICK ff : ff = Min(out \union {r.fd_freefile})
  OBVIOUS
<1>4. ff \in Fds
  <2>1. out \union {r.fd_freefile} \in SUBSET Nat /\ out \union {r.fd_freefile} # {}
    BY <1>2
  <2>2. ff \in out \union {r.fd_freefile}
    BY ONLY <1>3, <2>1, HasMin
  <2> QED BY <1>2, <2>2
<1>5. PICK of : of = [i \in Fds |-> IF i \in out THEN NULL ELSE r.fd_ofiles[i]]
  OBVIOUS
<1>6. of \in [Fds -> Files \union {NULL}]
  BY <1>5 DEF Tab
<1>7. PICK copy : copy = [r EXCEPT !.fd_ofiles = of, !.fd_map = r.fd_map \ out,
                                   !.fd_freefile = ff, !.fd_refcnt = 1]
  OBVIOUS
<1>8. /\ copy \in Tab /\ copy.fd_ofiles = of /\ copy.fd_map = r.fd_map \ out
      /\ copy.fd_freefile = ff /\ copy.fd_refcnt = 1 /\ copy.fd_lastfile = r.fd_lastfile
      /\ copy.fd_lock = r.fd_lock
  BY <1>2, <1>4, <1>6, <1>7 DEF Tab
<1>9. PICK c : c = CopyOf(r)
  OBVIOUS
<1>10. c = IF r.fd_lastfile \in out
           THEN [copy EXCEPT !.fd_lastfile = find_last_set(copy, copy.fd_lastfile)] ELSE copy
  <2>1. copy = [r EXCEPT !.fd_ofiles = [i \in Fds |-> IF i \in out THEN NULL ELSE @[i]],
                        !.fd_map = @ \ out,
                        !.fd_freefile = Min(out \union {@}),
                        !.fd_refcnt = 1]
    BY ONLY <1>3, <1>5, <1>7
  <2> QED BY ONLY <1>1, <1>9, <2>1 DEF CopyOf
<1>11. \A i \in Fds : of[i] # NULL => i \in copy.fd_map /\ i <= r.fd_lastfile /\ i \notin out
  BY <1>5, <1>8 DEF Cover
<1>12. CASE r.fd_lastfile \in out
  <2>1. PICK last : last = find_last_set(copy, copy.fd_lastfile)
    OBVIOUS
  <2>2. /\ last \in Fds
        /\ \A j \in {j \in Fds : j < r.fd_lastfile /\ copy.fd_ofiles[j] # NULL} : j <= last
    BY <1>2, <1>8, <2>1, LastSet
  <2>3. /\ c \in Tab /\ c.fd_ofiles = of /\ c.fd_map = copy.fd_map /\ c.fd_refcnt = 1
        /\ c.fd_lastfile = last /\ c.fd_lock = r.fd_lock
    BY <1>8, <1>10, <1>12, <2>1, <2>2 DEF Tab
  <2>4. \A i \in Fds : of[i] # NULL => i < r.fd_lastfile
    <3> SUFFICES ASSUME NEW i \in Fds, of[i] # NULL PROVE i < r.fd_lastfile
      OBVIOUS
    <3>1. i <= r.fd_lastfile /\ i # r.fd_lastfile
      BY ONLY <1>11, <1>12, i \in Fds, of[i] # NULL
    <3>2. i \in Nat /\ r.fd_lastfile \in Nat
      BY ONLY <1>2, i \in Fds
    <3> QED BY ONLY <3>1, <3>2
  <2>5. Cover(c)
    BY <1>8, <1>11, <2>2, <2>3, <2>4 DEF Cover
  <2> QED BY <1>1, <1>5, <1>9, <2>3, <2>5
<1>13. CASE r.fd_lastfile \notin out
  <2>1. c = copy
    BY <1>10, <1>13
  <2>2. Cover(c)
    BY <1>8, <1>11, <2>1 DEF Cover
  <2> QED BY <1>1, <1>5, <1>8, <1>9, <2>1, <2>2
<1> QED BY <1>12, <1>13

\* Table t, without file f, becomes a copy with f in the slots of S.
Pasted(tb, tb2, t, S, f) ==
  /\ \A a \in Tables \ {t} : tb2[a] = tb[a]
  /\ \A i \in Fds : tb[t].fd_ofiles[i] # f
  /\ \A i \in Fds : tb2[t].fd_ofiles[i] = f <=> i \in S

\* Each copied slot adds one to the slots of its file.
LEMMA CopiedSlots ==
  ASSUME NEW tb, NEW tb2, NEW t \in Tables, NEW S \in SUBSET Fds, NEW f,
         Pasted(tb, tb2, t, S, f)
  PROVE  /\ Cardinality(SlotsIn(tb2, f)) = Cardinality(SlotsIn(tb, f)) + Cardinality(S)
         /\ Cardinality(S) \in Nat /\ Cardinality(SlotsIn(tb, f)) \in Nat
<1>1. IsFiniteSet(Tables \X Fds) /\ IsFiniteSet(S) /\ Cardinality(S) \in Nat
  BY DescrAssumption, FS_Product, FS_Subset, FS_CardinalityType
<1>2. IsFiniteSet(SlotsIn(tb, f)) /\ Cardinality(SlotsIn(tb, f)) \in Nat
  <2>1. SlotsIn(tb, f) \subseteq Tables \X Fds
    BY DEF SlotsIn
  <2> QED BY <1>1, <2>1, FS_Subset, FS_CardinalityType
<1>3. IsFiniteSet({t} \X S) /\ Cardinality({t} \X S) = Cardinality(S)
  <2>1. IsFiniteSet({t}) /\ Cardinality({t}) = 1
    BY FS_Singleton
  <2>2. IsFiniteSet({t} \X S) /\ Cardinality({t} \X S) = 1 * Cardinality(S)
    BY <1>1, <2>1, FS_Product
  <2> QED BY <1>1, <2>2
<1>4. SlotsIn(tb2, f) = SlotsIn(tb, f) \union ({t} \X S)
  BY DEF SlotsIn, Pasted
<1>5. SlotsIn(tb, f) \cap ({t} \X S) = {}
  BY DEF SlotsIn, Pasted
<1>6. Cardinality(SlotsIn(tb2, f)) = Cardinality(SlotsIn(tb, f)) + Cardinality({t} \X S) - 0
  BY <1>2, <1>3, <1>4, <1>5, FS_Union, FS_EmptySet
<1> QED BY <1>1, <1>2, <1>3, <1>6

\* fork: fdcopy counts every slot that it copies.
LEMMA StepFork ==
  ASSUME Inv, NEW p \in Procs, NEW q \in Procs, fork(p, q), LockFree(p)
  PROVE  Inv'
<1>1. PICK k : k = System
  OBVIOUS
<1>2. Rest(k) /\ k.proc = proc /\ k.tab = tab /\ k.file = file
  BY <1>1, Now
<1>3. k \in Sys /\ NULL \notin Tables /\ NULL \notin Files /\ NULL \notin Procs /\ 0 \in Fds
  BY <1>2, AtWork, DescrAssumption
<1>4. PICK u : u = proc[p].p_fd
  OBVIOUS
<1>5. proc[p].pc = "idle" /\ proc[q].pc = "none"
  BY DEF fork, Begins
<1>6. u \in Tables
  BY <1>2, <1>4, <1>5, IdleTable
<1>7. Outside(k.proc[q]) /\ k.proc[q].p_fd = NULL
  BY <1>2, <1>5, NoProcs
<1>8. PICK old : old = tab[u]
  OBVIOUS
<1>9. old \in Tab /\ Cover(old) /\ old.fd_lock = NULL
  BY <1>2, <1>4, <1>6, <1>8, AllPeopled DEF LockFree
<1>10. PICK c : c = CopyOf(old)
  OBVIOUS
<1>11. /\ c \in Tab /\ Cover(c) /\ c.fd_lock = NULL /\ c.fd_refcnt = 1
       /\ \A i \in Fds : c.fd_ofiles[i] = IF i \in Uncopied(old) THEN NULL ELSE old.fd_ofiles[i]
  BY <1>9, <1>10, Copies
<1>12. PICK t \in FreeTables :
         /\ tab' = [tab EXCEPT ![t] = c]
         /\ file' = [f \in Files |->
                       [file[f] EXCEPT !.f_count = @ + Cardinality(Copied(old, f))]]
         /\ proc' = [proc EXCEPT ![q] = Idle(t)] /\ program' = program
  BY <1>4, <1>8, <1>10 DEF fork, fdcopy
<1>13. t \in Tables /\ \A z \in Procs : k.proc[z].p_fd # t
  BY <1>2 DEF FreeTables
<1>14. (\A i \in Fds : k.tab[t].fd_ofiles[i] = NULL) /\ k.tab[t].fd_lock = NULL
  <2>1. TabInv(k, NULL, FALSE, t) /\ k.tab[t] \in Tab
    BY <1>2, <1>13, AllPeopled DEF Rest, Mid
  <2> QED BY <1>3, <1>13, <2>1 DEF TabInv, Tab
<1>15. PICK s : s = Idle(t)
  OBVIOUS
<1>16. /\ s \in Proc /\ s.p_fd = t /\ s.call = "none" /\ s.pc = "idle"
       /\ s.fp = NULL /\ s.new = NULL /\ s.wchan = NULL
  BY <1>3, <1>13, <1>15 DEF Idle, Proc, Pcs
<1>17. PICK l : l = System'
  OBVIOUS
<1>18. l.tab = tab' /\ l.file = file' /\ l.proc = proc' /\ l = [tab |-> tab', file |-> file', proc |-> proc']
  BY <1>17 DEF System
<1>19. tab \in [Tables -> Tab] /\ file \in [Files -> File] /\ proc \in [Procs -> Proc]
  BY <1>2, <1>3 DEF Sys
<1>20. /\ tab' \in [Tables -> Tab] /\ tab'[t] = c /\ \A a \in Tables \ {t} : tab'[a] = tab[a]
  BY <1>11, <1>12, <1>13, <1>19
<1>21. /\ proc' \in [Procs -> Proc] /\ proc'[q] = s /\ \A z \in Procs \ {q} : proc'[z] = proc[z]
  BY <1>12, <1>15, <1>16, <1>19
<1>22. \A f \in Files : Copied(old, f) \in SUBSET Fds /\ Cardinality(Copied(old, f)) \in Nat
  <2>1. IsFiniteSet(Fds)
    BY DescrAssumption
  <2>2. \A f \in Files : Copied(old, f) \in SUBSET Fds
    BY DEF Copied
  <2> QED BY <2>1, <2>2, FS_Subset, FS_CardinalityType
<1>23. /\ file' \in [Files -> File]
       /\ \A f \in Files :
            /\ file'[f].open = file[f].open /\ file'[f].f_iflags = file[f].f_iflags
            /\ file'[f].f_usecount = file[f].f_usecount
            /\ file'[f].f_count = file[f].f_count + Cardinality(Copied(old, f))
  <2>1. \A f \in Files : file'[f] = [file[f] EXCEPT !.f_count = @ + Cardinality(Copied(old, f))]
    BY <1>12
  <2>2. \A f \in Files : file[f] \in File
    BY <1>19
  <2>3. \A f \in Files :
            /\ file'[f].open = file[f].open /\ file'[f].f_iflags = file[f].f_iflags
            /\ file'[f].f_usecount = file[f].f_usecount /\ file'[f] \in File
            /\ file'[f].f_count = file[f].f_count + Cardinality(Copied(old, f))
    <3> TAKE f \in Files
    <3>1. PICK n : n = Cardinality(Copied(old, f))
      OBVIOUS
    <3>2. n \in Nat /\ file[f] \in File /\ file'[f] = [file[f] EXCEPT !.f_count = @ + n]
      BY <1>22, <2>1, <2>2, <3>1
    <3>3. /\ file'[f].open = file[f].open /\ file'[f].f_iflags = file[f].f_iflags
          /\ file'[f].f_usecount = file[f].f_usecount /\ file'[f] \in File
          /\ file'[f].f_count = file[f].f_count + n
      BY ONLY <3>2 DEF File
    <3> QED BY ONLY <3>1, <3>3
  <2>4. file' = [f \in Files |-> file'[f]]
    BY <1>12
  <2> QED BY <2>3, <2>4
<1>24. /\ l \in Sys /\ l.tab[t] = c /\ \A a \in Tables \ {t} : l.tab[a] = k.tab[a]
       /\ l.proc[q] = s /\ \A z \in Procs \ {q} : l.proc[z] = k.proc[z]
  <2>1. l \in Sys
    BY <1>18, <1>20, <1>21, <1>23 DEF Sys
  <2> QED BY <1>2, <1>18, <1>20, <1>21, <2>1
<1>25. \A f \in Files :
          /\ l.file[f].open = k.file[f].open /\ l.file[f].f_iflags = k.file[f].f_iflags
          /\ l.file[f].f_usecount = k.file[f].f_usecount
          /\ l.file[f].f_count = k.file[f].f_count + Cardinality(Copied(old, f))
  BY <1>2, <1>18, <1>23
<1>26. Unnoticed(k, l, q)
  <2>1. \A a \in Tables : /\ Cover(l.tab[a]) /\ l.tab[a].fd_lock = k.tab[a].fd_lock
                          /\ (a # t => l.tab[a].fd_ofiles = k.tab[a].fd_ofiles)
    BY <1>2, <1>11, <1>14, <1>24, AllPeopled
  <2>2. Outside(s)
    BY <1>16 DEF Outside
  <2> QED BY <1>7, <1>13, <1>24, <1>25, <2>1, <2>2 DEF Unnoticed
<1>27. Place(l, q)
  BY <1>3, <1>13, <1>16, <1>24 DEF Place
<1>28. \A a \in Tables : Peopled(l, a)
  <2> TAKE a \in Tables
  <2>1. CASE a # t
    <3>1. Peopled(k, a)
      BY <1>2, AllPeopled
    <3>2. \A z \in Procs : /\ l.proc[z].p_fd = a <=> k.proc[z].p_fd = a
                           /\ l.proc[z].p_fd = a => l.proc[z] = k.proc[z]
      BY <1>3, <1>7, <1>16, <1>24, <2>1
    <3>3. Members(l, a) = Members(k, a)
      BY <3>2 DEF Members
    <3> QED BY <1>24, <2>1, <3>1, <3>2, <3>3 DEF Peopled
  <2>2. CASE a = t
    <3>1. \A z \in Procs : l.proc[z].p_fd = t <=> z = q
      BY <1>13, <1>16, <1>24
    <3>2. Members(l, t) = {q}
      BY <1>16, <1>24, <3>1 DEF Members
    <3>3. Cardinality(Members(l, t)) = 1
      BY <3>2, FS_Singleton
    <3> QED BY <1>11, <1>24, <2>2, <3>1, <3>3 DEF Peopled
  <2> QED BY <2>1, <2>2
<1>29. \A f \in Files : FileInv(l, NULL, NULL, NULL, NULL, f)
  <2> TAKE f \in Files
  <2>1. FileInv(k, NULL, NULL, NULL, NULL, f)
    BY <1>2 DEF Rest, Mid
  <2>2. UsersBut(l, NULL, f) = UsersBut(k, NULL, f) /\ MakersBut(l, NULL, f) = MakersBut(k, NULL, f)
    BY <1>3, <1>26 DEF Unnoticed, Outside, UsersBut, MakersBut
  <2>3. (\E z \in Procs \ {NULL} : k.proc[z].pc \in {"closef", "fo_close"} /\ k.proc[z].new = f) =>
          \E z \in Procs \ {NULL} : l.proc[z].pc \in {"closef", "fo_close"} /\ l.proc[z].new = f
    BY <1>26 DEF Unnoticed, Outside
  <2>4. \A i \in Fds : l.tab[t].fd_ofiles[i] = f <=> i \in Copied(old, f)
    BY <1>3, <1>9, <1>11, <1>24 DEF Copied, Cover
  <2>5. /\ Cardinality(SlotsIn(l.tab, f)) = Cardinality(SlotsIn(k.tab, f)) + Cardinality(Copied(old, f))
        /\ Cardinality(SlotsIn(k.tab, f)) \in Nat /\ Cardinality(Copied(old, f)) \in Nat
    <3>1. \A i \in Fds : k.tab[t].fd_ofiles[i] # f
      BY <1>3, <1>14
    <3>2. PICK S : S = Copied(old, f)
      OBVIOUS
    <3>3. S \in SUBSET Fds /\ \A i \in Fds : l.tab[t].fd_ofiles[i] = f <=> i \in S
      BY ONLY <1>22, <2>4, <3>2, f \in Files
    <3>4. t \in Tables /\ \A a \in Tables \ {t} : l.tab[a] = k.tab[a]
      BY ONLY <1>13, <1>24
    <3>5. PICK tb : tb = k.tab
      OBVIOUS
    <3>6. PICK tb2 : tb2 = l.tab
      OBVIOUS
    <3>7. Cardinality(SlotsIn(tb2, f)) = Cardinality(SlotsIn(tb, f)) + Cardinality(S)
         /\ Cardinality(S) \in Nat /\ Cardinality(SlotsIn(tb, f)) \in Nat
      <4>1. Pasted(tb, tb2, t, S, f)
        BY ONLY <3>1, <3>3, <3>4, <3>5, <3>6 DEF Pasted
      <4> QED BY ONLY <3>3, <3>4, <4>1, CopiedSlots
    <3> QED BY ONLY <3>2, <3>5, <3>6, <3>7
  <2>6. One(f = NULL) = 0
    BY <1>3 DEF One
  <2>7. CASE k.file[f].open
    <3>1. k.file[f].f_count = Cardinality(SlotsIn(k.tab, f)) + One(f = NULL)
      BY <2>1, <2>7 DEF FileInv
    <3>2. l.file[f].f_count = Cardinality(SlotsIn(l.tab, f)) + One(f = NULL)
      BY <1>25, <2>5, <2>6, <3>1
    <3>3. l.file[f].f_count = 0 <=> k.file[f].f_count = 0
      <4>1. Copied(old, f) # {} => SlotsIn(k.tab, f) # {}
        <5>1. ASSUME NEW i \in Copied(old, f) PROVE SlotsIn(k.tab, f) # {}
          <6>1. i \in Fds /\ k.tab[u].fd_ofiles[i] = f
            BY <1>2, <1>8, <5>1 DEF Copied
          <6> QED BY <1>6, <6>1, NoSlots
        <5> QED BY <5>1
      <4>2. Copied(old, f) = {} => Cardinality(Copied(old, f)) = 0
        BY FS_EmptySet
      <4>3. SlotsIn(k.tab, f) # {} => Cardinality(SlotsIn(k.tab, f)) # 0
        <5>1. IsFiniteSet(SlotsIn(k.tab, f))
          BY Counts
        <5> QED BY <5>1, FS_EmptySet
      <4> QED BY <1>25, <2>5, <2>6, <3>1, <4>1, <4>2, <4>3
    <3> QED BY <1>25, <2>1, <2>2, <2>3, <2>7, <3>2, <3>3 DEF FileInv
  <2>8. CASE ~k.file[f].open
    <3>1. SlotsIn(k.tab, f) = {}
      BY <2>1, <2>8 DEF FileInv
    <3>2. \A a \in Tables, i \in Fds : k.tab[a].fd_ofiles[i] # f
      BY ONLY <3>1, NoSlots
    <3>3. Copied(old, f) = {}
      BY <1>2, <1>6, <1>8, <3>2 DEF Copied
    <3>4. \A a \in Tables, i \in Fds : l.tab[a].fd_ofiles[i] # f
      BY ONLY <1>24, <2>4, <3>2, <3>3
    <3>5. SlotsIn(l.tab, f) = {}
      BY ONLY <3>4, NoSlots
    <3> QED BY <1>25, <2>1, <2>2, <2>8, <3>5 DEF FileInv
  <2> QED BY <2>7, <2>8
<1>30. Rest(l)
  BY ONLY <1>2, <1>24, <1>26, <1>27, <1>28, <1>29, q \in Procs, Population
<1>31. program' \in Programs
  BY <1>12 DEF Inv
<1> QED BY <1>17, <1>30, <1>31 DEF Inv
-----------------------------------------------------------------------------
\* The initial states.
LEMMA Begin ==
  Init => Inv
<1> SUFFICES ASSUME Init PROVE Inv
  OBVIOUS
<1>1. PICK t \in Tables :
        /\ tab = [u \in Tables |-> IF u = t THEN [EmptyTable EXCEPT !.fd_refcnt = 1] ELSE EmptyTable]
        /\ file = [f \in Files |-> FreeFile]
        /\ proc = [p \in Procs |-> IF p = first THEN Idle(t) ELSE NoProc]
        /\ program \in Programs
  BY DEF Init
<1>2. PICK k : k = System
  OBVIOUS
<1>3. k.tab = tab /\ k.file = file /\ k.proc = proc /\ k = [tab |-> tab, file |-> file, proc |-> proc]
  BY ONLY <1>2 DEF System
<1>4. /\ first \in Procs /\ 0 \in Fds /\ NULL \notin Tables /\ NULL \notin Procs /\ NULL \notin Files
  BY DescrAssumption
<1>5. PICK e : e = [EmptyTable EXCEPT !.fd_refcnt = 1]
  OBVIOUS
<1>6. /\ e \in Tab /\ Cover(e) /\ e.fd_lock = NULL /\ e.fd_refcnt = 1
      /\ e.fd_ofiles = [i \in Fds |-> NULL]
  BY <1>5, EmptyTableIs DEF Tab, Cover
<1>7. /\ tab \in [Tables -> Tab] /\ tab[t] = e /\ \A a \in Tables \ {t} : tab[a] = EmptyTable
  <2>1. tab = [a \in Tables |-> IF a = t THEN e ELSE EmptyTable]
    BY ONLY <1>1, <1>5
  <2> QED BY ONLY <1>6, <2>1, EmptyTableIs, t \in Tables
<1>8. /\ Idle(t) \in Proc /\ Idle(t).p_fd = t /\ Idle(t).pc = "idle" /\ Idle(t).call = "none"
      /\ Idle(t).fp = NULL /\ Idle(t).new = NULL /\ Idle(t).wchan = NULL
  BY <1>4 DEF Idle, Proc, Pcs
<1>9. /\ proc \in [Procs -> Proc] /\ proc[first] = Idle(t) /\ \A p \in Procs \ {first} : proc[p] = NoProc
  BY ONLY <1>1, <1>4, <1>8, NoProcIs
<1>10. /\ FreeFile \in File /\ ~FreeFile.open
  BY DEF FreeFile, File
<1>11. file \in [Files -> File] /\ \A f \in Files : ~file[f].open
  BY <1>1, <1>10
<1>12. k \in Sys
  BY <1>3, <1>7, <1>9, <1>11 DEF Sys
<1>13. \A p \in Procs : /\ Outside(k.proc[p]) /\ k.proc[p].call = "none" /\ k.proc[p].wchan = NULL
                        /\ k.proc[p].pc \in {"none", "idle"}
                        /\ (k.proc[p].p_fd = t <=> p = first)
                        /\ k.proc[p].p_fd = NULL <=> k.proc[p].pc = "none"
                        /\ k.proc[p].p_fd \in {t, NULL}
  BY <1>3, <1>4, <1>8, <1>9, NoProcIs DEF Outside
<1>14. \A a \in Tables : /\ Cover(k.tab[a]) /\ k.tab[a].fd_lock = NULL
                         /\ \A i \in Fds : k.tab[a].fd_ofiles[i] = NULL
  BY <1>3, <1>6, <1>7, EmptyTableIs
<1>15. \A f \in Files : FileInv(k, NULL, NULL, NULL, NULL, f)
  <2> TAKE f \in Files
  <2>1. SlotsIn(k.tab, f) = {}
    <3>1. \A a \in Tables, i \in Fds : k.tab[a].fd_ofiles[i] # f
      BY <1>4, <1>14
    <3> QED BY ONLY <3>1, NoSlots
  <2>2. UsersBut(k, NULL, f) = {} /\ MakersBut(k, NULL, f) = {}
    BY <1>4, <1>13 DEF UsersBut, MakersBut, Outside
  <2> QED BY <1>3, <1>4, <1>11, <2>1, <2>2 DEF FileInv
<1>16. \A a \in Tables : TabInv(k, NULL, FALSE, a)
  <2> TAKE a \in Tables
  <2>1. k.tab[a].fd_refcnt = Cardinality(Members(k, a))
    <3>1. CASE a = t
      <4>1. Members(k, a) = {first}
        BY <1>4, <1>13, <3>1 DEF Members
      <4> QED BY <1>3, <1>6, <1>7, <3>1, <4>1, FS_Singleton
    <3>2. CASE a # t
      <4>1. Members(k, a) = {}
        BY <1>4, <1>13, <3>2 DEF Members
      <4> QED BY <1>3, <1>7, <3>2, <4>1, FS_EmptySet, EmptyTableIs
    <3> QED BY <3>1, <3>2
  <2> QED BY <1>4, <1>13, <1>14, <2>1 DEF TabInv, HoldsLock, Outside, Cover
<1>17. \A p \in Procs \ {NULL} : Place(k, p)
  BY <1>13 DEF Place, Outside
<1>18. \A p, q \in Procs \ {NULL} :
         k.proc[p].pc = "making" /\ k.proc[q].pc = "making" /\ k.proc[p].new = k.proc[q].new => p = q
  BY <1>13
<1>19. Rest(k)
  BY <1>12, <1>15, <1>16, <1>17, <1>18 DEF Rest, Mid
<1> QED BY <1>1, <1>2, <1>19 DEF Inv

\* A step that changes nothing.
LEMMA Stutter ==
  Inv /\ UNCHANGED vars => Inv'
<1> SUFFICES ASSUME Inv, UNCHANGED vars PROVE Inv'
  OBVIOUS
<1>1. System' = System /\ program' = program
  BY DEF vars, System
<1>2. Rest(System')
  BY <1>1 DEF Inv
<1> QED BY <1>1, <1>2 DEF Inv

\* Every step keeps the invariant.
LEMMA Step ==
  Inv /\ [Next]_vars /\ [Careful]_vars => Inv'
<1> SUFFICES ASSUME Inv, Next, Careful PROVE Inv'
  BY Stutter
<1>1. PICK p \in Procs :
        \/ sys_open(p) \/ Made(p) \/ MakeFailed(p) \/ Fdplock(p) \/ Closef(p)
        \/ FoClosed(p) \/ IoDone(p) \/ FlockDone(p) \/ Connection(p) \/ AcceptBad(p)
        \/ exit(p) \/ fdfree(p)
        \/ \E fd \in Fds :
             \/ sys_close(p, fd) \/ sys_io(p, fd)
             \/ sys_flock(p, fd) \/ sys_accept(p, fd)
             \/ OpenedFd(p, fd) \/ StoleFd(p, fd)
             \/ \E new \in Fds : sys_dup(p, fd, new) \/ sys_dup2(p, fd, new)
        \/ \E q \in Procs : fork(p, q) \/ fdshare(p, q)
  BY DEF Next
<1>2. CASE sys_open(p)
  BY <1>2, StepOpen
<1>3. CASE Made(p) \/ MakeFailed(p)
  BY <1>3, StepMade, StepMakeFailed
<1>4. CASE Fdplock(p)
  <2>1. proc[p].call \in {"dup", "dup2"} => file[proc[p].fp].f_count > 0
    BY <1>4 DEF Careful
  <2> QED BY <1>4, <2>1, StepFdplock
<1>5. CASE Closef(p) \/ FoClosed(p)
  BY <1>5, StepClosef, StepFoClosed
<1>6. CASE IoDone(p) \/ FlockDone(p) \/ Connection(p)
  BY <1>6, StepIoDone, StepFlockDone, StepConnection
<1>7. CASE AcceptBad(p)
  <2>1. LockFree(p)
    BY <1>7 DEF Careful
  <2> QED BY <1>7, <2>1, StepAcceptBad
<1>8. CASE exit(p) \/ fdfree(p)
  BY <1>8, StepExit, StepFdfree
<1>9. ASSUME NEW fd \in Fds,
             \/ sys_close(p, fd) \/ sys_io(p, fd) \/ sys_flock(p, fd) \/ sys_accept(p, fd)
             \/ OpenedFd(p, fd) \/ StoleFd(p, fd)
      PROVE  Inv'
  BY <1>9, StepClose, StepIo, StepFlock, StepOpenedFd
<1>10. ASSUME NEW fd \in Fds, NEW new \in Fds, sys_dup(p, fd, new) \/ sys_dup2(p, fd, new)
       PROVE  Inv'
  BY <1>10, StepDup
<1>11. ASSUME NEW q \in Procs, fork(p, q)
       PROVE  Inv'
  <2>1. LockFree(p)
    BY <1>11 DEF Careful
  <2> QED BY <1>11, <2>1, StepFork
<1>12. ASSUME NEW q \in Procs, fdshare(p, q)
       PROVE  Inv'
  BY <1>12, StepShare
<1> QED BY <1>1, <1>2, <1>3, <1>4, <1>5, <1>6, <1>7, <1>8, <1>9, <1>10, <1>11, <1>12

\* Every step of processes that share tables keeps the counters of the files, the
\* flags of closef and the lock of each table as they should be, if no process
\* does what Careful names: kern_descrip.c from falloc to closef.
THEOREM Invariance ==
  Spec /\ [][Careful]_vars => []Inv
BY Begin, Step, PTL DEF Spec

\* The properties of Descr that follow.
LEMMA InvCounts ==
  Inv => CountsExact
<1> SUFFICES ASSUME Inv PROVE CountsExact
  OBVIOUS
<1>1. PICK k : k = System
  OBVIOUS
<1>2. Rest(k) /\ k.proc = proc /\ k.tab = tab /\ k.file = file
  BY <1>1, Now
<1>3. k \in Sys /\ NULL \notin Procs /\ NULL \notin Files
  BY <1>2, DescrAssumption DEF Rest, Mid
<1>4. TypeOK
  BY <1>2, <1>3 DEF TypeOK, Inv, Sys, Tab, File, Proc, Pcs
<1>5. ASSUME NEW f \in Files, file[f].open
      PROVE  /\ file[f].f_count = Cardinality(Slots(f))
             /\ file[f].f_usecount = Cardinality(Users(f)) + Cardinality(Makers(f))
  <2>1. FileInv(k, NULL, NULL, NULL, NULL, f)
    BY <1>2 DEF Rest, Mid
  <2>2. /\ Slots(f) = SlotsIn(k.tab, f) /\ Users(f) = UsersBut(k, NULL, f)
        /\ Makers(f) = MakersBut(k, NULL, f)
    BY <1>2, <1>3 DEF Slots, Users, Makers, SlotsIn, UsersBut, MakersBut
  <2>3. One(f = NULL) = 0
    BY <1>3 DEF One
  <2>4. /\ Cardinality(SlotsIn(k.tab, f)) \in Nat /\ Cardinality(UsersBut(k, NULL, f)) \in Nat
        /\ Cardinality(MakersBut(k, NULL, f)) \in Nat
    BY Counts
  <2> QED BY <1>2, <1>5, <2>1, <2>2, <2>3, <2>4 DEF FileInv
<1> QED BY <1>4, <1>5 DEF CountsExact

LEMMA InvWoken ==
  Inv => CloserWoken
<1> SUFFICES ASSUME Inv, NEW p \in Procs, proc[p].wchan # NULL
             PROVE  file[proc[p].wchan].f_usecount > 1
  BY DEF CloserWoken
<1>1. PICK k : k = System
  OBVIOUS
<1>2. Rest(k) /\ k.proc = proc /\ k.file = file
  BY <1>1, Now
<1>3. Place(k, p)
  BY <1>2, AtWork
<1> QED BY <1>2, <1>3 DEF Place

LEMMA InvLock ==
  Inv => LockTellsHolder
<1> SUFFICES ASSUME Inv, NEW t \in Tables
             PROVE  Holders(t) = {tab[t].fd_lock} \ {NULL}
  BY DEF LockTellsHolder
<1>1. PICK k : k = System
  OBVIOUS
<1>2. Rest(k) /\ k.proc = proc /\ k.tab = tab
  BY <1>1, Now
<1>3. k \in Sys /\ TabInv(k, NULL, FALSE, t) /\ NULL \notin Procs
  BY <1>2, DescrAssumption DEF Rest, Mid
<1>4. \A q \in Procs : tab[t].fd_lock = q <=> proc[q].p_fd = t /\ HoldsLock(proc[q])
  BY <1>2, <1>3 DEF TabInv
<1>5. tab[t].fd_lock \in Procs \union {NULL}
  BY <1>2, <1>3 DEF Sys, Tab
<1> QED BY <1>3, <1>4, <1>5 DEF Holders, HoldsLock

LEMMA InvUse ==
  Inv /\ (\A p \in Procs : proc[p].pc # "flock") => NoUseAfterFree
<1> SUFFICES ASSUME Inv, \A p \in Procs : proc[p].pc # "flock", NEW f \in Files, ~file[f].open
             PROVE  Slots(f) = {} /\ \A p \in Procs : f \notin {proc[p].fp, proc[p].new}
  BY DEF NoUseAfterFree
<1>1. PICK k : k = System
  OBVIOUS
<1>2. Rest(k) /\ k.proc = proc /\ k.tab = tab /\ k.file = file
  BY <1>1, Now
<1>3. FileInv(k, NULL, NULL, NULL, NULL, f) /\ NULL \notin Procs /\ NULL \notin Files
  BY <1>2, DescrAssumption DEF Rest, Mid
<1>4. SlotsIn(k.tab, f) = {} /\ UsersBut(k, NULL, f) = {} /\ MakersBut(k, NULL, f) = {}
  BY <1>2, <1>3 DEF FileInv
<1>5. Slots(f) = {}
  BY <1>2, <1>4 DEF Slots, SlotsIn
<1>6. ASSUME NEW p \in Procs PROVE f \notin {proc[p].fp, proc[p].new}
  <2>1. Place(k, p) /\ p \notin UsersBut(k, NULL, f) /\ p \notin MakersBut(k, NULL, f)
    BY <1>2, <1>4, AtWork
  <2>2. proc[p].new # f /\ (proc[p].fp = f => proc[p].call = "flock")
    BY <1>2, <1>3, <2>1 DEF UsersBut, MakersBut
  <2>3. proc[p].fp = f => proc[p].call # "flock"
    BY <1>2, <1>3, <2>1 DEF Place
  <2> QED BY <2>2, <2>3
<1> QED BY <1>5, <1>6

-----------------------------------------------------------------------------
\* Tables that differ in their lock at most.
Alike(r, s) ==
  /\ s.fd_ofiles = r.fd_ofiles /\ s.fd_map = r.fd_map /\ s.fd_freefile = r.fd_freefile
  /\ s.fd_lastfile = r.fd_lastfile /\ s.fd_refcnt = r.fd_refcnt

\* Process q keeps its table, and, unless it is p, its place in its call.
Stays(k, l, p, q) ==
  /\ l.proc[q].p_fd = k.proc[q].p_fd
  /\ q # p => /\ l.proc[q].pc = k.proc[q].pc /\ l.proc[q].call = k.proc[q].call
              /\ l.proc[q].fd = k.proc[q].fd /\ l.proc[q].fp = k.proc[q].fp

\* A step of p that changes files and locks only.
Frame(k, l, p) ==
  /\ Shape(l)
  /\ \A t \in Tables : Alike(k.tab[t], l.tab[t])
  /\ \A q \in Procs : Stays(k, l, p, q)

\* Two such steps are one.
LEMMA FrameTrans ==
  ASSUME NEW k, NEW l, NEW m, NEW p, Frame(k, l, p), Frame(l, m, p)
  PROVE  Frame(k, m, p)
<1>1. \A t \in Tables : Alike(k.tab[t], m.tab[t])
  BY DEF Frame, Alike
<1>2. \A q \in Procs : Stays(k, m, p, q)
  BY DEF Frame, Stays
<1> QED BY <1>1, <1>2 DEF Frame

\* A change of the files is one.
LEMMA FrameFile ==
  ASSUME NEW k, Shape(k), NEW fl, NEW p
  PROVE  LET l == [k EXCEPT !.file = fl]
         IN Frame(k, l, p) /\ l.tab = k.tab /\ l.proc = k.proc /\ l.file = fl
<1>1. PICK l : l = [k EXCEPT !.file = fl]
  OBVIOUS
<1>2. l = [tab |-> k.tab, file |-> fl, proc |-> k.proc]
  BY <1>1 DEF Shape
<1>3. l.tab = k.tab /\ l.proc = k.proc /\ l.file = fl
  BY ONLY <1>2
<1>4. Shape(l)
  BY <1>2, <1>3 DEF Shape
<1>5. Frame(k, l, p)
  BY ONLY <1>3, <1>4 DEF Frame, Alike, Stays
<1> QED BY ONLY <1>1, <1>3, <1>5

\* So is a change of the record of p, but for its table,
LEMMA FrameOwn ==
  ASSUME NEW k, Shape(k), NEW p \in Procs, NEW r \in Proc, r.p_fd = k.proc[p].p_fd
  PROVE  LET l == [k EXCEPT !.proc = [k.proc EXCEPT ![p] = r]]
         IN Frame(k, l, p) /\ l.tab = k.tab /\ l.proc[p] = r
<1>1. PICK pr : pr = [k.proc EXCEPT ![p] = r]
  OBVIOUS
<1>2. PICK l : l = [k EXCEPT !.proc = pr]
  OBVIOUS
<1>3. pr \in [Procs -> Proc] /\ pr[p] = r /\ \A q \in Procs \ {p} : pr[q] = k.proc[q]
  BY <1>1 DEF Shape
<1>4. l = [tab |-> k.tab, file |-> k.file, proc |-> pr]
  BY <1>2 DEF Shape
<1>5. l.tab = k.tab /\ l.proc = pr /\ l.file = k.file
  BY ONLY <1>4
<1>6. Shape(l)
  BY <1>3, <1>4, <1>5 DEF Shape
<1>7. Frame(k, l, p)
  <2>1. \A q \in Procs : Stays(k, l, p, q)
    BY <1>3, <1>5 DEF Stays
  <2>2. \A t \in Tables : Alike(k.tab[t], l.tab[t])
    BY ONLY <1>5 DEF Alike
  <2> QED BY ONLY <1>6, <2>1, <2>2 DEF Frame
<1> QED BY ONLY <1>1, <1>2, <1>3, <1>5, <1>7

\* and FREF,
LEMMA FrameFREF ==
  ASSUME NEW k, Shape(k), NEW f, NEW p
  PROVE  Frame(k, FREF(k, f), p) /\ FREF(k, f).tab = k.tab /\ FREF(k, f).proc = k.proc
<1>1. PICK fl : fl = [k.file EXCEPT ![f].f_usecount = @ + 1]
  OBVIOUS
<1>2. FREF(k, f) = [k EXCEPT !.file = fl]
  BY ONLY <1>1 DEF FREF
<1> QED BY ONLY Shape(k), <1>2, FrameFile

\* FRELE,
LEMMA FrameFRELE ==
  ASSUME NEW k, Shape(k), NEW f, NEW p
  PROVE  /\ Frame(k, FRELE(k, f), p) /\ FRELE(k, f).tab = k.tab
         /\ \A q \in Procs : SameProc(k, FRELE(k, f), q)
<1>1. PICK fl : fl = [k.file EXCEPT ![f].f_usecount = @ - 1]
  OBVIOUS
<1>2. PICK pr : pr = IF "WANTCLOSE" \notin k.file[f].f_iflags THEN k.proc
                     ELSE [q \in Procs |->
                             [k.proc[q] EXCEPT !.wchan = IF @ = f THEN NULL ELSE @]]
  OBVIOUS
<1>3. PICK l : l = FRELE(k, f)
  OBVIOUS
<1>4. l = [tab |-> k.tab, file |-> fl, proc |-> pr]
  <2>1. l = [[k EXCEPT !.file = fl] EXCEPT !.proc = pr]
    BY ONLY <1>1, <1>2, <1>3 DEF FRELE
  <2> QED BY <2>1 DEF Shape
<1>5. /\ pr \in [Procs -> Proc]
      /\ \A q \in Procs :
           /\ pr[q].p_fd = k.proc[q].p_fd /\ pr[q].pc = k.proc[q].pc
           /\ pr[q].call = k.proc[q].call /\ pr[q].fd = k.proc[q].fd
           /\ pr[q].fp = k.proc[q].fp /\ pr[q].new = k.proc[q].new
  <2>1. k.proc \in [Procs -> Proc]
    BY DEF Shape
  <2>2. CASE "WANTCLOSE" \notin k.file[f].f_iflags
    <3>1. pr = k.proc
      BY ONLY <1>2, <2>2
    <3> QED BY ONLY <2>1, <3>1
  <2>3. CASE "WANTCLOSE" \in k.file[f].f_iflags
    <3>1. pr = [q \in Procs |-> [k.proc[q] EXCEPT !.wchan = IF @ = f THEN NULL ELSE @]]
      BY ONLY <1>2, <2>3
    <3>2. \A q \in Procs : k.proc[q] \in Proc
      BY ONLY <2>1
    <3> QED BY ONLY <3>1, <3>2 DEF Proc
  <2> QED BY ONLY <2>2, <2>3
<1>6. l.tab = k.tab /\ l.file = fl /\ l.proc = pr
  BY ONLY <1>4
<1>7. Shape(l)
  BY <1>4, <1>5, <1>6 DEF Shape
<1>8. \A q \in Procs : SameProc(k, l, q)
  BY ONLY <1>5, <1>6 DEF SameProc
<1>9. Frame(k, l, p)
  BY ONLY <1>6, <1>7, <1>8 DEF Frame, Alike, Stays, SameProc
<1> QED BY ONLY <1>3, <1>6, <1>8, <1>9

\* fdpunlock
LEMMA FrameUnlock ==
  ASSUME NEW k, Shape(k), NEW p \in Procs, k.proc[p].p_fd \in Tables
  PROVE  Frame(k, fdpunlock(k, p), p) /\ fdpunlock(k, p).proc = k.proc
<1>1. PICK t : t = k.proc[p].p_fd
  OBVIOUS
<1>2. PICK tb : tb = [k.tab EXCEPT ![t].fd_lock = NULL]
  OBVIOUS
<1>3. PICK l : l = fdpunlock(k, p)
  OBVIOUS
<1>4. l = [tab |-> tb, file |-> k.file, proc |-> k.proc]
  <2>1. l = [k EXCEPT !.tab = tb]
    BY ONLY <1>1, <1>2, <1>3 DEF fdpunlock
  <2> QED BY <2>1 DEF Shape
<1>5. tb \in [Tables -> Tab] /\ \A a \in Tables : Alike(k.tab[a], tb[a])
  <2>1. k.tab \in [Tables -> Tab] /\ t \in Tables
    BY <1>1 DEF Shape
  <2>2. PICK r : r = [k.tab[t] EXCEPT !.fd_lock = NULL]
    OBVIOUS
  <2>3. r \in Tab /\ Alike(k.tab[t], r)
    BY ONLY <2>1, <2>2 DEF Tab, Alike
  <2>4. tb = [k.tab EXCEPT ![t] = r]
    BY ONLY <1>2, <2>2
  <2>5. tb[t] = r /\ \A a \in Tables \ {t} : tb[a] = k.tab[a]
    BY ONLY <2>1, <2>4
  <2>6. tb \in [Tables -> Tab]
    BY ONLY <2>1, <2>3, <2>4
  <2> QED BY ONLY <2>3, <2>5, <2>6 DEF Alike
<1>6. l.tab = tb /\ l.file = k.file /\ l.proc = k.proc
  BY ONLY <1>4
<1>7. Shape(l)
  BY <1>4, <1>5, <1>6 DEF Shape
<1>8. Frame(k, l, p)
  BY ONLY <1>5, <1>6, <1>7 DEF Frame, Stays
<1> QED BY ONLY <1>3, <1>6, <1>8

\* and the return from the call.
LEMMA FrameReturn ==
  ASSUME NEW k, Shape(k), NEW p \in Procs
  PROVE  Frame(k, Return(k, p), p) /\ Return(k, p).proc[p].pc = "idle"
<1>1. PICK r : r = Idle(k.proc[p].p_fd)
  OBVIOUS
<1>2. r \in Proc /\ r.p_fd = k.proc[p].p_fd /\ r.pc = "idle"
  BY <1>1, DescrAssumption DEF Shape, Idle, Proc, Pcs
<1>3. Return(k, p) = [k EXCEPT !.proc = [k.proc EXCEPT ![p] = r]]
  BY ONLY <1>1 DEF Return
<1>4. LET l == [k EXCEPT !.proc = [k.proc EXCEPT ![p] = r]]
      IN Frame(k, l, p) /\ l.tab = k.tab /\ l.proc[p] = r
  BY ONLY Shape(k), p \in Procs, <1>2, FrameOwn
<1> QED BY ONLY <1>2, <1>3, <1>4

\* Such a step, after which p is at none of these places.
Ends(k, l, p) == Frame(k, l, p) /\ l.proc[p].pc \notin {"fdplock", "flock", "accept"}

\* Such a step after another.
LEMMA EndsAfter ==
  ASSUME NEW k, NEW l, NEW m, NEW p, Frame(k, l, p), Ends(l, m, p)
  PROVE  Ends(k, m, p)
<1>1. Frame(l, m, p) /\ m.proc[p].pc \notin {"fdplock", "flock", "accept"}
  BY DEF Ends
<1>2. Frame(k, m, p)
  BY <1>1, FrameTrans
<1> QED BY <1>1, <1>2 DEF Ends

\* A process keeps its table.
LEMMA Framed ==
  ASSUME NEW k, NEW l, NEW p \in Procs, Frame(k, l, p)
  PROVE  Shape(l) /\ l.proc[p].p_fd = k.proc[p].p_fd
BY DEF Frame, Stays

\* A call that returns,
LEMMA EndsReturn ==
  ASSUME NEW k, Shape(k), NEW p \in Procs
  PROVE  Ends(k, Return(k, p), p)
<1>1. PICK l : l = Return(k, p)
  OBVIOUS
<1>2. Frame(k, l, p) /\ l.proc[p].pc = "idle"
  BY <1>1, FrameReturn
<1>3. Ends(k, l, p)
  BY <1>2 DEF Ends
<1> QED BY <1>1, <1>3

\* after it has given up the lock,
LEMMA EndsUnlock ==
  ASSUME NEW k, Shape(k), NEW p \in Procs, k.proc[p].p_fd \in Tables
  PROVE  Ends(k, Return(fdpunlock(k, p), p), p)
<1>1. PICK m : m = fdpunlock(k, p)
  OBVIOUS
<1>2. Frame(k, m, p)
  BY <1>1, FrameUnlock
<1>3. Shape(m)
  BY <1>2, Framed
<1>4. Ends(m, Return(m, p), p)
  BY <1>3, EndsReturn
<1>5. Ends(k, Return(m, p), p)
  BY <1>2, <1>4, EndsAfter
<1> QED BY ONLY <1>1, <1>5

\* or dropped a reference, or both, in either order,
LEMMA EndsDrop ==
  ASSUME NEW k, Shape(k), NEW p \in Procs, k.proc[p].p_fd \in Tables, NEW f
  PROVE  /\ Ends(k, Return(fdpunlock(FRELE(k, f), p), p), p)
         /\ Ends(k, Return(FRELE(fdpunlock(k, p), f), p), p)
         /\ Ends(k, Return(FRELE(k, f), p), p)
<1>1. PICK m : m = FRELE(k, f)
  OBVIOUS
<1>2. Frame(k, m, p)
  BY <1>1, FrameFRELE
<1>3. Shape(m) /\ m.proc[p].p_fd \in Tables
  BY <1>2, Framed
<1>4. Ends(m, Return(fdpunlock(m, p), p), p) /\ Ends(m, Return(m, p), p)
  BY <1>3, EndsUnlock, EndsReturn
<1>5. Ends(k, Return(fdpunlock(m, p), p), p) /\ Ends(k, Return(m, p), p)
  BY <1>2, <1>4, EndsAfter
<1>6. PICK n : n = fdpunlock(k, p)
  OBVIOUS
<1>7. Frame(k, n, p)
  BY <1>6, FrameUnlock
<1>8. Shape(n)
  BY <1>7, Framed
<1>9. PICK o : o = FRELE(n, f)
  OBVIOUS
<1>10. Frame(n, o, p)
  BY <1>8, <1>9, FrameFRELE
<1>11. Shape(o)
  BY <1>10, Framed
<1>12. Frame(k, o, p)
  BY <1>7, <1>10, FrameTrans
<1>13. Ends(k, Return(o, p), p)
  BY <1>11, <1>12, EndsReturn, EndsAfter
<1> QED BY ONLY <1>1, <1>5, <1>6, <1>9, <1>13

\* what each call does after closef,
LEMMA EndsAfterClosef ==
  ASSUME NEW k, Shape(k), NEW p \in Procs, k.proc[p].p_fd \in Tables
  PROVE  Ends(k, AfterClosef(k, p), p)
<1>1. CASE k.proc[p].call = "exit"
  <2>1. PICK r : r = [k.proc[p] EXCEPT !.pc = "fdfree"]
    OBVIOUS
  <2>2. k.proc[p] \in Proc
    BY DEF Shape
  <2>3. r \in Proc /\ r.p_fd = k.proc[p].p_fd /\ r.pc = "fdfree"
    BY ONLY <2>1, <2>2 DEF Proc, Pcs
  <2>4. PICK l : l = AfterClosef(k, p)
    OBVIOUS
  <2>5. l = [k EXCEPT !.proc = [k.proc EXCEPT ![p] = r]]
    BY ONLY <1>1, <2>1, <2>4 DEF AfterClosef
  <2>6. Frame(k, l, p) /\ l.proc[p] = r
    BY ONLY Shape(k), p \in Procs, <2>3, <2>5, FrameOwn
  <2>7. Ends(k, l, p)
    BY ONLY <2>3, <2>6 DEF Ends
  <2> QED BY ONLY <2>4, <2>7
<1>2. CASE k.proc[p].call = "accept"
  <2>1. AfterClosef(k, p) = Return(FRELE(fdpunlock(k, p), k.proc[p].fp), p)
    BY ONLY <1>2 DEF AfterClosef
  <2> QED BY <2>1, EndsDrop
<1>3. CASE k.proc[p].call \notin {"exit", "accept"}
  <2>1. AfterClosef(k, p) = Return(fdpunlock(k, p), p)
    BY ONLY <1>3 DEF AfterClosef
  <2> QED BY <2>1, EndsUnlock
<1> QED BY <1>1, <1>2, <1>3

\* closef from its wait on,
LEMMA EndsClosefWait ==
  ASSUME NEW k, Shape(k), NEW p \in Procs, k.proc[p].p_fd \in Tables, NEW f \in Files
  PROVE  Ends(k, ClosefWait(k, p, f), p)
<1>0. k.proc[p] \in Proc /\ k.proc \in [Procs -> Proc]
  BY DEF Shape
<1>1. PICK c : c = IF k.file[f].f_usecount > 1 THEN "closef" ELSE "fo_close"
  OBVIOUS
<1>2. PICK w : w = IF k.file[f].f_usecount > 1 THEN f ELSE NULL
  OBVIOUS
<1>3. PICK r : r = [k.proc[p] EXCEPT !.pc = c, !.new = f, !.wchan = w]
  OBVIOUS
<1>4. r \in Proc /\ r.p_fd = k.proc[p].p_fd /\ r.pc \in {"closef", "fo_close"}
  <2>1. c \in {"closef", "fo_close"} /\ w \in Files \union {NULL}
    BY ONLY f \in Files, <1>1, <1>2
  <2> QED BY ONLY f \in Files, <1>0, <1>3, <2>1 DEF Proc, Pcs
<1>5. PICK l : l = ClosefWait(k, p, f)
  OBVIOUS
<1>6. l = [k EXCEPT !.proc = [k.proc EXCEPT ![p] = r]]
  <2>1. l = [k EXCEPT !.proc[p].pc = c, !.proc[p].new = f, !.proc[p].wchan = w]
    BY ONLY <1>1, <1>2, <1>5 DEF ClosefWait
  <2> QED BY <1>0, <1>3, <2>1 DEF Shape
<1>7. Frame(k, l, p) /\ l.proc[p] = r
  BY ONLY Shape(k), p \in Procs, <1>4, <1>6, FrameOwn
<1>8. Ends(k, l, p)
  BY ONLY <1>4, <1>7 DEF Ends
<1> QED BY ONLY <1>5, <1>8

\* from fo_close on,
LEMMA EndsFreed ==
  ASSUME NEW k, Shape(k), NEW p \in Procs, k.proc[p].p_fd \in Tables, NEW f \in Files
  PROVE  Ends(k, AfterClosef(Freed(k, p, f), p), p)
<1>0. k.proc[p] \in Proc
  BY DEF Shape
<1>1. PICK fl : fl = [k.file EXCEPT ![f] = FreeFile]
  OBVIOUS
<1>2. PICK r : r = [k.proc[p] EXCEPT !.new = NULL]
  OBVIOUS
<1>3. PICK a : a = [k EXCEPT !.file = fl]
  OBVIOUS
<1>4. PICK b : b = [a EXCEPT !.proc = [a.proc EXCEPT ![p] = r]]
  OBVIOUS
<1>5. Freed(k, p, f) = b
  <2>1. Freed(k, p, f) = [a EXCEPT !.proc = [a.proc EXCEPT ![p] = [a.proc[p] EXCEPT !.new = NULL]]]
    BY ONLY <1>1, <1>3 DEF Freed
  <2>2. a.proc = k.proc
    BY ONLY Shape(k), <1>3, FrameFile
  <2> QED BY ONLY <1>2, <1>4, <2>1, <2>2
<1>6. Frame(k, a, p) /\ a.proc = k.proc
  BY ONLY Shape(k), <1>3, FrameFile
<1>7. r \in Proc /\ r.p_fd = a.proc[p].p_fd
  BY ONLY <1>0, <1>2, <1>6 DEF Proc
<1>8. Frame(a, b, p)
  <2>1. Shape(a)
    BY ONLY p \in Procs, <1>6, Framed
  <2> QED BY ONLY p \in Procs, <1>4, <1>7, <2>1, FrameOwn
<1>9. Frame(k, b, p)
  BY ONLY <1>6, <1>8, FrameTrans
<1>10. Shape(b) /\ b.proc[p].p_fd \in Tables
  BY <1>9, Framed
<1>11. Ends(b, AfterClosef(b, p), p)
  BY <1>10, EndsAfterClosef
<1>12. Ends(k, AfterClosef(b, p), p)
  BY ONLY <1>9, <1>11, EndsAfter
<1> QED BY ONLY <1>5, <1>12

\* and the whole of closef are such steps.
LEMMA EndsClosef ==
  ASSUME NEW k, Shape(k), NEW p \in Procs, k.proc[p].p_fd \in Tables, NEW f \in Files
  PROVE  Ends(k, closef(k, p, f), p)
<1>1. PICK fl : fl = [k.file EXCEPT ![f].f_count = @ - 1]
  OBVIOUS
<1>2. PICK l : l = [k EXCEPT !.file = fl]
  OBVIOUS
<1>3. PICK w : w = [l.file EXCEPT ![f].f_iflags = @ \union {"WANTCLOSE"}]
  OBVIOUS
<1>4. PICK m : m = [l EXCEPT !.file = w]
  OBVIOUS
<1>5. closef(k, p, f) \in {AfterClosef(FRELE(k, f), p), AfterClosef(FRELE(l, f), p), ClosefWait(m, p, f)}
  <2>1. l = [k EXCEPT !.file[f].f_count = @ - 1]
    BY ONLY <1>1, <1>2
  <2>2. m = [l EXCEPT !.file[f].f_iflags = @ \union {"WANTCLOSE"}]
    BY ONLY <1>3, <1>4
  <2> QED BY ONLY <2>1, <2>2 DEF closef
<1>6. Frame(k, l, p)
  BY ONLY Shape(k), <1>2, FrameFile
<1>7. Shape(l) /\ l.proc[p].p_fd \in Tables
  BY <1>6, Framed
<1>8. Frame(l, m, p)
  BY ONLY <1>4, <1>7, FrameFile
<1>9. Frame(k, m, p)
  BY ONLY <1>6, <1>8, FrameTrans
<1>10. Shape(m) /\ m.proc[p].p_fd \in Tables
  BY <1>9, Framed
<1>11. Ends(k, ClosefWait(m, p, f), p)
  BY <1>9, <1>10, EndsClosefWait, EndsAfter
<1>12. ASSUME NEW n, Shape(n), n.proc[p].p_fd \in Tables
       PROVE  Ends(n, AfterClosef(FRELE(n, f), p), p)
  <2>1. PICK o : o = FRELE(n, f)
    OBVIOUS
  <2>2. Frame(n, o, p)
    BY ONLY <1>12, <2>1, FrameFRELE
  <2>3. Shape(o) /\ o.proc[p].p_fd \in Tables
    BY <1>12, <2>2, Framed
  <2>4. Ends(n, AfterClosef(o, p), p)
    BY <2>2, <2>3, EndsAfterClosef, EndsAfter
  <2> QED BY ONLY <2>1, <2>4
<1>13. Ends(k, AfterClosef(FRELE(k, f), p), p)
  BY <1>12
<1>14. Ends(k, AfterClosef(FRELE(l, f), p), p)
  BY <1>6, <1>7, <1>12, EndsAfter
<1> QED BY ONLY <1>5, <1>11, <1>13, <1>14

\* A table replaced.
LEMMA Table ==
  ASSUME NEW k, Shape(k), NEW t \in Tables, NEW r \in Tab
  PROVE  LET l == WithTable(k, t, r)
         IN /\ Shape(l) /\ l.file = k.file /\ l.proc = k.proc /\ l.tab[t] = r
            /\ \A a \in Tables \ {t} : l.tab[a] = k.tab[a]
<1>1. PICK l : l = WithTable(k, t, r)
  OBVIOUS
<1>2. PICK tb : tb = [k.tab EXCEPT ![t] = r]
  OBVIOUS
<1>3. tb \in [Tables -> Tab] /\ tb[t] = r /\ \A a \in Tables \ {t} : tb[a] = k.tab[a]
  BY <1>2 DEF Shape
<1>4. l = [k EXCEPT !.tab = tb]
  BY ONLY <1>1, <1>2 DEF WithTable
<1>5. l = [tab |-> tb, file |-> k.file, proc |-> k.proc]
  BY <1>4 DEF Shape
<1>6. l.tab = tb /\ l.file = k.file /\ l.proc = k.proc
  BY ONLY <1>5
<1>7. Shape(l)
  BY <1>3, <1>5, <1>6 DEF Shape
<1> QED BY ONLY <1>1, <1>3, <1>6, <1>7

\* A table may be replaced before or after such a step.
LEMMA FrameTable ==
  ASSUME NEW k, Shape(k), NEW l, NEW p, Frame(k, l, p), NEW t \in Tables, NEW r \in Tab
  PROVE  Frame(WithTable(k, t, r), WithTable(l, t, r), p)
<1>1. PICK k2 : k2 = WithTable(k, t, r)
  OBVIOUS
<1>2. PICK l2 : l2 = WithTable(l, t, r)
  OBVIOUS
<1>3. Shape(l)
  BY DEF Frame
<1>4. k2.proc = k.proc /\ k2.tab[t] = r /\ \A a \in Tables \ {t} : k2.tab[a] = k.tab[a]
  BY <1>1, Table
<1>5. Shape(l2) /\ l2.proc = l.proc /\ l2.tab[t] = r /\ \A a \in Tables \ {t} : l2.tab[a] = l.tab[a]
  BY <1>2, <1>3, Table
<1>6. \A q \in Procs : Stays(k2, l2, p, q)
  BY <1>4, <1>5 DEF Frame, Stays
<1>7. \A a \in Tables : Alike(k2.tab[a], l2.tab[a])
  BY <1>4, <1>5 DEF Frame, Alike
<1>8. Frame(k2, l2, p)
  BY ONLY <1>5, <1>6, <1>7 DEF Frame
<1> QED BY ONLY <1>1, <1>2, <1>8

\* The last replacement counts.
LEMMA Retable ==
  ASSUME NEW k, Shape(k), NEW t \in Tables, NEW r \in Tab, NEW s \in Tab
  PROVE  WithTable(WithTable(k, t, r), t, s) = WithTable(k, t, s)
<1>1. PICK tr : tr = [k.tab EXCEPT ![t] = r]
  OBVIOUS
<1>2. PICK ts : ts = [k.tab EXCEPT ![t] = s]
  OBVIOUS
<1>3. ts = [tr EXCEPT ![t] = s]
  BY <1>1, <1>2 DEF Shape
<1>4. PICK l : l = [k EXCEPT !.tab = tr]
  OBVIOUS
<1>5. l = [tab |-> tr, file |-> k.file, proc |-> k.proc]
  BY <1>4 DEF Shape
<1>6. [l EXCEPT !.tab = ts] = [tab |-> ts, file |-> k.file, proc |-> k.proc]
  BY ONLY <1>5
<1>7. [k EXCEPT !.tab = ts] = [tab |-> ts, file |-> k.file, proc |-> k.proc]
  BY DEF Shape
<1>8. l.tab = tr
  BY ONLY <1>5
<1>9. WithTable(k, t, r) = l /\ WithTable(k, t, s) = [k EXCEPT !.tab = ts]
  BY ONLY <1>1, <1>2, <1>4 DEF WithTable
<1>10. WithTable(l, t, s) = [l EXCEPT !.tab = ts]
  BY ONLY <1>3, <1>8 DEF WithTable
<1> QED BY ONLY <1>6, <1>7, <1>9, <1>10

\* What finishdup does before closef or fd_used.
Put(m, p, t, i, f) ==
  [m EXCEPT !.tab[t].fd_ofiles[i] = f, !.file[f].f_count = @ + 1, !.proc[p].fp = NULL]

\* It fills the slot, and changes files and the record of p otherwise.
LEMMA Puts ==
  ASSUME NEW m, Shape(m), NEW p \in Procs, NEW t \in Tables, NEW i \in Fds, NEW f \in Files
  PROVE  /\ Fill(m.tab[t], i, f) \in Tab
         /\ Frame(WithTable(m, t, Fill(m.tab[t], i, f)), Put(m, p, t, i, f), p)
         /\ Put(m, p, t, i, f).tab[t] = Fill(m.tab[t], i, f)
<1>1. PICK w : w = Fill(m.tab[t], i, f)
  OBVIOUS
<1>2. m.tab[t] \in Tab /\ m.proc[p] \in Proc
  BY DEF Shape
<1>3. w \in Tab
  BY <1>1, <1>2, Fills
<1>4. PICK a : a = WithTable(m, t, w)
  OBVIOUS
<1>5. Shape(a) /\ a.file = m.file /\ a.proc = m.proc /\ a.tab[t] = w
  BY <1>3, <1>4, Table
<1>6. PICK fl : fl = [a.file EXCEPT ![f].f_count = @ + 1]
  OBVIOUS
<1>7. PICK b : b = [a EXCEPT !.file = fl]
  OBVIOUS
<1>8. Frame(a, b, p) /\ b.proc = a.proc /\ b.tab = a.tab
  BY ONLY <1>5, <1>7, FrameFile
<1>9. PICK r : r = [b.proc[p] EXCEPT !.fp = NULL]
  OBVIOUS
<1>10. r \in Proc /\ r.p_fd = b.proc[p].p_fd
  BY ONLY <1>2, <1>5, <1>8, <1>9 DEF Proc
<1>11. PICK c : c = [b EXCEPT !.proc = [b.proc EXCEPT ![p] = r]]
  OBVIOUS
<1>12. Frame(b, c, p) /\ c.tab = b.tab
  <2>1. Shape(b)
    BY ONLY p \in Procs, <1>8, Framed
  <2> QED BY ONLY p \in Procs, <1>10, <1>11, <2>1, FrameOwn
<1>13. Frame(a, c, p)
  BY ONLY <1>8, <1>12, FrameTrans
<1>14. c = Put(m, p, t, i, f)
  BY ONLY <1>1, <1>4, <1>6, <1>7, <1>9, <1>11 DEF Put, WithTable, Fill
<1>15. c.tab[t] = w
  BY ONLY <1>5, <1>8, <1>12
<1> QED BY ONLY <1>1, <1>3, <1>4, <1>13, <1>14, <1>15

\* The table after finishdup.
Dupped(k, t, f, i) ==
  LET r == k.tab[t]
      w == Fill(r, i, f)
  IN IF k.file[f].f_count = MaxCount THEN r ELSE IF r.fd_ofiles[i] = NULL THEN fd_used(w, i) ELSE w

\* finishdup onto a slot in use closes the file that was there.
LEMMA FinishdupOver ==
  ASSUME NEW k, NEW p, NEW f, NEW i, NEW t, k.proc[p].p_fd = t,
         NEW old, k.tab[t].fd_ofiles[i] = old, old # NULL, ~(k.file[f].f_count = MaxCount)
  PROVE  finishdup(k, p, f, i) = closef(FRELE(Put(FREF(k, old), p, t, i, f), f), p, old)
BY DEF finishdup, Put

\* finishdup leaves that table and changes none besides.
LEMMA EndsDup ==
  ASSUME NEW k, Shape(k), NEW p \in Procs, NEW t \in Tables, t = k.proc[p].p_fd,
         NEW f \in Files, NEW new \in Fds
  PROVE  /\ Dupped(k, t, f, new) \in Tab
         /\ Ends(WithTable(k, t, Dupped(k, t, f, new)), finishdup(k, p, f, new), p)
<1>1. PICK s : s = Dupped(k, t, f, new)
  OBVIOUS
<1>2. k.tab[t] \in Tab /\ k.tab \in [Tables -> Tab]
  BY DEF Shape
<1>3. PICK w : w = Fill(k.tab[t], new, f)
  OBVIOUS
<1>4. CASE k.file[f].f_count = MaxCount
  <2>1. s = k.tab[t] /\ finishdup(k, p, f, new) = Return(fdpunlock(FRELE(k, f), p), p)
    BY ONLY <1>1, <1>4 DEF finishdup, Dupped
  <2>2. WithTable(k, t, s) = k
    <3>1. [k.tab EXCEPT ![t] = s] = k.tab
      BY ONLY <1>2, <2>1
    <3>2. [k EXCEPT !.tab = k.tab] = k
      BY DEF Shape
    <3> QED BY ONLY <3>1, <3>2 DEF WithTable
  <2>3. Ends(k, Return(fdpunlock(FRELE(k, f), p), p), p)
    BY EndsDrop
  <2> QED BY ONLY <1>1, <1>2, <2>1, <2>2, <2>3
<1>5. CASE k.file[f].f_count # MaxCount /\ k.tab[t].fd_ofiles[new] = NULL
  <2>1. s = fd_used(w, new)
    BY ONLY <1>1, <1>3, <1>5 DEF Dupped
  <2>2. PICK a : a = Put(k, p, t, new, f)
    OBVIOUS
  <2>3. w \in Tab /\ Frame(WithTable(k, t, w), a, p) /\ a.tab[t] = w
    BY <1>3, <2>2, Puts
  <2>4. s \in Tab
    BY ONLY new \in Fds, <2>1, <2>3 DEF fd_used, Tab
  <2>5. PICK b : b = FRELE(a, f)
    OBVIOUS
  <2>6. Frame(a, b, p) /\ b.tab = a.tab
    <3>1. Shape(a)
      BY <2>3, Framed
    <3> QED BY <2>5, <3>1, FrameFRELE
  <2>7. PICK c : c = WithTable(b, t, s)
    OBVIOUS
  <2>8. finishdup(k, p, f, new) = Return(fdpunlock(c, p), p)
    <3>1. finishdup(k, p, f, new) = Return(fdpunlock([b EXCEPT !.tab[t] = fd_used(@, new)], p), p)
      BY ONLY t = k.proc[p].p_fd, <1>5, <2>2, <2>5 DEF finishdup, Put
    <3>2. b.tab[t] = w
      BY ONLY <2>3, <2>6
    <3>3. [b EXCEPT !.tab[t] = fd_used(@, new)] = [b EXCEPT !.tab = [b.tab EXCEPT ![t] = fd_used(b.tab[t], new)]]
      OBVIOUS
    <3>4. c = [b EXCEPT !.tab = [b.tab EXCEPT ![t] = s]]
      BY ONLY <2>7 DEF WithTable
    <3> QED BY ONLY <2>1, <3>1, <3>2, <3>3, <3>4
  <2>9. Frame(WithTable(k, t, s), c, p)
    <3>1. PICK k2 : k2 = WithTable(k, t, w)
      OBVIOUS
    <3>2. Shape(k2)
      BY <2>3, <3>1, Table
    <3>3. Frame(k2, b, p)
      BY ONLY <2>3, <2>6, <3>1, FrameTrans
    <3>4. Frame(WithTable(k2, t, s), c, p)
      BY ONLY t \in Tables, <2>4, <2>7, <3>2, <3>3, FrameTable
    <3>5. WithTable(k2, t, s) = WithTable(k, t, s)
      BY ONLY Shape(k), t \in Tables, <2>3, <2>4, <3>1, Retable
    <3> QED BY ONLY <3>4, <3>5
  <2>10. Ends(c, Return(fdpunlock(c, p), p), p)
    <3>1. PICK k3 : k3 = WithTable(k, t, s)
      OBVIOUS
    <3>2. Frame(k3, c, p) /\ k3.proc = k.proc
      BY <2>4, <2>9, <3>1, Table
    <3>3. Shape(c) /\ c.proc[p].p_fd \in Tables
      BY <3>2, Framed
    <3> QED BY <3>3, EndsUnlock
  <2>11. Ends(WithTable(k, t, s), Return(fdpunlock(c, p), p), p)
    BY ONLY <2>9, <2>10, EndsAfter
  <2> QED BY ONLY <1>1, <2>4, <2>8, <2>11
<1>6. CASE k.file[f].f_count # MaxCount /\ k.tab[t].fd_ofiles[new] # NULL
  <2>0. PICK old : old = k.tab[t].fd_ofiles[new]
    OBVIOUS
  <2>1. s = w /\ old # NULL /\ old \in Files
    <3>1. s = w
      BY ONLY <1>1, <1>3, <1>6 DEF Dupped
    <3> QED BY ONLY new \in Fds, <1>2, <1>6, <2>0, <3>1 DEF Tab
  <2>2. PICK m : m = FREF(k, old)
    OBVIOUS
  <2>3. Frame(k, m, p) /\ m.tab = k.tab /\ Shape(m)
    BY <2>2, FrameFREF, Framed
  <2>4. PICK a : a = Put(m, p, t, new, f)
    OBVIOUS
  <2>5. w \in Tab /\ Frame(WithTable(m, t, w), a, p)
    BY <1>3, <2>3, <2>4, Puts
  <2>6. PICK b : b = FRELE(a, f)
    OBVIOUS
  <2>7. Frame(a, b, p)
    <3>1. Shape(a)
      BY <2>5, Framed
    <3> QED BY <2>6, <3>1, FrameFRELE
  <2>8. finishdup(k, p, f, new) = closef(b, p, old)
    <3>1. k.proc[p].p_fd = t
      OBVIOUS
    <3>2. finishdup(k, p, f, new) = closef(FRELE(Put(FREF(k, old), p, t, new, f), f), p, old)
      BY ONLY <1>6, <2>0, <2>1, <3>1, FinishdupOver
    <3> QED BY ONLY <2>2, <2>4, <2>6, <3>2
  <2>9. Frame(WithTable(k, t, s), b, p)
    <3>1. Frame(WithTable(k, t, w), WithTable(m, t, w), p)
      BY <2>3, <2>5, FrameTable
    <3>2. Frame(WithTable(k, t, w), a, p)
      BY ONLY <2>5, <3>1, FrameTrans
    <3> QED BY ONLY <2>1, <2>7, <3>2, FrameTrans
  <2>10. Ends(b, closef(b, p, old), p)
    <3>1. PICK k3 : k3 = WithTable(k, t, s)
      OBVIOUS
    <3>2. Frame(k3, b, p) /\ k3.proc = k.proc
      BY <2>1, <2>5, <2>9, <3>1, Table
    <3>3. Shape(b) /\ b.proc[p].p_fd \in Tables
      BY <3>2, Framed
    <3> QED BY <2>1, <3>3, EndsClosef
  <2>11. Ends(WithTable(k, t, s), closef(b, p, old), p)
    BY ONLY <2>9, <2>10, EndsAfter
  <2> QED BY ONLY <1>1, <2>1, <2>5, <2>8, <2>11
<1> QED BY <1>4, <1>5, <1>6

-----------------------------------------------------------------------------
Exact(r) ==
  /\ \A j \in Fds : j \in r.fd_map <=> r.fd_ofiles[j] # NULL
  /\ \A j \in Fds : j \notin r.fd_map => j >= r.fd_freefile
  /\ \A j \in r.fd_map : j <= r.fd_lastfile
  /\ r.fd_lastfile \in r.fd_map \union {0}

\* The same for all slots but i.
Near(r, i) ==
  /\ \A j \in Fds \ {i} : j \in r.fd_map <=> r.fd_ofiles[j] # NULL
  /\ \A j \in Fds \ {i} : j \notin r.fd_map => j >= r.fd_freefile
  /\ \A j \in r.fd_map : j <= r.fd_lastfile
  /\ r.fd_lastfile \in r.fd_map \union {0}

\* The lock does not matter.
LEMMA ExactAlike ==
  ASSUME NEW r, NEW s, Alike(r, s), Exact(r)
  PROVE  Exact(s)
BY DEF Alike, Exact

\* Table w is r with file g in slot i.
Filled(r, w, i, g) ==
  /\ w \in Tab /\ w.fd_ofiles[i] = g /\ \A j \in Fds \ {i} : w.fd_ofiles[j] = r.fd_ofiles[j]
  /\ w.fd_freefile = r.fd_freefile /\ w.fd_map = r.fd_map /\ w.fd_lastfile = r.fd_lastfile
  /\ w.fd_refcnt = r.fd_refcnt

LEMMA FillIs ==
  ASSUME NEW r \in Tab, NEW i \in Fds, NEW g \in Files \union {NULL}
  PROVE  Filled(r, Fill(r, i, g), i, g)
BY DEF Fill, Tab, Filled

\* A slot filled in or emptied is the only one the hints may be wrong about.
LEMMA NearFill ==
  ASSUME NEW r \in Tab, NEW i \in Fds, NEW g \in Files \union {NULL}, Near(r, i)
  PROVE  Near(Fill(r, i, g), i)
<1>1. PICK w : w = Fill(r, i, g)
  OBVIOUS
<1>2. /\ w.fd_freefile = r.fd_freefile /\ w.fd_map = r.fd_map /\ w.fd_lastfile = r.fd_lastfile
      /\ \A j \in Fds \ {i} : w.fd_ofiles[j] = r.fd_ofiles[j]
  BY <1>1, FillIs DEF Filled
<1>3. Near(w, i)
  BY ONLY <1>2, Near(r, i) DEF Near
<1> QED BY ONLY <1>1, <1>3

\* A slot already in the bitmap gets its file.
LEMMA ExactFill ==
  ASSUME NEW r \in Tab, NEW i \in Fds, NEW g \in Files, Near(r, i), i \in r.fd_map
  PROVE  Exact(Fill(r, i, g))
<1>1. PICK w : w = Fill(r, i, g)
  OBVIOUS
<1>2. /\ w.fd_freefile = r.fd_freefile /\ w.fd_map = r.fd_map /\ w.fd_lastfile = r.fd_lastfile
      /\ \A j \in Fds \ {i} : w.fd_ofiles[j] = r.fd_ofiles[j]
      /\ w.fd_ofiles[i] = g
  <2>1. g \in Files \union {NULL}
    OBVIOUS
  <2> QED BY ONLY r \in Tab, i \in Fds, <1>1, <2>1, FillIs DEF Filled
<1>3. g # NULL
  BY DescrAssumption
<1>4. Exact(w)
  BY ONLY <1>2, <1>3, Near(r, i), i \in r.fd_map DEF Near, Exact
<1> QED BY ONLY <1>1, <1>4

\* fd_used makes the hints exact again,
LEMMA ExactUsed ==
  ASSUME NEW r \in Tab, NEW i \in Fds, NEW g \in Files, Near(r, i)
  PROVE  Exact(fd_used(Fill(r, i, g), i))
<1>1. PICK w : w = Fill(r, i, g)
  OBVIOUS
<1>2. w \in Tab /\ w.fd_ofiles[i] = g /\ Near(w, i)
  <2>1. g \in Files \union {NULL}
    OBVIOUS
  <2>2. w \in Tab /\ w.fd_ofiles[i] = g
    BY ONLY r \in Tab, i \in Fds, <1>1, <2>1, FillIs DEF Filled
  <2> QED BY <1>1, <2>1, <2>2, NearFill
<1>3. PICK s : s = fd_used(w, i)
  OBVIOUS
<1>4. /\ s.fd_ofiles = w.fd_ofiles /\ s.fd_freefile = w.fd_freefile /\ s.fd_map = w.fd_map \union {i}
      /\ s.fd_lastfile = IF i > w.fd_lastfile THEN i ELSE w.fd_lastfile
  BY <1>2, <1>3 DEF fd_used, Tab
<1>5. g # NULL /\ Fds \subseteq Nat /\ w.fd_lastfile \in Nat /\ w.fd_map \subseteq Nat
  BY <1>2, DescrAssumption DEF Tab
<1>6. Exact(s)
  BY <1>2, <1>4, <1>5 DEF Near, Exact
<1> QED BY ONLY <1>1, <1>3, <1>6

\* and so does fd_unused.
LEMMA ExactUnused ==
  ASSUME NEW r \in Tab, NEW i \in Fds, Near(r, i), r.fd_ofiles[i] = NULL
  PROVE  Exact(fd_unused(r, i))
<1>1. PICK n : n = find_last_set(r, i)
  OBVIOUS
<1>2. /\ n \in Fds /\ \A j \in Fds : j < i /\ r.fd_ofiles[j] # NULL => j <= n
      /\ (n < i /\ r.fd_ofiles[n] # NULL) \/ n = 0
  BY <1>1, LastSet
<1>3. PICK s : s = fd_unused(r, i)
  OBVIOUS
<1>4. /\ s.fd_ofiles = r.fd_ofiles
      /\ s.fd_freefile = (IF i < r.fd_freefile THEN i ELSE r.fd_freefile)
      /\ s.fd_map = r.fd_map \ {i}
      /\ s.fd_lastfile = IF i = r.fd_lastfile THEN n ELSE r.fd_lastfile
  BY <1>1, <1>3 DEF fd_unused, Tab
<1>5. Fds \subseteq Nat /\ r.fd_lastfile \in Nat /\ r.fd_freefile \in Nat /\ r.fd_map \subseteq Fds
  BY DescrAssumption DEF Tab
<1>6. \A j \in Fds : j \in s.fd_map <=> s.fd_ofiles[j] # NULL
  BY <1>4 DEF Near
<1>7. \A j \in Fds : j \notin s.fd_map => j >= s.fd_freefile
  BY <1>4, <1>5 DEF Near
<1>8. \A j \in s.fd_map : j <= s.fd_lastfile
  <2> SUFFICES ASSUME NEW j \in s.fd_map PROVE j <= s.fd_lastfile
    OBVIOUS
  <2>1. j \in Fds \ {i} /\ j \in r.fd_map
    BY <1>4, <1>5
  <2>2. j \in Nat /\ i \in Nat /\ j # i /\ j <= r.fd_lastfile /\ r.fd_ofiles[j] # NULL
    BY <1>5, <2>1 DEF Near
  <2>3. j < i => j <= n
    BY <1>2, <2>1, <2>2
  <2> QED BY <1>4, <1>5, <2>2, <2>3
<1>9. s.fd_lastfile \in s.fd_map \union {0}
  <2>1. CASE i = r.fd_lastfile
    <3>1. s.fd_lastfile = n
      BY <1>4, <2>1
    <3>2. ASSUME n < i, r.fd_ofiles[n] # NULL PROVE n # i /\ n \in r.fd_map
      <4>1. n # i /\ n \in Fds
        BY <1>2, <1>5, <3>2
      <4> QED BY <3>2, <4>1 DEF Near
    <3> QED BY <1>2, <1>4, <3>1, <3>2
  <2>2. CASE i # r.fd_lastfile
    BY <1>4, <2>2 DEF Near
  <2> QED BY <2>1, <2>2
<1>10. Exact(s)
  BY ONLY <1>6, <1>7, <1>8, <1>9 DEF Exact
<1> QED BY ONLY <1>3, <1>10

\* fdremove keeps them.
LEMMA ExactRemove ==
  ASSUME NEW r \in Tab, NEW i \in Fds, Exact(r)
  PROVE  Exact(fdremove(r, i))
<1>1. PICK w : w = Fill(r, i, NULL)
  OBVIOUS
<1>2. w \in Tab /\ w.fd_ofiles[i] = NULL
  <2>1. NULL \in Files \union {NULL}
    OBVIOUS
  <2> QED BY ONLY r \in Tab, i \in Fds, <1>1, <2>1, FillIs DEF Filled
<1>3. Near(r, i)
  BY DEF Near, Exact
<1>4. Near(w, i)
  BY <1>1, <1>3, NearFill
<1>5. Exact(fd_unused(w, i))
  BY <1>2, <1>4, ExactUnused
<1>6. fdremove(r, i) = fd_unused(w, i)
  BY ONLY <1>1 DEF fdremove, Fill
<1> QED BY ONLY <1>5, <1>6

\* fdalloc enters a slot that is still empty.
LEMMA NearAlloc ==
  ASSUME NEW r \in Tab, NEW want \in Fds, Exact(r), Candidates(r, want) # {}
  PROVE  LET s == fdalloc(r, want)
             i == Min(Candidates(r, want))
         IN /\ s \in Tab /\ i \in Fds /\ i \in s.fd_map /\ Near(s, i)
            /\ s.fd_ofiles[i] = NULL /\ s.fd_refcnt = r.fd_refcnt
<1>1. PICK s : s = fdalloc(r, want)
  OBVIOUS
<1>2. PICK i : i = Min(Candidates(r, want))
  OBVIOUS
<1>3. Cover(r)
  BY DEF Exact, Cover
<1>4. /\ i \in Fds /\ i \notin r.fd_map /\ r.fd_ofiles[i] = NULL
      /\ \A j \in Candidates(r, want) : i <= j
      /\ s \in Tab /\ s.fd_refcnt = r.fd_refcnt
      /\ s.fd_ofiles = r.fd_ofiles
      /\ s.fd_freefile = (IF want <= r.fd_freefile THEN i ELSE r.fd_freefile)
      /\ s.fd_map = r.fd_map \union {i}
      /\ s.fd_lastfile = IF i > r.fd_lastfile THEN i ELSE r.fd_lastfile
  BY <1>1, <1>2, <1>3, Allocs
<1>5. Fds \subseteq Nat /\ r.fd_lastfile \in Nat /\ r.fd_freefile \in Nat /\ r.fd_map \subseteq Fds
  BY DescrAssumption DEF Tab
<1>6. \A j \in Fds \ {i} : j \in s.fd_map <=> s.fd_ofiles[j] # NULL
  BY <1>4 DEF Exact
<1>7. \A j \in Fds \ {i} : j \notin s.fd_map => j >= s.fd_freefile
  <2> SUFFICES ASSUME NEW j \in Fds \ {i}, j \notin s.fd_map PROVE j >= s.fd_freefile
    OBVIOUS
  <2>1. j \notin r.fd_map /\ j >= r.fd_freefile
    BY <1>4 DEF Exact
  <2>2. want <= r.fd_freefile => j \in Candidates(r, want)
    BY <1>5, <2>1 DEF Candidates
  <2> QED BY <1>4, <1>5, <2>1, <2>2
<1>8. \A j \in s.fd_map : j <= s.fd_lastfile
  <2> SUFFICES ASSUME NEW j \in s.fd_map PROVE j <= s.fd_lastfile
    OBVIOUS
  <2>1. j \in Nat /\ (j = i \/ j <= r.fd_lastfile)
    BY <1>4, <1>5 DEF Exact
  <2>2. i \in Nat
    BY <1>4, <1>5
  <2>3. s.fd_lastfile = IF i > r.fd_lastfile THEN i ELSE r.fd_lastfile
    BY <1>4
  <2> QED BY ONLY <1>5, <2>1, <2>2, <2>3
<1>9. s.fd_lastfile \in s.fd_map \union {0}
  <2>1. r.fd_lastfile \in r.fd_map \union {0}
    BY DEF Exact
  <2> QED BY <1>4, <2>1
<1>10. Near(s, i)
  BY ONLY <1>6, <1>7, <1>8, <1>9 DEF Near
<1> QED BY ONLY <1>1, <1>2, <1>4, <1>10

\* No file can get as many descriptors as its count can take.
Roomy == MaxCount > Cardinality(Tables \X Fds)

\* What a step of p may change: no process's table, nothing of another process's
\* call, only the slots of its own table, and no hint for the worse.
Works(k, l, p) ==
  /\ Shape(l)
  /\ \A q \in Procs : Stays(k, l, p, q)
  /\ \A t \in Tables : /\ l.tab[t].fd_refcnt = k.tab[t].fd_refcnt
                       /\ Roomy /\ Exact(k.tab[t]) => Exact(l.tab[t])
                       /\ t # k.proc[p].p_fd => l.tab[t].fd_ofiles = k.tab[t].fd_ofiles

\* Such a step, after which p is at none of these places.
Goes(k, l, p) == Works(k, l, p) /\ l.proc[p].pc \notin {"fdplock", "flock", "accept"}

LEMMA FrameWorks ==
  ASSUME NEW k, NEW l, NEW p, Frame(k, l, p)
  PROVE  Works(k, l, p)
<1>1. \A t \in Tables : Exact(k.tab[t]) => Exact(l.tab[t])
  BY ExactAlike DEF Frame
<1> QED BY <1>1 DEF Frame, Works, Alike

LEMMA EndsGoes ==
  ASSUME NEW k, NEW l, NEW p, Ends(k, l, p)
  PROVE  Goes(k, l, p)
BY FrameWorks DEF Ends, Goes

\* Two such steps are one.
LEMMA WorksAfter ==
  ASSUME NEW k, NEW l, NEW m, NEW p \in Procs, Works(k, l, p), Works(l, m, p)
  PROVE  Works(k, m, p)
<1>1. \A q \in Procs : Stays(k, m, p, q)
  BY DEF Works, Stays
<1>2. k.proc[p].p_fd = l.proc[p].p_fd
  BY DEF Works, Stays
<1> QED BY <1>1, <1>2 DEF Works

LEMMA GoesAfter ==
  ASSUME NEW k, NEW l, NEW m, NEW p \in Procs, Frame(k, l, p), Goes(l, m, p)
  PROVE  Goes(k, m, p)
<1>1. Works(k, l, p) /\ Works(l, m, p) /\ m.proc[p].pc \notin {"fdplock", "flock", "accept"}
  BY FrameWorks DEF Goes
<1>2. Works(k, m, p)
  BY <1>1, WorksAfter
<1> QED BY <1>1, <1>2 DEF Goes

\* Table s may take the place of r: it has the same processes, and its hints
\* are exact if those of r were and no count is at its limit.
Keeper(r, s) ==
  s \in Tab /\ s.fd_refcnt = r.fd_refcnt /\ (Roomy /\ Exact(r) => Exact(s))

\* A table that may take the place of the old one, and then files and locks only.
LEMMA TableGoes ==
  ASSUME NEW k, Shape(k), NEW p \in Procs, NEW t \in Tables, t = k.proc[p].p_fd,
         NEW s, Keeper(k.tab[t], s), NEW l, Ends(WithTable(k, t, s), l, p)
  PROVE  Goes(k, l, p)
<1>1. s \in Tab /\ s.fd_refcnt = k.tab[t].fd_refcnt /\ (Roomy /\ Exact(k.tab[t]) => Exact(s))
  BY DEF Keeper
<1>2. PICK m : m = WithTable(k, t, s)
  OBVIOUS
<1>3. /\ Shape(m) /\ m.proc = k.proc /\ m.tab[t] = s
      /\ \A a \in Tables \ {t} : m.tab[a] = k.tab[a]
  BY <1>1, <1>2, Table
<1>4. Works(k, m, p)
  BY <1>1, <1>3 DEF Works, Stays
<1>5. Works(m, l, p) /\ l.proc[p].pc \notin {"fdplock", "flock", "accept"}
  BY <1>2, EndsGoes DEF Goes
<1>6. Works(k, l, p)
  BY <1>4, <1>5, WorksAfter
<1> QED BY <1>5, <1>6 DEF Goes

LEMMA KeeperUnused ==
  ASSUME NEW r \in Tab, NEW i \in Fds
  PROVE  fd_unused(r, i) \in Tab /\ fd_unused(r, i).fd_refcnt = r.fd_refcnt
<1>1. PICK n : n = find_last_set(r, i)
  OBVIOUS
<1>2. n \in Fds
  BY <1>1, LastSet
<1> QED BY <1>1, <1>2 DEF fd_unused, Tab

\* fdremove.
LEMMA KeeperRemove ==
  ASSUME NEW r \in Tab, NEW i \in Fds
  PROVE  Keeper(r, fdremove(r, i))
<1>1. PICK w : w = Fill(r, i, NULL)
  OBVIOUS
<1>2. Filled(r, w, i, NULL)
  BY <1>1, FillIs
<1>3. w \in Tab /\ w.fd_refcnt = r.fd_refcnt
  BY <1>2 DEF Filled
<1>4. fd_unused(w, i) \in Tab /\ fd_unused(w, i).fd_refcnt = w.fd_refcnt
  BY <1>3, KeeperUnused
<1>5. fdremove(r, i) = fd_unused(w, i)
  BY ONLY <1>1 DEF fdremove, Fill
<1>6. Exact(r) => Exact(fdremove(r, i))
  BY ExactRemove
<1> QED BY ONLY <1>3, <1>4, <1>5, <1>6 DEF Keeper

\* fdalloc changes no slot.
LEMMA AllocType ==
  ASSUME NEW r \in Tab, NEW want \in Fds, Candidates(r, want) # {}
  PROVE  LET s == fdalloc(r, want)
             i == Min(Candidates(r, want))
         IN s \in Tab /\ i \in Fds /\ s.fd_refcnt = r.fd_refcnt /\ s.fd_ofiles = r.fd_ofiles
<1>1. PICK S : S = Candidates(r, want)
  OBVIOUS
<1>2. PICK i : i = Min(S)
  OBVIOUS
<1>3. S \in SUBSET Nat /\ S \subseteq Fds /\ S # {}
  BY <1>1, DescrAssumption DEF Candidates
<1>4. i \in Fds
  BY <1>2, <1>3, HasMin
<1>5. PICK s : s = fdalloc(r, want)
  OBVIOUS
<1>6. s = fd_used([r EXCEPT !.fd_freefile = IF want <= @ THEN i ELSE @], i)
  BY ONLY <1>1, <1>2, <1>5 DEF fdalloc
<1>7. s \in Tab /\ s.fd_refcnt = r.fd_refcnt /\ s.fd_ofiles = r.fd_ofiles
  <2>1. PICK m : m = [r EXCEPT !.fd_freefile = IF want <= @ THEN i ELSE @]
    OBVIOUS
  <2>2. m \in Tab /\ m.fd_refcnt = r.fd_refcnt /\ m.fd_ofiles = r.fd_ofiles
    BY <1>4, <2>1 DEF Tab
  <2>3. s = fd_used(m, i)
    BY ONLY <1>6, <2>1
  <2> QED BY ONLY <1>4, <2>2, <2>3 DEF fd_used, Tab
<1> QED BY ONLY <1>1, <1>2, <1>4, <1>5, <1>7

\* fdrelease, the close of a descriptor,
LEMMA GoesRelease ==
  ASSUME NEW k, Shape(k), NEW p \in Procs, k.proc[p].p_fd \in Tables, NEW i \in Fds
  PROVE  Goes(k, fdrelease(k, p, i), p)
<1>1. PICK t \in Tables : t = k.proc[p].p_fd
  OBVIOUS
<1>2. k.tab[t] \in Tab
  BY DEF Shape
<1>3. PICK f : f = k.tab[t].fd_ofiles[i]
  OBVIOUS
<1>4. CASE f = NULL
  <2>1. fdrelease(k, p, i) = AfterClosef(k, p)
    BY ONLY <1>1, <1>3, <1>4 DEF fdrelease
  <2> QED BY <2>1, EndsAfterClosef, EndsGoes
<1>5. CASE f # NULL
  <2>1. PICK r : r = fdremove(k.tab[t], i)
    OBVIOUS
  <2>2. Keeper(k.tab[t], r) /\ r \in Tab
    BY <1>2, <2>1, KeeperRemove DEF Keeper
  <2>3. PICK l : l = WithTable(k, t, r)
    OBVIOUS
  <2>4. fdrelease(k, p, i) = closef(FREF(l, f), p, f)
    <3>1. fdrelease(k, p, i) =
            closef(FREF([k EXCEPT !.tab[t] = fdremove(@, i)], f), p, f)
      BY <1>1, <1>3, <1>5 DEF fdrelease
    <3>2. l = [k EXCEPT !.tab[t] = fdremove(@, i)]
      BY ONLY <2>1, <2>3 DEF WithTable
    <3> QED BY ONLY <3>1, <3>2
  <2>5. f \in Files
    BY <1>2, <1>3, <1>5 DEF Tab
  <2>6. Shape(l) /\ l.proc = k.proc
    BY <2>2, <2>3, Table
  <2>7. PICK m : m = FREF(l, f)
    OBVIOUS
  <2>8. Frame(l, m, p)
    BY <2>6, <2>7, FrameFREF
  <2>9. Shape(m) /\ m.proc[p].p_fd \in Tables
    BY <2>6, <2>8, Framed
  <2>10. Ends(l, closef(m, p, f), p)
    BY <2>5, <2>8, <2>9, EndsClosef, EndsAfter
  <2>11. Goes(k, closef(m, p, f), p)
    BY <1>1, <2>2, <2>3, <2>10, TableGoes
  <2> QED BY ONLY <2>4, <2>7, <2>11
<1> QED BY <1>4, <1>5

LEMMA KeeperDupped ==
  ASSUME NEW k, Shape(k), NEW t \in Tables, NEW f \in Files, NEW i \in Fds
  PROVE  Keeper(k.tab[t], Dupped(k, t, f, i))
<1>1. PICK r : r = k.tab[t]
  OBVIOUS
<1>2. r \in Tab /\ Fds \subseteq Nat
  BY <1>1, DescrAssumption DEF Shape
<1>3. PICK w : w = Fill(r, i, f)
  OBVIOUS
<1>4. w \in Tab /\ w.fd_refcnt = r.fd_refcnt
  <2>1. Filled(r, w, i, f)
    BY <1>2, <1>3, FillIs
  <2> QED BY <2>1 DEF Filled
<1>5. fd_used(w, i) \in Tab /\ fd_used(w, i).fd_refcnt = w.fd_refcnt
  BY <1>4 DEF fd_used, Tab
<1>6. Exact(r) => Near(r, i)
  BY DEF Exact, Near
<1>7. Exact(r) => Exact(fd_used(w, i))
  BY <1>2, <1>3, <1>6, ExactUsed
<1>8. Exact(r) /\ r.fd_ofiles[i] # NULL => Exact(w)
  <2>1. Exact(r) /\ r.fd_ofiles[i] # NULL => i \in r.fd_map
    BY DEF Exact
  <2> QED BY <1>2, <1>3, <1>6, <2>1, ExactFill
<1>9. PICK d : d = Dupped(k, t, f, i)
  OBVIOUS
<1>10. d = IF k.file[f].f_count = MaxCount THEN r ELSE IF r.fd_ofiles[i] = NULL THEN fd_used(w, i) ELSE w
  BY ONLY <1>1, <1>3, <1>9 DEF Dupped
<1>11. Keeper(r, d)
  <2>1. CASE k.file[f].f_count = MaxCount
    BY <1>2, <1>10, <2>1 DEF Keeper
  <2>2. CASE k.file[f].f_count # MaxCount /\ r.fd_ofiles[i] = NULL
    <3>1. d = fd_used(w, i)
      BY ONLY <1>10, <2>2
    <3> QED BY ONLY <1>4, <1>5, <1>7, <3>1 DEF Keeper
  <2>3. CASE k.file[f].f_count # MaxCount /\ r.fd_ofiles[i] # NULL
    <3>1. d = w
      BY ONLY <1>10, <2>3
    <3> QED BY ONLY <1>4, <1>8, <2>3, <3>1 DEF Keeper
  <2> QED BY ONLY <2>1, <2>2, <2>3
<1> QED BY ONLY <1>1, <1>9, <1>11

\* finishdup,
LEMMA GoesDup ==
  ASSUME NEW k, Shape(k), NEW p \in Procs, k.proc[p].p_fd \in Tables, NEW f \in Files, NEW i \in Fds
  PROVE  Goes(k, finishdup(k, p, f, i), p)
<1>1. PICK t \in Tables : t = k.proc[p].p_fd
  OBVIOUS
<1>2. Ends(WithTable(k, t, Dupped(k, t, f, i)), finishdup(k, p, f, i), p)
  BY <1>1, EndsDup
<1>3. Keeper(k.tab[t], Dupped(k, t, f, i))
  BY KeeperDupped
<1> QED BY <1>1, <1>2, <1>3, TableGoes

\* dup with the lock,
LEMMA GoesDupLocked ==
  ASSUME NEW k, Shape(k), NEW p \in Procs, k.proc[p].p_fd \in Tables, NEW f \in Files, f = k.proc[p].fp,
         Roomy => k.file[f].f_count # MaxCount
  PROVE  Goes(k, DupLocked(k, p), p)
<1>1. PICK t \in Tables : t = k.proc[p].p_fd
  OBVIOUS
<1>2. PICK want : want = k.proc[p].fd
  OBVIOUS
<1>3. k.tab[t] \in Tab /\ want \in Fds
  BY <1>2 DEF Shape, Proc
<1>4. CASE Candidates(k.tab[t], want) = {}
  <2>1. DupLocked(k, p) = Return(fdpunlock(FRELE(k, f), p), p)
    BY <1>1, <1>2, <1>4 DEF DupLocked
  <2> QED BY <2>1, EndsDrop, EndsGoes
<1>5. CASE Candidates(k.tab[t], want) # {}
  <2>1. PICK i : i = Min(Candidates(k.tab[t], want))
    OBVIOUS
  <2>2. PICK r : r = fdalloc(k.tab[t], want)
    OBVIOUS
  <2>3. i \in Fds /\ r \in Tab /\ r.fd_refcnt = k.tab[t].fd_refcnt
    BY <1>3, <1>5, <2>1, <2>2, AllocType
  <2>4. PICK l : l = WithTable(k, t, r)
    OBVIOUS
  <2>5. DupLocked(k, p) = finishdup(l, p, f, i)
    <3>1. DupLocked(k, p) = finishdup([k EXCEPT !.tab[t] = fdalloc(@, want)], p, f, i)
      BY <1>1, <1>2, <1>5, <2>1 DEF DupLocked
    <3>2. l = [k EXCEPT !.tab[t] = fdalloc(@, want)]
      BY ONLY <2>2, <2>4 DEF WithTable
    <3> QED BY ONLY <3>1, <3>2
  <2>6. Shape(l) /\ l.proc = k.proc /\ l.file = k.file /\ l.tab[t] = r
    BY <2>3, <2>4, Table
  <2>7. PICK d : d = Dupped(l, t, f, i)
    OBVIOUS
  <2>8. d \in Tab /\ Ends(WithTable(l, t, d), finishdup(l, p, f, i), p)
    BY <1>1, <2>3, <2>6, <2>7, EndsDup
  <2>9. WithTable(l, t, d) = WithTable(k, t, d)
    BY <2>3, <2>4, <2>8, Retable
  <2>10. Keeper(k.tab[t], d)
    <3>1. Keeper(r, d)
      BY <2>3, <2>6, <2>7, KeeperDupped
    <3>2. ASSUME Roomy, Exact(k.tab[t]) PROVE Exact(d)
      <4>1. i \in r.fd_map /\ Near(r, i) /\ r.fd_ofiles[i] = NULL
        BY <1>3, <1>5, <2>1, <2>2, <3>2, NearAlloc
      <4>2. l.file[f].f_count # MaxCount
        BY <2>6, <3>2
      <4>3. d = fd_used(Fill(r, i, f), i)
        BY ONLY <2>6, <2>7, <4>1, <4>2 DEF Dupped
      <4> QED BY <2>3, <4>1, <4>3, ExactUsed
    <3> QED BY ONLY <2>3, <3>1, <3>2 DEF Keeper
  <2>11. Goes(k, finishdup(l, p, f, i), p)
    BY <1>1, <2>8, <2>9, <2>10, TableGoes
  <2> QED BY ONLY <2>5, <2>11
<1> QED BY <1>4, <1>5

\* falloc,
LEMMA GoesFalloc ==
  ASSUME NEW k, Shape(k), NEW p \in Procs, k.proc[p].p_fd \in Tables
  PROVE  Goes(k, falloc(k, p), p)
<1>1. PICK t \in Tables : k.proc[p].p_fd = t
  OBVIOUS
<1>2. k.tab[t] \in Tab /\ k.proc[p] \in Proc /\ 0 \in Fds
  BY DescrAssumption DEF Shape
<1>3. CASE Candidates(k.tab[t], 0) = {}
  <2>1. falloc(k, p) = AfterClosef(k, p)
    BY <1>1, <1>3 DEF falloc
  <2> QED BY <2>1, EndsAfterClosef, EndsGoes
<1>4. CASE Candidates(k.tab[t], 0) # {}
  <2>1. PICK i : i = Min(Candidates(k.tab[t], 0))
    OBVIOUS
  <2>2. PICK s : s = fdalloc(k.tab[t], 0)
    OBVIOUS
  <2>3. i \in Fds /\ s \in Tab /\ s.fd_refcnt = k.tab[t].fd_refcnt
    BY <1>2, <1>4, <2>1, <2>2, AllocType
  <2>4. Exact(k.tab[t]) => i \in s.fd_map /\ Near(s, i) /\ s.fd_ofiles[i] = NULL
    BY <1>2, <1>4, <2>1, <2>2, NearAlloc
  <2>5. CASE {f \in Files : ~k.file[f].open} = {}
    <3>1. PICK r : r = fd_unused(s, i)
      OBVIOUS
    <3>2. PICK l : l = WithTable(k, t, r)
      OBVIOUS
    <3>3. falloc(k, p) = AfterClosef(l, p)
      <4>1. falloc(k, p) =
              AfterClosef([k EXCEPT !.tab[t] = fd_unused(fdalloc(@, 0), i)], p)
        BY <1>1, <1>4, <2>1, <2>5 DEF falloc
      <4>2. l = [k EXCEPT !.tab[t] = fd_unused(fdalloc(@, 0), i)]
        BY ONLY <2>2, <3>1, <3>2 DEF WithTable
      <4> QED BY ONLY <4>1, <4>2
    <3>4. r \in Tab /\ r.fd_refcnt = k.tab[t].fd_refcnt
      BY <2>3, <3>1, KeeperUnused
    <3>5. Exact(k.tab[t]) => Exact(r)
      BY <2>3, <2>4, <3>1, ExactUnused
    <3>6. Keeper(k.tab[t], r)
      BY ONLY <3>4, <3>5 DEF Keeper
    <3>7. Shape(l) /\ l.proc = k.proc
      BY <3>2, <3>4, Table
    <3>8. Ends(l, AfterClosef(l, p), p)
      BY <3>7, EndsAfterClosef
    <3>9. Goes(k, AfterClosef(l, p), p)
      BY <1>1, <3>2, <3>6, <3>8, TableGoes
    <3> QED BY ONLY <3>3, <3>9
  <2>6. CASE {f \in Files : ~k.file[f].open} # {}
    <3>1. PICK f : f = CHOOSE g \in {e \in Files : ~k.file[e].open} : TRUE
      OBVIOUS
    <3>2. f \in Files
      BY <2>6, <3>1
    <3>3. PICK r : r = Fill(s, i, f)
      OBVIOUS
    <3>4. r \in Tab /\ r.fd_refcnt = k.tab[t].fd_refcnt
      <4>1. Filled(s, r, i, f)
        BY <2>3, <3>2, <3>3, FillIs
      <4> QED BY <2>3, <4>1 DEF Filled
    <3>5. Exact(k.tab[t]) => Exact(r)
      BY <2>3, <2>4, <3>2, <3>3, ExactFill
    <3>6. Keeper(k.tab[t], r)
      BY ONLY <3>4, <3>5 DEF Keeper
    <3>7. PICK a : a = WithTable(k, t, r)
      OBVIOUS
    <3>8. Shape(a) /\ a.proc = k.proc
      BY <3>4, <3>7, Table
    <3>9. PICK m : m = Allotted(k, t, i, f)
      OBVIOUS
    <3>10. Frame(a, m, p) /\ m.proc = a.proc
      <4>1. PICK fl : fl = [k.file EXCEPT ![f] = NewFile]
        OBVIOUS
      <4>2. m = [a EXCEPT !.file = fl]
        BY ONLY <2>2, <3>3, <3>7, <3>9, <4>1 DEF Allotted, WithTable
      <4> QED BY ONLY <3>8, <4>2, FrameFile
    <3>11. PICK v : v = MakerOf(k.proc[p], i, f)
      OBVIOUS
    <3>12. v \in Proc /\ v.p_fd = k.proc[p].p_fd /\ v.pc = "making"
      BY <1>2, <2>3, <3>2, <3>11 DEF MakerOf, Proc, Pcs
    <3>13. PICK l : l = falloc(k, p)
      OBVIOUS
    <3>14. l = [m EXCEPT !.proc = [m.proc EXCEPT ![p] = v]]
      <4>1. l = [Allotted(k, t, i, f) EXCEPT !.proc = [@ EXCEPT ![p] = MakerOf(k.proc[p], i, f)]]
        BY ONLY Shape(k), p \in Procs, <1>1, <1>4, <2>1, <2>6, <3>1, <3>13, FallocIs
      <4> QED BY ONLY <3>9, <3>11, <4>1
    <3>15. Frame(m, l, p) /\ l.proc[p] = v
      <4>1. Shape(m)
        BY <3>10, Framed
      <4> QED BY ONLY p \in Procs, <3>8, <3>10, <3>12, <3>14, <4>1, FrameOwn
    <3>16. Ends(a, l, p)
      <4>1. Frame(a, l, p)
        BY <3>10, <3>15, FrameTrans
      <4> QED BY <3>12, <3>15, <4>1 DEF Ends
    <3>17. Goes(k, l, p)
      BY <1>1, <3>6, <3>7, <3>16, TableGoes
    <3> QED BY ONLY <3>13, <3>17
  <2> QED BY <2>5, <2>6
<1> QED BY <1>3, <1>4

\* p is in a call that locks its table, with a file for dup and dup2 that can
\* have one more descriptor.
Fit(k, p) ==
  /\ k.proc[p].p_fd \in Tables
  /\ k.proc[p].call \in {"open", "close", "dup", "dup2", "accept"}
  /\ k.proc[p].call \in {"dup", "dup2"} =>
       k.proc[p].fp \in Files /\ (Roomy => k.file[k.proc[p].fp].f_count # MaxCount)

\* and so every call once it has the lock are steps that go on.
LEMMA GoesLocked ==
  ASSUME NEW k, Shape(k), NEW p \in Procs, Fit(k, p)
  PROVE  Goes(k, Locked(k, p), p)
<1>1. k.proc[p].p_fd \in Tables /\ k.proc[p].fd \in Fds
  BY DEF Fit, Shape, Proc
<1>2. CASE k.proc[p].call \in {"open", "accept"}
  <2>1. Locked(k, p) = falloc(k, p)
    BY <1>2 DEF Locked
  <2> QED BY <1>1, <2>1, GoesFalloc
<1>3. CASE k.proc[p].call = "close"
  <2>1. Locked(k, p) = fdrelease(k, p, k.proc[p].fd)
    BY <1>3 DEF Locked
  <2> QED BY <1>1, <2>1, GoesRelease
<1>4. CASE k.proc[p].call = "dup"
  <2>1. Locked(k, p) = DupLocked(k, p)
    BY <1>4 DEF Locked
  <2> QED BY <1>1, <1>4, <2>1, GoesDupLocked DEF Fit
<1>5. CASE k.proc[p].call = "dup2"
  <2>1. Locked(k, p) = finishdup(k, p, k.proc[p].fp, k.proc[p].fd)
    BY <1>5 DEF Locked
  <2> QED BY <1>1, <1>5, <2>1, GoesDup DEF Fit
<1> QED BY <1>2, <1>3, <1>4, <1>5 DEF Fit

\* Waits only for a lock that is held.
Waited(k, l, p) ==
  /\ Works(k, l, p) /\ l.proc[p].pc \notin {"flock", "accept"}
  /\ k.tab[k.proc[p].p_fd].fd_lock = NULL => l.proc[p].pc # "fdplock"

LEMMA GoesFdplock ==
  ASSUME NEW k, Shape(k), NEW p \in Procs, Fit(k, p)
  PROVE  Waited(k, fdplock(k, p), p)
<1>1. PICK t \in Tables : t = k.proc[p].p_fd
  BY DEF Fit
<1>2. CASE k.tab[t].fd_lock = NULL
  <2>1. PICK r : r = [k.tab[t] EXCEPT !.fd_lock = p]
    OBVIOUS
  <2>2. k.tab[t] \in Tab
    BY DEF Shape
  <2>3. r \in Tab /\ Alike(k.tab[t], r)
    BY <2>1, <2>2 DEF Tab, Alike
  <2>4. PICK l : l = WithTable(k, t, r)
    OBVIOUS
  <2>5. fdplock(k, p) = Locked(l, p)
    BY <1>1, <1>2, <2>1, <2>4 DEF fdplock, WithTable
  <2>6. /\ Shape(l) /\ l.proc = k.proc /\ l.file = k.file /\ l.tab[t] = r
        /\ \A a \in Tables \ {t} : l.tab[a] = k.tab[a]
    BY <2>3, <2>4, Table
  <2>7. Frame(k, l, p)
    BY <2>3, <2>6 DEF Frame, Stays, Alike
  <2>8. Fit(l, p)
    BY <2>6 DEF Fit
  <2>9. Goes(k, Locked(l, p), p)
    BY <2>6, <2>7, <2>8, GoesLocked, GoesAfter
  <2> QED BY <2>5, <2>9 DEF Goes, Waited
<1>3. CASE k.tab[t].fd_lock # NULL
  <2>1. PICK r : r = [k.proc[p] EXCEPT !.pc = "fdplock"]
    OBVIOUS
  <2>2. k.proc[p] \in Proc
    BY DEF Shape
  <2>3. r \in Proc /\ r.pc = "fdplock" /\ r.p_fd = k.proc[p].p_fd
    BY <2>1, <2>2 DEF Proc, Pcs
  <2>4. PICK l : l = fdplock(k, p)
    OBVIOUS
  <2>5. l = [k EXCEPT !.proc = [k.proc EXCEPT ![p] = r]]
    BY <1>1, <1>3, <2>1, <2>4 DEF fdplock
  <2>6. Frame(k, l, p) /\ l.proc[p] = r
    BY ONLY Shape(k), p \in Procs, <2>3, <2>5, FrameOwn
  <2>7. Waited(k, l, p)
    BY <1>1, <1>3, <2>3, <2>6, FrameWorks DEF Waited
  <2> QED BY <2>4, <2>7
<1> QED BY <1>2, <1>3

-----------------------------------------------------------------------------
(***************************************************************************)
(* The same of every step of a process on its own.                         *)
(***************************************************************************)

\* A step of p from k to l, after which p waits for its table's lock only if
\* somebody holds it, and is in flock or accept only if it may be, in flock for a
\* file of its table.
Progress(k, l, p) ==
  /\ Works(k, l, p)
  /\ l.proc[p].pc = "fdplock" =>
       /\ k.tab[k.proc[p].p_fd].fd_lock # NULL
       /\ k.proc[p].pc \notin {"making", "closef", "fo_close"}
  /\ l.proc[p].pc = "flock" =>
       l.tab[l.proc[p].p_fd].fd_ofiles[l.proc[p].fd] = l.proc[p].fp
  /\ l.proc[p].pc \in {"flock", "accept"} => l.proc[p].pc \in program[p]

\* The step taken is one of these.
Stepped(p) == \E l : Becomes(l) /\ Progress(System, l, p)

LEMMA GoesStepped ==
  ASSUME NEW p, NEW l, Becomes(l), Goes(System, l, p)
  PROVE  Stepped(p)
<1>1. Progress(System, l, p)
  BY DEF Goes, Progress
<1> QED BY <1>1 DEF Stepped

LEMMA ShapeNow ==
  ASSUME Inv
  PROVE  Shape(System)
<1>1. PICK k : k = System
  OBVIOUS
<1>2. Rest(k)
  BY <1>1, Now
<1>3. k \in Sys
  BY <1>2 DEF Rest, Mid
<1>4. Shape(k)
  BY ONLY <1>3 DEF Sys, Shape
<1> QED BY ONLY <1>1, <1>4

\* There is room for one more descriptor of a file.
LEMMA Room ==
  ASSUME NEW k, NEW p, NEW h, NEW u, NEW x, Mid(k, p, h, u, x, NULL),
         NEW f \in Files, k.file[f].open, Roomy
  PROVE  k.file[f].f_count # MaxCount
<1>1. FileInv(k, p, u, x, NULL, f) /\ NULL \notin Files
  BY DescrAssumption DEF Mid
<1>2. k.file[f].f_count = Cardinality(SlotsIn(k.tab, f)) + 0
  BY <1>1 DEF FileInv, One
<1>3. IsFiniteSet(Tables \X Fds) /\ SlotsIn(k.tab, f) \subseteq Tables \X Fds
  BY DescrAssumption, FS_Product DEF SlotsIn
<1>4. /\ Cardinality(SlotsIn(k.tab, f)) <= Cardinality(Tables \X Fds)
      /\ Cardinality(SlotsIn(k.tab, f)) \in Nat /\ Cardinality(Tables \X Fds) \in Nat
  <2>1. IsFiniteSet(SlotsIn(k.tab, f)) /\ Cardinality(SlotsIn(k.tab, f)) <= Cardinality(Tables \X Fds)
    BY <1>3, FS_Subset
  <2> QED BY <1>3, <2>1, FS_CardinalityType
<1> QED BY <1>2, <1>4, DescrAssumption DEF Roomy

\* m is k but for the record of p, which is in a call that needs the lock.
LEMMA LockStepped ==
  ASSUME NEW p \in Procs, NEW m, Frame(System, m, p), m.tab = System.tab, Fit(m, p),
         System.proc[p].pc \notin {"making", "closef", "fo_close"}, Becomes(fdplock(m, p))
  PROVE  Stepped(p)
<1>1. PICK k : k = System
  OBVIOUS
<1>2. PICK l : l = fdplock(m, p)
  OBVIOUS
<1>3. Frame(k, m, p) /\ Shape(m) /\ m.proc[p].p_fd = k.proc[p].p_fd
  BY <1>1, Framed
<1>4. Waited(m, l, p)
  BY <1>2, <1>3, GoesFdplock
<1>5. Works(k, m, p) /\ Works(m, l, p)
  BY <1>3, <1>4, FrameWorks DEF Waited
<1>6. Works(k, l, p)
  BY <1>5, WorksAfter
<1>7. /\ l.proc[p].pc \notin {"flock", "accept"}
      /\ k.tab[k.proc[p].p_fd].fd_lock = NULL => l.proc[p].pc # "fdplock"
  <2>1. m.tab = k.tab
    BY <1>1
  <2> QED BY <1>3, <1>4, <2>1 DEF Waited
<1>8. k.proc[p].pc \notin {"making", "closef", "fo_close"}
  BY <1>1
<1>9. Progress(k, l, p)
  BY ONLY <1>6, <1>7, <1>8 DEF Progress
<1> QED BY <1>1, <1>2, <1>9 DEF Stepped

\* The start of a call changes no table and no file.
LEMMA Starts ==
  ASSUME Inv, NEW p \in Procs, proc[p].pc = "idle",
         NEW c \in Calls, NEW i \in Fds, NEW f, f \in Files \/ f = NULL
  PROVE  Frame(System, Started(p, c, i, f), p)
<1>1. PICK k : k = System
  OBVIOUS
<1>2. Shape(k)
  BY <1>1, ShapeNow
<1>3. PICK r : r = StarterOf(k.proc[p], c, i, f)
  OBVIOUS
<1>4. PICK l : l = Started(p, c, i, f)
  OBVIOUS
<1>5. l = [k EXCEPT !.proc = [k.proc EXCEPT ![p] = r]]
  BY ONLY p \in Procs, <1>1, <1>2, <1>3, <1>4, StartedIs
<1>6. r \in Proc /\ r.p_fd = k.proc[p].p_fd
  <2>1. k.proc[p] \in Proc
    BY <1>2 DEF Shape
  <2> QED BY <1>3, <2>1 DEF StarterOf, Proc
<1>7. Frame(k, l, p)
  BY ONLY p \in Procs, <1>2, <1>5, <1>6, FrameOwn
<1> QED BY ONLY <1>1, <1>4, <1>7

\* open and close,
LEMMA OpenStepped ==
  ASSUME Inv, NEW p \in Procs, proc[p].pc = "idle", NEW c \in {"open", "close"}, NEW i \in Fds,
         Becomes(fdplock(Started(p, c, i, NULL), p))
  PROVE  Stepped(p)
<1>1. PICK m : m = Started(p, c, i, NULL)
  OBVIOUS
<1>2. c \in Calls /\ c # "exit"
  BY DEF Calls
<1>3. Begun(m, p, c, i, NULL)
  BY <1>1, <1>2, StartsCall
<1>4. Frame(System, m, p)
  BY <1>1, <1>2, Starts
<1>5. m.tab = System.tab /\ Fit(m, p)
  BY <1>3 DEF Begun, Fit, System
<1>6. System.proc[p].pc \notin {"making", "closef", "fo_close"}
  BY DEF System
<1> QED BY ONLY p \in Procs, Becomes(fdplock(Started(p, c, i, NULL), p)), <1>1, <1>4, <1>5, <1>6, LockStepped

\* p has looked up its file and taken a reference.
LEMMA LooksFrame ==
  ASSUME Inv, NEW p \in Procs, proc[p].pc = "idle", NEW c \in Calls, c # "exit",
         NEW old \in Fds, NEW i \in Fds, NEW f, f = fd_getfile(System, p, old), f # NULL,
         NEW m, m = FREF(Started(p, c, i, f), f)
  PROVE  /\ Looked(m, p, c, i, f) /\ Frame(System, m, p) /\ m.tab = System.tab
         /\ m.file[f].open
<1>1. Looked(m, p, c, i, f)
  BY LooksUp
<1>2. f \in Files /\ Mid(m, p, FALSE, f, NULL, NULL)
  BY <1>1 DEF Looked
<1>3. PICK l : l = Started(p, c, i, f)
  OBVIOUS
<1>4. Begun(l, p, c, i, f) /\ Frame(System, l, p)
  BY <1>2, <1>3, StartsCall, Starts
<1>5. Shape(l)
  BY <1>4, Framed
<1>6. Frame(l, m, p) /\ m.tab = l.tab
  BY <1>3, <1>5, FrameFREF
<1>7. Frame(System, m, p)
  BY <1>4, <1>6, FrameTrans
<1>8. m.tab = System.tab
  BY <1>4, <1>6 DEF Begun, System
<1>9. m.file[f].open
  BY <1>2, Used
<1> QED BY <1>1, <1>7, <1>8, <1>9

\* dup and dup2,
LEMMA DupStepped ==
  ASSUME Inv, NEW p \in Procs, proc[p].pc = "idle", NEW c \in {"dup", "dup2"},
         NEW old \in Fds, NEW i \in Fds, NEW f, f = fd_getfile(System, p, old), f # NULL,
         Becomes(fdplock(FREF(Started(p, c, i, f), f), p))
  PROVE  Stepped(p)
<1>1. PICK m : m = FREF(Started(p, c, i, f), f)
  OBVIOUS
<1>2. c \in Calls /\ c # "exit"
  BY DEF Calls
<1>3. /\ Looked(m, p, c, i, f) /\ Frame(System, m, p) /\ m.tab = System.tab
      /\ m.file[f].open
  BY <1>1, <1>2, LooksFrame
<1>4. Mid(m, p, FALSE, f, NULL, NULL) /\ f \in Files
  BY <1>3 DEF Looked
<1>5. Roomy => m.file[f].f_count # MaxCount
  BY <1>3, <1>4, Room
<1>6. Fit(m, p)
  BY <1>3, <1>5 DEF Looked, Fit
<1>7. System.proc[p].pc \notin {"making", "closef", "fo_close"}
  BY DEF System
<1>8. Becomes(fdplock(m, p))
  BY <1>1
<1> QED BY ONLY p \in Procs, <1>3, <1>6, <1>7, <1>8, LockStepped

LEMMA DupsStepped ==
  ASSUME Inv, NEW p \in Procs, NEW old \in Fds, NEW new \in Fds,
         sys_dup(p, old, new) \/ sys_dup2(p, old, new)
  PROVE  Stepped(p)
<1>1. PICK f : f = fd_getfile(System, p, old)
  OBVIOUS
<1>2. proc[p].pc = "idle" /\ f # NULL
  BY <1>1 DEF sys_dup, sys_dup2, Begins
<1>3. CASE sys_dup(p, old, new)
  <2>1. Becomes(fdplock(FREF(Started(p, "dup", new, f), f), p))
    BY <1>1, <1>3 DEF sys_dup
  <2> QED BY <1>1, <1>2, <2>1, DupStepped
<1>4. CASE sys_dup2(p, old, new)
  <2>1. Becomes(fdplock(FREF(Started(p, "dup2", new, f), f), p))
    BY <1>1, <1>4 DEF sys_dup2
  <2> QED BY <1>1, <1>2, <2>1, DupStepped
<1> QED BY <1>3, <1>4

\* p goes to sleep at c, with its record otherwise as in m.
LEMMA FrameAtPc ==
  ASSUME NEW m, Shape(m), NEW p \in Procs, NEW c \in Pcs
  PROVE  LET l == AtPc(m, p, c)
         IN /\ Frame(m, l, p) /\ l.tab = m.tab /\ l.proc[p].pc = c
            /\ l.proc[p].fd = m.proc[p].fd /\ l.proc[p].fp = m.proc[p].fp
<1>1. PICK r : r = [m.proc[p] EXCEPT !.pc = c]
  OBVIOUS
<1>2. PICK l : l = AtPc(m, p, c)
  OBVIOUS
<1>3. m.proc[p] \in Proc
  BY DEF Shape
<1>4. /\ r \in Proc /\ r.pc = c /\ r.p_fd = m.proc[p].p_fd
      /\ r.fd = m.proc[p].fd /\ r.fp = m.proc[p].fp
  BY <1>1, <1>3 DEF Proc
<1>5. l = [m EXCEPT !.proc = [m.proc EXCEPT ![p] = r]]
  BY ONLY <1>1, <1>2 DEF AtPc
<1>6. Frame(m, l, p) /\ l.tab = m.tab /\ l.proc[p] = r
  BY ONLY p \in Procs, Shape(m), <1>4, <1>5, FrameOwn
<1> QED BY ONLY <1>2, <1>4, <1>6

\* operations on files,
LEMMA IoStepped ==
  ASSUME Inv, NEW p \in Procs, NEW fd \in Fds, sys_io(p, fd) \/ sys_accept(p, fd)
  PROVE  Stepped(p)
<1>1. PICK f : f = fd_getfile(System, p, fd)
  OBVIOUS
<1>2. proc[p].pc = "idle" /\ f # NULL
  BY <1>1 DEF sys_io, sys_accept, Begins
<1>3. PICK c \in {"io", "accept"} :
        c \in program[p] /\ Becomes(AtPc(FREF(Started(p, c, fd, f), f), p, c))
  <2>1. CASE sys_io(p, fd)
    <3>1. "io" \in program[p] /\ Becomes(AtPc(FREF(Started(p, "io", fd, f), f), p, "io"))
      BY <1>1, <2>1 DEF sys_io, Begins, AtPc
    <3> QED BY <3>1
  <2>2. CASE sys_accept(p, fd)
    <3>1. "accept" \in program[p] /\ Becomes(AtPc(FREF(Started(p, "accept", fd, f), f), p, "accept"))
      BY <1>1, <2>2 DEF sys_accept, Begins, AtPc
    <3> QED BY <3>1
  <2> QED BY <2>1, <2>2
<1>4. c \in Calls /\ c # "exit" /\ c \in Pcs
  BY DEF Calls, Pcs
<1>5. PICK m : m = FREF(Started(p, c, fd, f), f)
  OBVIOUS
<1>6. Frame(System, m, p)
  BY <1>1, <1>2, <1>4, <1>5, LooksFrame
<1>7. Shape(m)
  BY <1>6, Framed
<1>8. PICK l : l = AtPc(m, p, c)
  OBVIOUS
<1>9. Frame(m, l, p) /\ l.proc[p].pc = c
  BY <1>4, <1>7, <1>8, FrameAtPc
<1>10. Frame(System, l, p)
  BY <1>6, <1>9, FrameTrans
<1>11. Progress(System, l, p)
  BY <1>3, <1>9, <1>10, FrameWorks DEF Progress
<1>12. Becomes(l)
  BY <1>3, <1>5, <1>8
<1> QED BY <1>11, <1>12 DEF Stepped

\* flock,
LEMMA FlockStepped ==
  ASSUME Inv, NEW p \in Procs, NEW fd \in Fds, sys_flock(p, fd)
  PROVE  Stepped(p)
<1>1. PICK f : f = fd_getfile(System, p, fd)
  OBVIOUS
<1>2. proc[p].pc = "idle" /\ f # NULL /\ "flock" \in program[p]
  BY <1>1 DEF sys_flock, Begins
<1>3. PICK t \in Tables : System.proc[p].p_fd = t
  BY <1>2, Now, Idles
<1>4. f \in Files /\ System.tab[t].fd_ofiles[fd] = f
  <2>1. Rest(System)
    BY Now
  <2> QED BY ONLY <1>1, <1>2, <1>3, <2>1, p \in Procs, fd \in Fds, Getfile
<1>5. PICK m : m = Started(p, "flock", fd, f)
  OBVIOUS
<1>6. "flock" \in Calls /\ "flock" \in Pcs
  BY DEF Calls, Pcs
<1>7. Begun(m, p, "flock", fd, f) /\ Frame(System, m, p)
  BY <1>2, <1>4, <1>5, <1>6, StartsCall, Starts
<1>8. Shape(m) /\ m.proc[p].fd = fd /\ m.proc[p].fp = f /\ m.tab = System.tab
  BY <1>7, Framed DEF Begun, System
<1>9. PICK l : l = AtPc(m, p, "flock")
  OBVIOUS
<1>10. /\ Frame(m, l, p) /\ l.tab = m.tab /\ l.proc[p].pc = "flock"
       /\ l.proc[p].fd = m.proc[p].fd /\ l.proc[p].fp = m.proc[p].fp
  BY <1>6, <1>8, <1>9, FrameAtPc
<1>11. Frame(System, l, p)
  BY <1>7, <1>10, FrameTrans
<1>12. Works(System, l, p) /\ l.proc[p].p_fd = System.proc[p].p_fd
  BY <1>11, FrameWorks, Framed
<1>13. Becomes(l)
  BY <1>1, <1>5, <1>9 DEF sys_flock, AtPc
<1>14. Progress(System, l, p)
  BY <1>2, <1>3, <1>4, <1>8, <1>10, <1>12 DEF Progress
<1> QED BY <1>13, <1>14 DEF Stepped

\* the ends of calls,
LEMMA DoneStepped ==
  ASSUME Inv, NEW p \in Procs,
         IoDone(p) \/ FlockDone(p) \/ AcceptBad(p) \/ Closef(p) \/ FoClosed(p)
  PROVE  Stepped(p)
<1>1. PICK k : k = System
  OBVIOUS
<1>2. Shape(k) /\ Rest(k) /\ k.proc = proc
  BY <1>1, ShapeNow, Now
<1>3. k.proc[p].p_fd \in Tables /\ k.proc[p] \in Proc /\ Place(k, p)
  <2>1. k.proc[p] \in Proc /\ Place(k, p)
    BY <1>2, AtWork
  <2>2. k.proc[p].pc # "none"
    BY <1>2 DEF IoDone, FlockDone, AcceptBad, Closef, FoClosed
  <2> QED BY <2>1, <2>2 DEF Place, Proc
<1>4. PICK l : Becomes(l) /\ Ends(k, l, p)
  <2>1. CASE IoDone(p)
    <3>1. Becomes(Return(FRELE(k, proc[p].fp), p))
      BY <1>1, <2>1 DEF IoDone
    <3> QED BY <1>2, <1>3, <3>1, EndsDrop
  <2>2. CASE FlockDone(p)
    <3>1. Becomes(Return(k, p))
      BY <1>1, <2>2 DEF FlockDone
    <3> QED BY <1>2, <3>1, EndsReturn
  <2>3. CASE AcceptBad(p)
    <3>1. Becomes(AfterClosef(k, p))
      BY <1>1, <2>3 DEF AcceptBad
    <3> QED BY <1>2, <1>3, <3>1, EndsAfterClosef
  <2>4. CASE Closef(p)
    <3>1. PICK f : f = k.proc[p].new
      OBVIOUS
    <3>2. Becomes(ClosefWait(k, p, f)) /\ k.proc[p].pc = "closef"
      BY <1>1, <1>2, <2>4, <3>1 DEF Closef
    <3>3. f \in Files
      BY <1>3, <3>1, <3>2 DEF Place, Proc
    <3> QED BY <1>2, <1>3, <3>2, <3>3, EndsClosefWait
  <2>5. CASE FoClosed(p)
    <3>1. PICK f : f = k.proc[p].new
      OBVIOUS
    <3>2. Becomes(AfterClosef(Freed(k, p, f), p)) /\ k.proc[p].pc = "fo_close"
      BY <1>1, <1>2, <2>5, <3>1 DEF FoClosed
    <3>3. f \in Files
      BY <1>3, <3>1, <3>2 DEF Place, Proc
    <3> QED BY <1>2, <1>3, <3>2, <3>3, EndsFreed
  <2> QED BY <2>1, <2>2, <2>3, <2>4, <2>5
<1>5. Goes(k, l, p)
  BY <1>4, EndsGoes
<1> QED BY <1>1, <1>4, <1>5, GoesStepped

\* calls that go on with the lock or a connection,
LEMMA ResumeStepped ==
  ASSUME Inv, NEW p \in Procs, Connection(p) \/ Fdplock(p)
  PROVE  Stepped(p)
<1>1. PICK k : k = System
  OBVIOUS
<1>2. Shape(k) /\ Rest(k) /\ k.proc = proc
  BY <1>1, ShapeNow, Now
<1>3. k.proc[p].pc \in {"accept", "fdplock"} /\ Becomes(fdplock(k, p))
  BY <1>1, <1>2 DEF Connection, Fdplock
<1>4. PICK f : f = k.proc[p].fp
  OBVIOUS
<1>5. Mid(k, p, FALSE, f, NULL, NULL) /\ k.proc[p].p_fd \in Tables
  BY <1>2, <1>3, <1>4, Wakes
<1>6. Place(k, p) /\ k.proc[p] \in Proc
  BY <1>2, AtWork
<1>7. /\ k.proc[p].call \in {"open", "close", "dup", "dup2", "accept"}
      /\ k.proc[p].call \in {"dup", "dup2"} => f \in Files
  BY <1>3, <1>4, <1>6 DEF Place, Proc
<1>8. f \in Files => (Roomy => k.file[f].f_count # MaxCount)
  <2>1. ASSUME f \in Files, Roomy PROVE k.file[f].f_count # MaxCount
    <3>1. k.file[f].open
      BY <1>5, <2>1, Used
    <3> QED BY <1>5, <2>1, <3>1, Room
  <2> QED BY <2>1
<1>9. Fit(k, p)
  BY <1>4, <1>5, <1>7, <1>8 DEF Fit
<1>10. Frame(k, k, p)
  BY <1>2 DEF Frame, Alike, Stays
<1>11. k.proc[p].pc \notin {"making", "closef", "fo_close"}
  BY <1>3
<1> QED BY ONLY p \in Procs, <1>1, <1>3, <1>9, <1>10, <1>11, LockStepped

\* p ends a step with another table r, and closef of g.
LEMMA TableStepped ==
  ASSUME NEW p \in Procs, Shape(System), NEW t \in Tables, t = System.proc[p].p_fd,
         NEW s, Keeper(System.tab[t], s), NEW m, Frame(WithTable(System, t, s), m, p),
         NEW g \in Files, Becomes(closef(m, p, g))
  PROVE  Stepped(p)
<1>1. PICK k : k = System
  OBVIOUS
<1>2. PICK l : l = WithTable(k, t, s)
  OBVIOUS
<1>3. s \in Tab /\ Shape(k) /\ t = k.proc[p].p_fd /\ Keeper(k.tab[t], s) /\ Frame(l, m, p)
  BY <1>1, <1>2 DEF Keeper
<1>4. Shape(l) /\ l.proc = k.proc
  BY <1>2, <1>3, Table
<1>5. Shape(m) /\ m.proc[p].p_fd \in Tables
  BY <1>3, <1>4, Framed
<1>6. Ends(m, closef(m, p, g), p)
  BY <1>5, EndsClosef
<1>7. Ends(l, closef(m, p, g), p)
  BY <1>3, <1>6, EndsAfter
<1>8. Goes(k, closef(m, p, g), p)
  BY <1>2, <1>3, <1>7, TableGoes
<1> QED BY <1>1, <1>8, GoesStepped

\* files made
LEMMA MadeStepped ==
  ASSUME Inv, NEW p \in Procs, Made(p)
  PROVE  Stepped(p)
<1>1. PICK k : k = System
  OBVIOUS
<1>2. Shape(k) /\ Rest(k) /\ k.proc = proc
  BY <1>1, ShapeNow, Now
<1>3. PICK t, i, f, u : t = k.proc[p].p_fd /\ i = k.proc[p].fd /\ f = k.proc[p].new /\ u = k.proc[p].fp
  OBVIOUS
<1>4. Making(k, p, t, i, f, u)
  <2>1. k.proc[p].pc = "making"
    BY <1>2 DEF Made
  <2> QED BY <1>2, <1>3, <2>1, Makings
<1>5. k.proc[p].p_fd \in Tables
  BY <1>4 DEF Making
<1>6. PICK m : m = Mature(k, f)
  OBVIOUS
<1>7. Frame(k, m, p)
  <2>1. PICK fl : fl = [k.file EXCEPT ![f].f_iflags = @ \ {"LARVAL"}]
    OBVIOUS
  <2>2. m = [k EXCEPT !.file = fl]
    BY ONLY <1>6, <2>1 DEF Mature
  <2> QED BY ONLY <1>2, <2>2, FrameFile
<1>8. Shape(m)
  BY <1>7, Framed
<1>9. PICK l : l = FRELE(m, f)
  OBVIOUS
<1>10. Frame(m, l, p)
  BY <1>8, <1>9, FrameFRELE
<1>11. Frame(k, l, p)
  BY <1>7, <1>10, FrameTrans
<1>12. Shape(l) /\ l.proc[p].p_fd \in Tables
  BY <1>5, <1>11, Framed
<1>13. Ends(k, AfterClosef(l, p), p)
  BY <1>11, <1>12, EndsAfterClosef, EndsAfter
<1>14. Becomes(AfterClosef(l, p))
  BY <1>1, <1>2, <1>3, <1>6, <1>9 DEF Made, FILE_SET_MATURE, Mature
<1>15. Goes(k, AfterClosef(l, p), p)
  BY <1>13, EndsGoes
<1> QED BY <1>1, <1>14, <1>15, GoesStepped

\* or not,
LEMMA MakeFailedStepped ==
  ASSUME Inv, NEW p \in Procs, MakeFailed(p)
  PROVE  Stepped(p)
<1>1. PICK k : k = System
  OBVIOUS
<1>2. Shape(k) /\ Rest(k) /\ k.proc = proc
  BY <1>1, ShapeNow, Now
<1>3. PICK t, i, f, u : t = k.proc[p].p_fd /\ i = k.proc[p].fd /\ f = k.proc[p].new /\ u = k.proc[p].fp
  OBVIOUS
<1>4. Making(k, p, t, i, f, u)
  <2>1. k.proc[p].pc = "making"
    BY <1>2 DEF MakeFailed
  <2> QED BY <1>2, <1>3, <2>1, Makings
<1>5. t \in Tables /\ f \in Files /\ i \in Fds
  BY <1>4 DEF Making
<1>6. PICK r : r = fdremove(k.tab[t], i)
  OBVIOUS
<1>7. Keeper(k.tab[t], r) /\ r \in Tab
  <2>1. k.tab[t] \in Tab
    BY <1>2, <1>5 DEF Shape
  <2> QED BY <1>5, <1>6, <2>1, KeeperRemove DEF Keeper
<1>8. PICK l : l = WithTable(k, t, r)
  OBVIOUS
<1>9. Frame(l, l, p)
  <2>1. Shape(l)
    BY <1>2, <1>5, <1>7, <1>8, Table
  <2> QED BY <2>1 DEF Frame, Alike, Stays
<1>10. Becomes(closef(l, p, f))
  <2>1. l = [k EXCEPT !.tab[t] = fdremove(@, i)]
    BY ONLY <1>6, <1>8 DEF WithTable
  <2> QED BY <1>1, <1>2, <1>3, <2>1 DEF MakeFailed
<1> QED BY ONLY p \in Procs, <1>1, <1>2, <1>3, <1>5, <1>7, <1>8, <1>9, <1>10, TableStepped

\* Slot i, which is taken, gets another file.
LEMMA KeeperUsed ==
  ASSUME NEW r \in Tab, NEW i \in Fds, NEW f \in Files
  PROVE  Keeper(r, fd_used(Fill(r, i, f), i))
<1>1. PICK w : w = Fill(r, i, f)
  OBVIOUS
<1>2. w \in Tab /\ w.fd_refcnt = r.fd_refcnt
  <2>1. Filled(r, w, i, f)
    BY <1>1, FillIs
  <2> QED BY <2>1 DEF Filled
<1>3. PICK s : s = fd_used(w, i)
  OBVIOUS
<1>4. s \in Tab /\ s.fd_refcnt = w.fd_refcnt
  BY <1>2, <1>3 DEF fd_used, Tab
<1>5. Exact(r) => Exact(s)
  <2>1. Exact(r) => Near(r, i)
    BY DEF Exact, Near
  <2> QED BY <1>1, <1>3, <2>1, ExactUsed
<1>6. Keeper(r, s)
  BY ONLY <1>2, <1>4, <1>5 DEF Keeper
<1> QED BY ONLY <1>1, <1>3, <1>6

\* The table of dupfdopen for ENXIO.
LEMMA StolenIs ==
  ASSUME NEW r \in Tab, NEW i \in Fds, NEW j \in Fds, i # j, NEW f \in Files
  PROVE  fd_unused(fd_used(Fill(Fill(r, i, f), j, NULL), i), j) =
           fdremove(fd_used(Fill(r, i, f), i), j)
<1>1. PICK a : a = Fill(r, i, f)
  OBVIOUS
<1>2. PICK b : b = Fill(a, j, NULL)
  OBVIOUS
<1>3. PICK c : c = fd_used(a, i)
  OBVIOUS
<1>4. a \in Tab
  BY <1>1, FillIs DEF Filled
<1>5. fd_used(b, i) = Fill(c, j, NULL)
  BY ONLY <1>2, <1>3, <1>4, i \in Fds, j \in Fds DEF fd_used, Fill, Tab
<1>6. fdremove(c, j) = fd_unused(Fill(c, j, NULL), j)
  BY ONLY <1>3 DEF fdremove, Fill
<1> QED BY ONLY <1>1, <1>2, <1>3, <1>5, <1>6

LEMMA KeeperTrans ==
  ASSUME NEW r, NEW s, NEW w, Keeper(r, s), Keeper(s, w)
  PROVE  Keeper(r, w)
BY DEF Keeper

\* dupfdopen:
LEMMA OpenedStepped ==
  ASSUME Inv, NEW p \in Procs, NEW dfd \in Fds, OpenedFd(p, dfd) \/ StoleFd(p, dfd)
  PROVE  Stepped(p)
<1>1. PICK k : k = System
  OBVIOUS
<1>2. Shape(k) /\ Rest(k) /\ k.proc = proc
  BY <1>1, ShapeNow, Now
<1>3. PICK t, i, g, u : t = k.proc[p].p_fd /\ i = k.proc[p].fd /\ g = k.proc[p].new /\ u = k.proc[p].fp
  OBVIOUS
<1>4. Making(k, p, t, i, g, u)
  <2>1. k.proc[p].pc = "making"
    BY <1>2 DEF OpenedFd, StoleFd
  <2> QED BY <1>2, <1>3, <2>1, Makings
<1>5. PICK f : f = fd_getfile(k, p, dfd)
  OBVIOUS
<1>6. f # NULL
  BY <1>1, <1>5 DEF OpenedFd, StoleFd
<1>7. /\ t \in Tables /\ i \in Fds /\ g \in Files /\ "LARVAL" \in k.file[g].f_iflags
      /\ k.tab[t].fd_ofiles[i] = g
  BY <1>4 DEF Making
<1>8. f \in Files /\ k.file[f].f_iflags = {} /\ k.tab[t].fd_ofiles[dfd] = f
  BY ONLY p \in Procs, dfd \in Fds, <1>2, <1>3, <1>5, <1>6, <1>7, Getfile
<1>9. dfd # i /\ k.tab[t] \in Tab
  BY <1>2, <1>7, <1>8 DEF Shape
<1>10. PICK s : s = fd_used(Fill(k.tab[t], i, f), i)
  OBVIOUS
<1>11. Keeper(k.tab[t], s) /\ s \in Tab
  BY <1>7, <1>8, <1>9, <1>10, KeeperUsed DEF Keeper
<1>12. CASE OpenedFd(p, dfd)
  <2>1. PICK l : l = WithTable(k, t, s)
    OBVIOUS
  <2>2. Shape(l) /\ l.file = k.file
    BY <1>2, <1>7, <1>11, <2>1, Table
  <2>3. PICK m : m = OneMore(k, t, s, f)
    OBVIOUS
  <2>4. Frame(l, m, p)
    <3>1. PICK fl : fl = [k.file EXCEPT ![f].f_count = @ + 1]
      OBVIOUS
    <3>2. m = [l EXCEPT !.file = fl]
      BY ONLY <2>1, <2>3, <3>1 DEF OneMore, WithTable
    <3> QED BY ONLY <2>2, <3>2, FrameFile
  <2>5. Becomes(closef(m, p, g))
    BY ONLY <1>1, <1>2, <1>3, <1>5, <1>10, <1>12, <2>3, BecomesOpened
  <2> QED BY ONLY p \in Procs, <1>1, <1>2, <1>3, <1>7, <1>11, <2>1, <2>4, <2>5, TableStepped
<1>13. CASE StoleFd(p, dfd)
  <2>1. PICK r : r = fd_unused(fd_used(Fill(Fill(k.tab[t], i, f), dfd, NULL), i), dfd)
    OBVIOUS
  <2>2. r = fdremove(s, dfd)
    BY <1>7, <1>8, <1>9, <1>10, <2>1, StolenIs
  <2>3. Keeper(s, r)
    BY <1>11, <2>2, KeeperRemove
  <2>4. Keeper(k.tab[t], r) /\ r \in Tab
    BY <1>11, <2>3, KeeperTrans DEF Keeper
  <2>5. PICK l : l = WithTable(k, t, r)
    OBVIOUS
  <2>6. Frame(l, l, p)
    <3>1. Shape(l)
      BY <1>2, <1>7, <2>4, <2>5, Table
    <3> QED BY <3>1 DEF Frame, Alike, Stays
  <2>7. Becomes(closef(l, p, g))
    BY ONLY <1>1, <1>3, <1>5, <1>13, <2>1, <2>5, BecomesStole
  <2> QED BY ONLY p \in Procs, <1>1, <1>2, <1>3, <1>7, <2>4, <2>5, <2>6, <2>7, TableStepped
<1> QED BY <1>12, <1>13

\* Every step of a process that neither comes nor goes.
Work(p) ==
  \/ sys_open(p) \/ Made(p) \/ MakeFailed(p) \/ Fdplock(p) \/ Closef(p)
  \/ FoClosed(p) \/ IoDone(p) \/ FlockDone(p) \/ Connection(p) \/ AcceptBad(p)
  \/ \E fd \in Fds :
       \/ sys_close(p, fd) \/ sys_io(p, fd)
       \/ sys_flock(p, fd) \/ sys_accept(p, fd)
       \/ OpenedFd(p, fd) \/ StoleFd(p, fd)
       \/ \E new \in Fds : sys_dup(p, fd, new) \/ sys_dup2(p, fd, new)

\* all of them are such steps.
LEMMA WorkStepped ==
  ASSUME Inv, NEW p \in Procs, Work(p)
  PROVE  Stepped(p)
<1>1. CASE sys_open(p)
  <2>1. proc[p].pc = "idle" /\ 0 \in Fds /\ Becomes(fdplock(Started(p, "open", 0, NULL), p))
    BY <1>1, DescrAssumption DEF sys_open, Begins
  <2> QED BY <2>1, OpenStepped
<1>2. CASE Made(p) \/ MakeFailed(p)
  BY <1>2, MadeStepped, MakeFailedStepped
<1>3. CASE Fdplock(p) \/ Connection(p)
  BY <1>3, ResumeStepped
<1>4. CASE Closef(p) \/ FoClosed(p) \/ IoDone(p) \/ FlockDone(p) \/ AcceptBad(p)
  BY <1>4, DoneStepped
<1>5. ASSUME NEW fd \in Fds, sys_close(p, fd)
      PROVE  Stepped(p)
  <2>1. proc[p].pc = "idle" /\ Becomes(fdplock(Started(p, "close", fd, NULL), p))
    BY <1>5 DEF sys_close, Begins
  <2> QED BY <2>1, OpenStepped
<1>6. ASSUME NEW fd \in Fds, sys_io(p, fd) \/ sys_accept(p, fd) \/ sys_flock(p, fd)
      PROVE  Stepped(p)
  BY <1>6, IoStepped, FlockStepped
<1>7. ASSUME NEW fd \in Fds, OpenedFd(p, fd) \/ StoleFd(p, fd)
      PROVE  Stepped(p)
  BY <1>7, OpenedStepped
<1>8. ASSUME NEW fd \in Fds, NEW new \in Fds, sys_dup(p, fd, new) \/ sys_dup2(p, fd, new)
      PROVE  Stepped(p)
  BY <1>8, DupsStepped
<1> QED BY <1>1, <1>2, <1>3, <1>4, <1>5, <1>6, <1>7, <1>8 DEF Work

-----------------------------------------------------------------------------
(***************************************************************************)
(* The hints of the tables.                                                *)
(***************************************************************************)

\* The hints of a table in use tell exactly which slots are taken.
Hints == \A t \in Tables : tab[t].fd_refcnt > 0 => Exact(tab[t])

\* fdcopy keeps the hints.
LEMMA ExactCopy ==
  ASSUME NEW r \in Tab, Exact(r)
  PROVE  Exact(CopyOf(r))
<1>1. PICK out : out = Uncopied(r)
  OBVIOUS
<1>2. /\ out \subseteq Fds /\ Fds \subseteq Nat /\ r.fd_freefile \in Fds /\ r.fd_lastfile \in Fds
      /\ r.fd_map \subseteq Fds
  BY <1>1, DescrAssumption DEF Uncopied, Tab
<1>3. PICK ff : ff = Min(out \union {r.fd_freefile})
  OBVIOUS
<1>4. ff \in Fds /\ ff <= r.fd_freefile /\ \A j \in out : ff <= j
  <2>1. out \union {r.fd_freefile} \in SUBSET Nat /\ out \union {r.fd_freefile} # {}
    BY <1>2
  <2>2. /\ ff \in out \union {r.fd_freefile}
        /\ \A j \in out \union {r.fd_freefile} : ff <= j
    BY ONLY <1>3, <2>1, HasMin
  <2> QED BY <1>2, <2>2
<1>5. PICK of : of = [i \in Fds |-> IF i \in out THEN NULL ELSE r.fd_ofiles[i]]
  OBVIOUS
<1>6. of \in [Fds -> Files \union {NULL}]
  BY <1>5 DEF Tab
<1>7. PICK copy : copy = [r EXCEPT !.fd_ofiles = of, !.fd_map = r.fd_map \ out,
                                   !.fd_freefile = ff, !.fd_refcnt = 1]
  OBVIOUS
<1>8. /\ copy \in Tab /\ copy.fd_ofiles = of /\ copy.fd_map = r.fd_map \ out
      /\ copy.fd_freefile = ff /\ copy.fd_lastfile = r.fd_lastfile
  BY <1>2, <1>4, <1>6, <1>7 DEF Tab
<1>9. PICK c : c = CopyOf(r)
  OBVIOUS
<1>10. c = IF r.fd_lastfile \in out
           THEN [copy EXCEPT !.fd_lastfile = find_last_set(copy, copy.fd_lastfile)] ELSE copy
  <2>1. copy = [r EXCEPT !.fd_ofiles = [i \in Fds |-> IF i \in out THEN NULL ELSE @[i]],
                        !.fd_map = @ \ out,
                        !.fd_freefile = Min(out \union {@}),
                        !.fd_refcnt = 1]
    BY ONLY <1>3, <1>5, <1>7
  <2> QED BY ONLY <1>1, <1>9, <2>1 DEF CopyOf
<1>11. \A j \in Fds : j \in copy.fd_map <=> of[j] # NULL
  BY <1>5, <1>8 DEF Exact
<1>12. \A j \in Fds : j \notin copy.fd_map => j >= ff
  <2> SUFFICES ASSUME NEW j \in Fds, j \notin copy.fd_map PROVE j >= ff
    OBVIOUS
  <2>1. j \in out \/ j >= r.fd_freefile
    BY <1>8 DEF Exact
  <2>2. j \in Nat /\ ff \in Nat /\ r.fd_freefile \in Nat
    BY <1>2, <1>4
  <2> QED BY <1>4, <2>1, <2>2
<1>13. \A j \in copy.fd_map : j \in Fds /\ j <= r.fd_lastfile /\ j \notin out
  BY <1>2, <1>8 DEF Exact
<1>14. CASE r.fd_lastfile \in out
  <2>1. PICK last : last = find_last_set(copy, copy.fd_lastfile)
    OBVIOUS
  <2>2. PICK below : below = {j \in Fds : j < r.fd_lastfile /\ copy.fd_ofiles[j] # NULL}
    OBVIOUS
  <2>3. /\ last \in Fds /\ \A j \in below : j <= last
        /\ last \in below \/ last = 0
    BY <1>2, <1>8, <2>1, <2>2, LastSet
  <2>4. /\ c.fd_ofiles = of /\ c.fd_map = copy.fd_map /\ c.fd_freefile = ff /\ c.fd_lastfile = last
    BY <1>8, <1>10, <1>14, <2>1, <2>3 DEF Tab
  <2>5. \A j \in c.fd_map : j <= last
    <3> SUFFICES ASSUME NEW j \in c.fd_map PROVE j <= last
      OBVIOUS
    <3>1. j \in Fds /\ j <= r.fd_lastfile /\ j # r.fd_lastfile
      BY ONLY <1>13, <1>14, <2>4, j \in c.fd_map
    <3>2. j < r.fd_lastfile
      <4>1. j \in Nat /\ r.fd_lastfile \in Nat
        BY ONLY <1>2, <3>1
      <4> QED BY ONLY <3>1, <4>1
    <3>3. j \in below
      BY <1>8, <1>11, <2>2, <2>4, <3>1, <3>2
    <3> QED BY <2>3, <3>3
  <2>6. last \in c.fd_map \union {0}
    BY <1>8, <1>11, <2>2, <2>3, <2>4
  <2>7. Exact(c)
    BY ONLY <1>11, <1>12, <2>4, <2>5, <2>6 DEF Exact
  <2> QED BY ONLY <1>9, <2>7
<1>15. CASE r.fd_lastfile \notin out
  <2>1. c = copy
    BY ONLY <1>10, <1>15
  <2>2. r.fd_lastfile \in copy.fd_map \union {0}
    BY <1>8, <1>15 DEF Exact
  <2>3. Exact(c)
    BY ONLY <1>8, <1>11, <1>12, <1>13, <2>1, <2>2 DEF Exact
  <2> QED BY ONLY <1>9, <2>3
<1> QED BY <1>14, <1>15

\* Exact says what HintsHold says.
LEMMA HintsAre ==
  Inv /\ Hints => HintsHold
<1> SUFFICES ASSUME Inv, Hints, NEW t \in Tables, tab[t].fd_refcnt > 0
             PROVE  /\ tab[t].fd_map = {i \in Fds : tab[t].fd_ofiles[i] # NULL}
                    /\ \A i \in Fds \ tab[t].fd_map : i >= tab[t].fd_freefile
                    /\ tab[t].fd_lastfile = Max(tab[t].fd_map \union {0})
  BY DEF HintsHold
<1>1. PICK r : r = tab[t]
  OBVIOUS
<1>2. r \in Tab /\ Exact(r)
  BY <1>1, ShapeNow DEF Hints, Shape, System
<1>3. r.fd_map \subseteq Fds /\ Fds \subseteq Nat /\ r.fd_lastfile \in Nat
  BY <1>2, DescrAssumption DEF Tab
<1>4. r.fd_map = {i \in Fds : r.fd_ofiles[i] # NULL}
  BY <1>2, <1>3 DEF Exact
<1>5. \A i \in Fds \ r.fd_map : i >= r.fd_freefile
  BY <1>2 DEF Exact
<1>6. r.fd_lastfile = Max(r.fd_map \union {0})
  <2>1. PICK S : S = r.fd_map \union {0}
    OBVIOUS
  <2>2. PICK m : m = Max(S)
    OBVIOUS
  <2>3. S \in SUBSET Nat /\ S # {} /\ r.fd_lastfile \in S /\ \A y \in S : y <= r.fd_lastfile
    <3>1. /\ \A j \in r.fd_map : j <= r.fd_lastfile
          /\ r.fd_lastfile \in r.fd_map \union {0}
      BY <1>2 DEF Exact
    <3>2. S \in SUBSET Nat /\ r.fd_lastfile \in S
      <4>1. r.fd_map \subseteq Nat /\ 0 \in Nat
        BY ONLY <1>3
      <4>2. \A y \in S : y \in Nat
        BY ONLY <2>1, <4>1
      <4>3. r.fd_lastfile \in S
        BY ONLY <2>1, <3>1
      <4> QED BY ONLY <4>2, <4>3
    <3>3. 0 <= r.fd_lastfile
      BY ONLY <1>3
    <3>4. \A y \in S : y <= r.fd_lastfile
      BY ONLY <2>1, <3>1, <3>3
    <3> QED BY ONLY <3>2, <3>4
  <2>4. m \in S /\ \A y \in S : m >= y
    BY ONLY <1>3, <2>2, <2>3, HasMax
  <2>5. m <= r.fd_lastfile /\ m >= r.fd_lastfile /\ m \in Nat
    BY ONLY <2>3, <2>4
  <2>6. m = r.fd_lastfile
    BY ONLY <1>3, <2>5
  <2> QED BY ONLY <2>1, <2>2, <2>6
<1> QED BY ONLY <1>1, <1>4, <1>5, <1>6

\* The hints of an empty table are exact.
LEMMA EmptyExact ==
  ASSUME NEW e, e.fd_ofiles = [i \in Fds |-> NULL], e.fd_map = {}, e.fd_freefile = 0, e.fd_lastfile = 0
  PROVE  Exact(e)
BY DescrAssumption DEF Exact

\* The hints hold at first,
LEMMA BeginHints ==
  Init => Hints
<1> SUFFICES ASSUME Init, NEW t \in Tables PROVE Exact(tab[t])
  BY DEF Hints
<1>1. tab[t] = EmptyTable \/ tab[t] = [EmptyTable EXCEPT !.fd_refcnt = 1]
  BY DEF Init
<1>2. PICK e : e = tab[t]
  OBVIOUS
<1>3. e.fd_ofiles = [i \in Fds |-> NULL] /\ e.fd_map = {} /\ e.fd_freefile = 0 /\ e.fd_lastfile = 0
  BY <1>1, <1>2 DEF EmptyTable
<1>4. Exact(e)
  BY ONLY <1>3, EmptyExact
<1> QED BY ONLY <1>2, <1>4

\* in the calls on files,
LEMMA WorkHints ==
  ASSUME Inv, Hints, Roomy, NEW p \in Procs, Work(p)
  PROVE  Hints'
<1>1. PICK l : Becomes(l) /\ Progress(System, l, p)
  BY WorkStepped DEF Stepped
<1>2. PICK k : k = System
  OBVIOUS
<1>3. Works(k, l, p) /\ k.tab = tab /\ tab' = l.tab
  BY <1>1, <1>2 DEF Progress, System, Becomes
<1>4. ASSUME NEW t \in Tables, tab'[t].fd_refcnt > 0 PROVE Exact(tab'[t])
  <2>1. tab[t].fd_refcnt > 0
    BY <1>3, <1>4 DEF Works
  <2>2. Exact(tab[t])
    BY <2>1 DEF Hints
  <2> QED BY <1>3, <2>2 DEF Works
<1> QED BY <1>4 DEF Hints

\* A process between two calls is counted in its table.
LEMMA IdleCounted ==
  ASSUME Inv, NEW p \in Procs, proc[p].pc = "idle"
  PROVE  /\ proc[p].p_fd \in Tables /\ tab[proc[p].p_fd].fd_refcnt > 0
         /\ tab \in [Tables -> Tab] /\ proc \in [Procs -> Proc]
<1>1. PICK k : k = System
  OBVIOUS
<1>2. Rest(k) /\ k.proc = proc /\ k.tab = tab /\ Shape(k)
  BY <1>1, Now, ShapeNow
<1>3. PICK t : t = k.proc[p].p_fd
  OBVIOUS
<1>4. t \in Tables /\ Peopled(k, t) /\ p \in Members(k, t)
  BY <1>2, <1>3, IdleTable
<1>5. k.tab[t].fd_refcnt = Cardinality(Members(k, t))
  BY <1>4 DEF Peopled
<1>6. IsFiniteSet(Members(k, t)) /\ Cardinality(Members(k, t)) \in Nat
  BY Counts
<1>7. Cardinality(Members(k, t)) # 0
  BY <1>4, <1>6, FS_EmptySet
<1> QED BY <1>2, <1>3, <1>4, <1>5, <1>6, <1>7 DEF Shape

\* fork,
LEMMA ForkHints ==
  ASSUME Inv, Hints, NEW p \in Procs, NEW q \in Procs, fork(p, q)
  PROVE  Hints'
<1>1. PICK u : u = proc[p].p_fd
  OBVIOUS
<1>2. u \in Tables /\ tab[u].fd_refcnt > 0 /\ tab \in [Tables -> Tab]
  BY <1>1, IdleCounted DEF fork, Begins
<1>3. PICK old : old = tab[u]
  OBVIOUS
<1>4. old \in Tab /\ Exact(old)
  BY <1>2, <1>3 DEF Hints
<1>5. PICK c : c = CopyOf(old)
  OBVIOUS
<1>6. Exact(c)
  BY <1>4, <1>5, ExactCopy
<1>7. PICK t \in Tables : tab' = [tab EXCEPT ![t] = c]
  BY <1>1, <1>3, <1>5 DEF fork, fdcopy, FreeTables
<1>8. tab'[t] = c /\ \A a \in Tables \ {t} : tab'[a] = tab[a]
  BY ONLY <1>2, <1>7
<1> QED BY <1>6, <1>8 DEF Hints

\* rfork and exit,
LEMMA ShareHints ==
  ASSUME Inv, Hints, NEW p \in Procs, (\E q \in Procs : fdshare(p, q)) \/ exit(p)
  PROVE  Hints'
<1>1. PICK t : t = proc[p].p_fd
  OBVIOUS
<1>2. proc[p].pc = "idle"
  BY DEF fdshare, exit, Begins
<1>3. t \in Tables /\ tab[t].fd_refcnt > 0 /\ tab \in [Tables -> Tab]
  BY <1>1, <1>2, IdleCounted
<1>4. PICK n : tab' = [tab EXCEPT ![t].fd_refcnt = n]
  BY <1>1 DEF fdshare, exit
<1>5. PICK r : r = [tab[t] EXCEPT !.fd_refcnt = n]
  OBVIOUS
<1>6. tab'[t] = r /\ \A a \in Tables \ {t} : tab'[a] = tab[a]
  BY <1>3, <1>4, <1>5
<1>7. tab[t] \in Tab /\ Exact(tab[t])
  BY <1>3 DEF Hints
<1>8. Exact(r)
  BY <1>5, <1>7 DEF Exact, Tab
<1> QED BY <1>6, <1>8 DEF Hints

\* What a round of fdfree changes.
Quits(k, l, p) ==
  /\ Shape(l) /\ l.proc[p].pc \notin {"fdplock", "flock", "accept"}
  /\ \A q \in Procs : Stays(k, l, p, q)
  /\ \A t \in Tables : /\ l.tab[t].fd_refcnt = k.tab[t].fd_refcnt
                       /\ t # k.proc[p].p_fd => Alike(k.tab[t], l.tab[t])

\* Nothing is left to do for process p, the last one of table t.
Quit(p, t) ==
  /\ tab' = [tab EXCEPT ![t] = EmptyTable] /\ proc' = [proc EXCEPT ![p] = NoProc]

\* A round of fdfree, or its end.
LEMMA FdfreeStepped ==
  ASSUME Inv, NEW p \in Procs, fdfree(p)
  PROVE  /\ proc[p].p_fd \in Tables /\ proc[p].call = "exit"
         /\ Quit(p, proc[p].p_fd) \/ \E l : Becomes(l) /\ Quits(System, l, p)
<1>1. PICK k : k = System
  OBVIOUS
<1>2. Rest(k) /\ k.proc = proc /\ k.tab = tab /\ Shape(k) /\ NULL \in Files \union {NULL}
  BY <1>1, Now, ShapeNow
<1>3. PICK t : t = k.proc[p].p_fd
  OBVIOUS
<1>4. t \in Tables /\ k.tab[t] \in Tab /\ k.proc[p].call = "exit"
  <2>1. Place(k, p) /\ k.proc[p] \in Proc /\ k.proc[p].pc = "fdfree"
    BY <1>2, AtWork DEF fdfree
  <2> QED BY <1>2, <1>3, <2>1 DEF Place, Proc, Shape
<1>5. PICK open : open = OpenIn(k, t)
  OBVIOUS
<1>6. CASE open = {}
  <2>1. PICK l : l = [System EXCEPT !.tab[t] = EmptyTable, !.proc[p] = NoProc]
    OBVIOUS
  <2>2. Becomes(l)
    BY <1>2, <1>3, <1>5, <1>6, <2>1 DEF fdfree, OpenIn
  <2>3. l.tab = [k.tab EXCEPT ![t] = EmptyTable] /\ l.proc = [k.proc EXCEPT ![p] = NoProc]
    <3>1. PICK tb : tb = [k.tab EXCEPT ![t] = EmptyTable]
      OBVIOUS
    <3>2. PICK pr : pr = [k.proc EXCEPT ![p] = NoProc]
      OBVIOUS
    <3>3. k = [tab |-> k.tab, file |-> k.file, proc |-> k.proc]
      BY <1>2 DEF Shape
    <3>4. l = [tab |-> tb, file |-> k.file, proc |-> pr]
      BY ONLY <1>1, <2>1, <3>1, <3>2, <3>3
    <3> QED BY ONLY <3>1, <3>2, <3>4
  <2>4. Quit(p, t)
    BY <1>2, <2>2, <2>3 DEF Becomes, Quit
  <2> QED BY <1>2, <1>3, <1>4, <2>4
<1>7. CASE open # {}
  <2>1. PICK i : i = Min(open)
    OBVIOUS
  <2>2. PICK f : f = k.tab[t].fd_ofiles[i]
    OBVIOUS
  <2>3. i \in Fds /\ f \in Files
    <3>1. open \in SUBSET Nat
      BY <1>5, DescrAssumption DEF OpenIn
    <3>2. i \in open
      BY <1>7, <2>1, <3>1, HasMin
    <3> QED BY <1>4, <1>5, <2>2, <3>2 DEF OpenIn, Tab
  <2>4. PICK r : r = Fill(k.tab[t], i, NULL)
    OBVIOUS
  <2>5. r \in Tab /\ r.fd_refcnt = k.tab[t].fd_refcnt
    <3>1. Filled(k.tab[t], r, i, NULL)
      BY ONLY <1>2, <1>4, <2>3, <2>4, FillIs
    <3> QED BY ONLY <3>1 DEF Filled
  <2>6. PICK l : l = WithTable(k, t, r)
    OBVIOUS
  <2>7. /\ Shape(l) /\ l.proc = k.proc /\ l.tab[t] = r
        /\ \A a \in Tables \ {t} : l.tab[a] = k.tab[a]
    BY <1>2, <1>4, <2>5, <2>6, Table
  <2>8. PICK m : m = FREF(l, f)
    OBVIOUS
  <2>9. Frame(l, m, p)
    BY <2>7, <2>8, FrameFREF
  <2>10. Shape(m) /\ m.proc[p].p_fd \in Tables
    BY <1>3, <1>4, <2>7, <2>9, Framed
  <2>11. PICK n : n = closef(m, p, f)
    OBVIOUS
  <2>12. Frame(l, n, p) /\ n.proc[p].pc \notin {"fdplock", "flock", "accept"}
    <3>1. Ends(m, n, p)
      BY <2>3, <2>10, <2>11, EndsClosef
    <3>2. Ends(l, n, p)
      BY <2>9, <3>1, EndsAfter
    <3> QED BY <3>2 DEF Ends
  <2>13. Becomes(n)
    <3>1. Round(k, p, t, i, f)
      BY ONLY <1>3, <1>5, <1>7, <2>1, <2>2 DEF Round
    <3> QED BY ONLY fdfree(p), <1>1, <2>4, <2>6, <2>8, <2>11, <3>1, FdfreeIs
  <2>14. Quits(k, n, p)
    <3>1. \A q \in Procs : Stays(k, n, p, q)
      BY <2>7, <2>12 DEF Frame, Stays
    <3>2. \A a \in Tables : /\ n.tab[a].fd_refcnt = k.tab[a].fd_refcnt
                            /\ a # t => Alike(k.tab[a], n.tab[a])
      BY <2>5, <2>7, <2>12 DEF Frame, Alike
    <3> QED BY <1>3, <2>12, <3>1, <3>2 DEF Frame, Quits
  <2> QED BY <1>1, <1>2, <1>3, <1>4, <2>13, <2>14
<1> QED BY <1>6, <1>7

\* It leaves the hints of the tables that are in use.
LEMMA FdfreeHints ==
  ASSUME Inv, Hints, NEW p \in Procs, fdfree(p)
  PROVE  Hints'
<1>1. PICK k : k = System
  OBVIOUS
<1>2. Rest(k) /\ k.proc = proc /\ k.tab = tab /\ tab \in [Tables -> Tab]
  BY <1>1, Now, ShapeNow DEF Shape
<1>3. PICK t : t = proc[p].p_fd
  OBVIOUS
<1>4. t \in Tables /\ proc[p].call = "exit" /\ (Quit(p, t) \/ \E l : Becomes(l) /\ Quits(k, l, p))
  BY <1>1, <1>3, FdfreeStepped
<1>5. tab[t].fd_refcnt = 0
  <2>1. Peopled(k, t)
    BY <1>2, <1>4, AllPeopled
  <2>2. Members(k, t) = {}
    BY <1>2, <1>3, <1>4, <2>1 DEF Peopled, Members
  <2> QED BY <1>2, <2>1, <2>2, FS_EmptySet DEF Peopled
<1>6. CASE Quit(p, t)
  <2>1. tab'[t] = EmptyTable /\ \A a \in Tables \ {t} : tab'[a] = tab[a]
    BY <1>2, <1>4, <1>6 DEF Quit
  <2>2. tab'[t].fd_refcnt = 0
    BY <2>1, EmptyTableIs
  <2> QED BY <2>1, <2>2 DEF Hints
<1>7. ASSUME NEW l, Becomes(l), Quits(k, l, p) PROVE Hints'
  <2>1. tab' = l.tab
    BY <1>7 DEF Becomes
  <2>2. tab'[t].fd_refcnt = 0
    BY <1>2, <1>4, <1>5, <1>7, <2>1 DEF Quits
  <2>3. \A a \in Tables \ {t} : Alike(tab[a], tab'[a])
    BY <1>2, <1>3, <1>7, <2>1 DEF Quits
  <2>4. \A a \in Tables \ {t} : tab'[a].fd_refcnt > 0 => Exact(tab'[a])
    BY <2>3, ExactAlike DEF Hints, Alike
  <2> QED BY <2>2, <2>4 DEF Hints
<1> QED BY <1>4, <1>6, <1>7

\* Every step keeps the hints.
LEMMA StepHints ==
  ASSUME Roomy, Inv, Hints, Next
  PROVE  Hints'
<1>1. PICK p \in Procs : \/ Work(p) \/ exit(p) \/ fdfree(p)
                         \/ \E q \in Procs : fork(p, q) \/ fdshare(p, q)
  BY DEF Next, Work
<1>2. CASE Work(p)
  BY <1>2, WorkHints
<1>3. CASE fdfree(p)
  BY <1>3, FdfreeHints
<1>4. CASE exit(p) \/ \E q \in Procs : fdshare(p, q)
  BY <1>4, ShareHints
<1>5. CASE \E q \in Procs : fork(p, q)
  BY <1>5, ForkHints
<1> QED BY <1>1, <1>2, <1>3, <1>4, <1>5

LEMMA HintsStep ==
  Roomy => (Inv /\ Hints /\ [Next]_vars => Hints')
<1> SUFFICES ASSUME Roomy, Inv, Hints, [Next]_vars PROVE Hints'
  OBVIOUS
<1>1. CASE Next
  BY <1>1, StepHints
<1>2. CASE UNCHANGED vars
  BY <1>2 DEF Hints, vars
<1> QED BY <1>1, <1>2

\* The hints of tables that processes share are exact, under the condition
\* Careful, when no file's count of descriptors reaches its limit: at the limit
\* dup leaves behind the bit that fdalloc has set.
THEOREM HintsInvariant ==
  ASSUME Roomy
  PROVE  Spec /\ [][Careful]_vars => []HintsHold
<1>1. Inv /\ Hints /\ [Next]_vars => Hints'
  BY HintsStep
<1> QED BY <1>1, Invariance, BeginHints, HintsAre, PTL DEF Spec

-----------------------------------------------------------------------------
(***************************************************************************)
(* Processes that share files but no table.                                *)
(***************************************************************************)

\* No process calls rfork without RFFDG: descriptors are shared by fork alone.
NoSharing == \A g \in Programs, p \in Procs : "rfork" \notin g[p]

\* Then every table has one process, which never waits for the table's lock, and
\* the descriptor that flock works with stays open while it sleeps.
Private ==
  /\ \A p, q \in Procs : p # q => proc[p].p_fd # proc[q].p_fd \/ proc[p].p_fd = NULL
  /\ \A p \in Procs : proc[p].pc # "fdplock"
  /\ \A p \in Procs : proc[p].pc = "flock" =>
       tab[proc[p].p_fd].fd_ofiles[proc[p].fd] = proc[p].fp

\* Nobody else holds the lock of a process's table.
LEMMA PrivateLock ==
  ASSUME Inv, Private, NEW p \in Procs, proc[p].p_fd \in Tables, ~HoldsLock(proc[p])
  PROVE  tab[proc[p].p_fd].fd_lock = NULL
<1>1. PICK k : k = System
  OBVIOUS
<1>2. Rest(k) /\ k.proc = proc /\ k.tab = tab
  BY <1>1, Now
<1>3. PICK t : t = proc[p].p_fd
  OBVIOUS
<1>4. TabInv(k, NULL, FALSE, t) /\ k.tab[t] \in Tab /\ NULL \notin Procs /\ NULL \notin Tables
  BY <1>2, <1>3, DescrAssumption DEF Rest, Mid, Sys
<1>5. \A q \in Procs : k.tab[t].fd_lock = q => k.proc[q].p_fd = t /\ HoldsLock(k.proc[q])
  BY <1>4 DEF TabInv
<1>6. \A q \in Procs : tab[t].fd_lock # q
  <2> SUFFICES ASSUME NEW q \in Procs, tab[t].fd_lock = q PROVE FALSE
    OBVIOUS
  <2>1. proc[q].p_fd = t /\ HoldsLock(proc[q])
    BY <1>2, <1>5
  <2>2. q = p
    BY <1>3, <1>4, <2>1 DEF Private
  <2> QED BY <2>1, <2>2
<1>7. tab[t].fd_lock \in Procs \union {NULL}
  BY <1>2, <1>4 DEF Tab
<1> QED BY <1>3, <1>6, <1>7

\* Processes without a common table do nothing of what Careful names.
LEMMA PrivateCareful ==
  ASSUME Inv, Private
  PROVE  Careful
<1>1. PICK k : k = System
  OBVIOUS
<1>2. Rest(k) /\ k.proc = proc
  BY <1>1, Now
<1>3. ASSUME NEW p \in Procs, proc[p].pc \in {"idle", "accept"} PROVE LockFree(p)
  <2>1. Place(k, p) /\ k.proc[p] \in Proc
    BY <1>2, AtWork
  <2>2. proc[p].p_fd \in Tables
    BY <1>2, <1>3, <2>1 DEF Place, Proc
  <2>3. ~HoldsLock(proc[p])
    BY <1>3 DEF HoldsLock
  <2> QED BY <2>2, <2>3, PrivateLock DEF LockFree
<1>4. \A p \in Procs : AcceptBad(p) => LockFree(p)
  BY <1>3 DEF AcceptBad
<1>5. \A p, q \in Procs : fork(p, q) => LockFree(p)
  BY <1>3 DEF fork, Begins
<1>6. \A p \in Procs : ~Fdplock(p)
  BY DEF Fdplock, Private
<1> QED BY <1>4, <1>5, <1>6 DEF Careful

\* The tables of processes other than p.
Elsewhere(p) ==
  \A q \in Procs \ {p} :
    /\ proc'[q].p_fd = proc[q].p_fd /\ proc'[q].pc = proc[q].pc
    /\ proc'[q].fd = proc[q].fd /\ proc'[q].fp = proc[q].fp
    /\ proc[q].pc = "flock" =>
         tab'[proc[q].p_fd].fd_ofiles[proc[q].fd] = tab[proc[q].p_fd].fd_ofiles[proc[q].fd]

\* A step of p, whose table becomes its own or none.
LEMMA Privately ==
  ASSUME Private, NEW p \in Procs, Elsewhere(p),
         \A q \in Procs \ {p} : proc[q].p_fd # proc'[p].p_fd \/ proc'[p].p_fd = NULL,
         proc'[p].pc # "fdplock",
         proc'[p].pc = "flock" =>
           tab'[proc'[p].p_fd].fd_ofiles[proc'[p].fd] = proc'[p].fp
  PROVE  Private'
<1>1. \A a, b \in Procs : a # b => proc'[a].p_fd # proc'[b].p_fd \/ proc'[a].p_fd = NULL
  BY DEF Private, Elsewhere
<1>2. \A q \in Procs : proc'[q].pc # "fdplock"
  BY DEF Private, Elsewhere
<1>3. \A q \in Procs : proc'[q].pc = "flock" =>
        tab'[proc'[q].p_fd].fd_ofiles[proc'[q].fd] = proc'[q].fp
  BY DEF Private, Elsewhere
<1> QED BY <1>1, <1>2, <1>3 DEF Private

\* A process at work has a table, which is no other's.
LEMMA Own ==
  ASSUME Inv, Private, NEW p \in Procs, NEW q \in Procs \ {p}, proc[q].pc = "flock"
  PROVE  proc[q].p_fd \in Tables /\ proc[q].p_fd # proc[p].p_fd
<1>1. PICK k : k = System
  OBVIOUS
<1>2. Rest(k) /\ k.proc = proc
  BY <1>1, Now
<1>3. Place(k, q) /\ k.proc[q] \in Proc
  BY <1>2, AtWork
<1>4. proc[q].p_fd \in Tables /\ NULL \notin Tables
  BY <1>2, <1>3, DescrAssumption DEF Place, Proc
<1> QED BY <1>4 DEF Private

LEMMA WorkExists ==
  ASSUME NEW p \in Procs, Work(p)
  PROVE  proc[p].pc # "none"
<1>1. CASE sys_open(p)
  BY <1>1 DEF sys_open, Begins
<1>2. CASE \/ Made(p) \/ MakeFailed(p) \/ Fdplock(p) \/ Closef(p)
           \/ FoClosed(p) \/ IoDone(p) \/ FlockDone(p) \/ Connection(p) \/ AcceptBad(p)
  BY <1>2 DEF Made, MakeFailed, Fdplock, Closef, FoClosed, IoDone, FlockDone, Connection, AcceptBad
<1>3. ASSUME NEW fd \in Fds,
             sys_close(p, fd) \/ sys_io(p, fd) \/ sys_flock(p, fd) \/ sys_accept(p, fd)
      PROVE  proc[p].pc # "none"
  BY <1>3 DEF sys_close, sys_io, sys_flock, sys_accept, Begins
<1>4. ASSUME NEW fd \in Fds, OpenedFd(p, fd) \/ StoleFd(p, fd)
      PROVE  proc[p].pc # "none"
  BY <1>4 DEF OpenedFd, StoleFd
<1>5. ASSUME NEW fd \in Fds, NEW new \in Fds, sys_dup(p, fd, new) \/ sys_dup2(p, fd, new)
      PROVE  proc[p].pc # "none"
  BY <1>5 DEF sys_dup, sys_dup2, Begins
<1> QED BY <1>1, <1>2, <1>3, <1>4, <1>5 DEF Work

\* Every call of a process,
LEMMA WorkPrivate ==
  ASSUME Inv, Private, NEW p \in Procs, Work(p)
  PROVE  Private'
<1>1. PICK l : Becomes(l) /\ Progress(System, l, p)
  BY WorkStepped DEF Stepped
<1>2. PICK k : k = System
  OBVIOUS
<1>3. /\ Works(k, l, p) /\ k.tab = tab /\ k.proc = proc /\ tab' = l.tab /\ proc' = l.proc
      /\ Rest(k)
  BY <1>1, <1>2, Now DEF Progress, Becomes
<1>4. \A q \in Procs : Stays(k, l, p, q)
  BY <1>3 DEF Works
<1>5. Elsewhere(p)
  <2> SUFFICES ASSUME NEW q \in Procs \ {p}
               PROVE  /\ proc'[q].p_fd = proc[q].p_fd /\ proc'[q].pc = proc[q].pc
                      /\ proc'[q].fd = proc[q].fd /\ proc'[q].fp = proc[q].fp
                      /\ proc[q].pc = "flock" =>
                           tab'[proc[q].p_fd].fd_ofiles[proc[q].fd] = tab[proc[q].p_fd].fd_ofiles[proc[q].fd]
    BY DEF Elsewhere
  <2>1. /\ proc'[q].p_fd = proc[q].p_fd /\ proc'[q].pc = proc[q].pc
        /\ proc'[q].fd = proc[q].fd /\ proc'[q].fp = proc[q].fp
    BY <1>3, <1>4 DEF Stays
  <2>2. ASSUME proc[q].pc = "flock"
        PROVE  tab'[proc[q].p_fd].fd_ofiles = tab[proc[q].p_fd].fd_ofiles
    <3>1. proc[q].p_fd \in Tables /\ proc[q].p_fd # proc[p].p_fd
      BY <2>2, Own
    <3> QED BY <1>3, <3>1 DEF Works
  <2> QED BY <2>1, <2>2
<1>6. proc'[p].p_fd = proc[p].p_fd
  BY <1>3, <1>4 DEF Stays
<1>7. \A q \in Procs \ {p} : proc[q].p_fd # proc'[p].p_fd \/ proc'[p].p_fd = NULL
  BY <1>6 DEF Private
<1>8. proc'[p].pc # "fdplock"
  <2> SUFFICES ASSUME proc'[p].pc = "fdplock" PROVE FALSE
    OBVIOUS
  <2>1. /\ tab[proc[p].p_fd].fd_lock # NULL
        /\ proc[p].pc \notin {"making", "closef", "fo_close"}
    BY <1>1, <1>2, <1>3 DEF Progress
  <2>2. ~HoldsLock(proc[p])
    BY <2>1 DEF HoldsLock
  <2>3. proc[p].p_fd \in Tables
    <3>1. Place(k, p) /\ k.proc[p] \in Proc
      BY <1>3, AtWork
    <3>2. proc[p].pc # "none"
      BY WorkExists
    <3> QED BY <1>3, <3>1, <3>2 DEF Place, Proc
  <2> QED BY <2>1, <2>2, <2>3, PrivateLock
<1>9. proc'[p].pc = "flock" => tab'[proc'[p].p_fd].fd_ofiles[proc'[p].fd] = proc'[p].fp
  BY <1>1, <1>2, <1>3 DEF Progress
<1> QED BY <1>5, <1>7, <1>8, <1>9, Privately

\* fork, which takes a new table,
LEMMA ForkPrivate ==
  ASSUME Inv, Private, NEW p \in Procs, NEW q \in Procs, fork(p, q)
  PROVE  Private'
<1>1. tab \in [Tables -> Tab] /\ proc \in [Procs -> Proc] /\ NULL \notin Tables
  BY IdleCounted, DescrAssumption DEF fork, Begins
<1>2. PICK t \in FreeTables : tab' = [tab EXCEPT ![t] = CopyOf(tab[proc[p].p_fd])] /\ proc' = [proc EXCEPT ![q] = Idle(t)]
  BY DEF fork, fdcopy
<1>3. t \in Tables /\ \A z \in Procs : proc[z].p_fd # t
  BY DEF FreeTables
<1>4. PICK c : c = CopyOf(tab[proc[p].p_fd])
  OBVIOUS
<1>5. \A a \in Tables \ {t} : tab'[a] = tab[a]
  BY ONLY <1>1, <1>2, <1>4
<1>6. PICK s : s = Idle(t)
  OBVIOUS
<1>7. s.p_fd = t /\ s.pc = "idle"
  BY <1>6 DEF Idle
<1>8. proc'[q] = s /\ \A z \in Procs \ {q} : proc'[z] = proc[z]
  BY ONLY <1>1, <1>2, <1>6, q \in Procs
<1>9. Elsewhere(q)
  <2>1. ASSUME NEW z \in Procs \ {q}, proc[z].pc = "flock" PROVE tab'[proc[z].p_fd] = tab[proc[z].p_fd]
    <3>1. proc[z].p_fd \in Tables
      BY <2>1, Own
    <3> QED BY <1>3, <1>5, <3>1
  <2> QED BY <1>8, <2>1 DEF Elsewhere
<1>10. \A z \in Procs \ {q} : proc[z].p_fd # proc'[q].p_fd
  BY <1>3, <1>7, <1>8
<1>11. proc'[q].pc = "idle"
  BY <1>7, <1>8
<1> QED BY <1>9, <1>10, <1>11, Privately

\* exit
LEMMA ExitPrivate ==
  ASSUME Inv, Private, NEW p \in Procs, exit(p)
  PROVE  Private'
<1>1. PICK t : t = proc[p].p_fd
  OBVIOUS
<1>2. t \in Tables /\ tab \in [Tables -> Tab] /\ proc \in [Procs -> Proc]
  BY <1>1, IdleCounted DEF exit, Begins
<1>3. PICK s : s = IF tab[t].fd_refcnt > 1 THEN NoProc
                   ELSE [proc[p] EXCEPT !.pc = "fdfree", !.call = "exit"]
  OBVIOUS
<1>4. s.pc \in {"none", "fdfree"} /\ s.p_fd \in {NULL, t}
  <2>1. proc[p] \in Proc
    BY <1>2
  <2> QED BY <1>1, <1>3, <2>1, NoProcIs DEF Proc
<1>5. PICK r : r = [tab[t] EXCEPT !.fd_refcnt = @ - 1]
  OBVIOUS
<1>6. r.fd_ofiles = tab[t].fd_ofiles
  <2>1. tab[t] \in Tab
    BY <1>2
  <2> QED BY <1>5, <2>1 DEF Tab
<1>7. tab' = [tab EXCEPT ![t] = r] /\ proc' = [proc EXCEPT ![p] = s]
  BY <1>1, <1>3, <1>5 DEF exit
<1>8. \A a \in Tables : tab'[a].fd_ofiles = tab[a].fd_ofiles
  BY ONLY <1>2, <1>6, <1>7
<1>9. proc'[p] = s /\ \A z \in Procs \ {p} : proc'[z] = proc[z]
  BY ONLY <1>2, <1>7, p \in Procs
<1>10. Elsewhere(p)
  <2>1. ASSUME NEW z \in Procs \ {p}, proc[z].pc = "flock"
        PROVE  tab'[proc[z].p_fd].fd_ofiles = tab[proc[z].p_fd].fd_ofiles
    <3>1. proc[z].p_fd \in Tables
      BY <2>1, Own
    <3> QED BY <1>8, <3>1
  <2> QED BY <1>9, <2>1 DEF Elsewhere
<1>11. \A z \in Procs \ {p} : proc[z].p_fd # proc'[p].p_fd \/ proc'[p].p_fd = NULL
  BY <1>1, <1>4, <1>9 DEF Private
<1>12. proc'[p].pc \notin {"fdplock", "flock", "accept"}
  BY <1>4, <1>9
<1> QED BY <1>10, <1>11, <1>12, Privately

\* and fdfree keep the tables private,
LEMMA FdfreePrivate ==
  ASSUME Inv, Private, NEW p \in Procs, fdfree(p)
  PROVE  Private'
<1>1. PICK k : k = System
  OBVIOUS
<1>2. k.proc = proc /\ k.tab = tab /\ tab \in [Tables -> Tab] /\ proc \in [Procs -> Proc]
  BY <1>1, Now, ShapeNow DEF Shape
<1>3. PICK t : t = proc[p].p_fd
  OBVIOUS
<1>4. t \in Tables /\ (Quit(p, t) \/ \E l : Becomes(l) /\ Quits(k, l, p))
  BY <1>1, <1>3, FdfreeStepped
<1>5. CASE Quit(p, t)
  <2>1. /\ \A a \in Tables \ {t} : tab'[a] = tab[a]
        /\ proc'[p] = NoProc /\ \A z \in Procs \ {p} : proc'[z] = proc[z]
    BY <1>2, <1>4, <1>5 DEF Quit
  <2>2. Elsewhere(p)
    <3>1. ASSUME NEW z \in Procs \ {p}, proc[z].pc = "flock" PROVE tab'[proc[z].p_fd] = tab[proc[z].p_fd]
      <4>1. proc[z].p_fd \in Tables /\ proc[z].p_fd # proc[p].p_fd
        BY <3>1, Own
      <4> QED BY <1>3, <2>1, <4>1
    <3> QED BY <2>1, <3>1 DEF Elsewhere
  <2>3. proc'[p].p_fd = NULL /\ proc'[p].pc = "none"
    BY <2>1, NoProcIs
  <2> QED BY <2>2, <2>3, Privately
<1>6. ASSUME NEW l, Becomes(l), Quits(k, l, p) PROVE Private'
  <2>1. tab' = l.tab /\ proc' = l.proc /\ \A q \in Procs : Stays(k, l, p, q)
    BY <1>6 DEF Becomes, Quits
  <2>2. Elsewhere(p)
    <3>1. ASSUME NEW z \in Procs \ {p}, proc[z].pc = "flock"
          PROVE  tab'[proc[z].p_fd].fd_ofiles = tab[proc[z].p_fd].fd_ofiles
      <4>1. proc[z].p_fd \in Tables /\ proc[z].p_fd # proc[p].p_fd
        BY <3>1, Own
      <4> QED BY <1>2, <1>6, <2>1, <4>1 DEF Quits, Alike
    <3>2. ASSUME NEW z \in Procs \ {p}
          PROVE  /\ proc'[z].p_fd = proc[z].p_fd /\ proc'[z].pc = proc[z].pc
                 /\ proc'[z].fd = proc[z].fd /\ proc'[z].fp = proc[z].fp
      BY <1>2, <2>1 DEF Stays
    <3> QED BY <3>1, <3>2 DEF Elsewhere
  <2>3. proc'[p].p_fd = proc[p].p_fd /\ proc'[p].pc \notin {"fdplock", "flock", "accept"}
    BY <1>2, <1>6, <2>1 DEF Stays, Quits
  <2>4. \A q \in Procs \ {p} : proc[q].p_fd # proc'[p].p_fd \/ proc'[p].p_fd = NULL
    BY <2>3 DEF Private
  <2> QED BY <2>2, <2>3, <2>4, Privately
<1> QED BY <1>4, <1>5, <1>6

\* as they are at first.
LEMMA BeginPrivate ==
  Init => Private
<1> SUFFICES ASSUME Init PROVE Private
  OBVIOUS
<1>1. PICK t \in Tables : proc = [p \in Procs |-> IF p = first THEN Idle(t) ELSE NoProc]
  BY DEF Init
<1>2. Idle(t).pc = "idle"
  BY DEF Idle
<1> QED BY <1>1, <1>2, NoProcIs DEF Private

\* Every step keeps them so.
LEMMA StepPrivate ==
  ASSUME NoSharing, Inv, Private, Next
  PROVE  Private'
<1>1. PICK p \in Procs : \/ Work(p) \/ exit(p) \/ fdfree(p)
                         \/ \E q \in Procs : fork(p, q) \/ fdshare(p, q)
  BY DEF Next, Work
<1>2. CASE Work(p)
  BY <1>2, WorkPrivate
<1>3. CASE fdfree(p)
  BY <1>3, FdfreePrivate
<1>4. CASE exit(p)
  BY <1>4, ExitPrivate
<1>5. CASE \E q \in Procs : fork(p, q)
  BY <1>5, ForkPrivate
<1>6. CASE \E q \in Procs : fdshare(p, q)
  <2>1. "rfork" \in program[p] /\ program \in Programs
    BY <1>6 DEF fdshare, Begins, Inv
  <2> QED BY <2>1 DEF NoSharing
<1> QED BY <1>1, <1>2, <1>3, <1>4, <1>5, <1>6

LEMMA PrivateStep ==
  NoSharing => (Inv /\ Private /\ [Next]_vars => Inv' /\ Private')
<1> SUFFICES ASSUME NoSharing, Inv, Private, [Next]_vars PROVE Inv' /\ Private'
  OBVIOUS
<1>1. Inv'
  <2>1. [Careful]_vars
    BY PrivateCareful
  <2> QED BY <2>1, Step
<1>2. CASE Next
  BY <1>1, <1>2, StepPrivate
<1>3. CASE UNCHANGED vars
  BY <1>1, <1>3 DEF Private, vars
<1> QED BY <1>2, <1>3

\* A sleeping flock has a descriptor that keeps its file.
LEMMA PrivateUse ==
  Inv /\ Private => NoUseAfterFree
<1> SUFFICES ASSUME Inv, Private, NEW f \in Files, ~file[f].open
             PROVE  Slots(f) = {} /\ \A p \in Procs : f \notin {proc[p].fp, proc[p].new}
  BY DEF NoUseAfterFree
<1>1. PICK k : k = System
  OBVIOUS
<1>2. Rest(k) /\ k.proc = proc /\ k.tab = tab /\ k.file = file
  BY <1>1, Now
<1>3. FileInv(k, NULL, NULL, NULL, NULL, f) /\ NULL \notin Procs /\ NULL \notin Files
  BY <1>2, DescrAssumption DEF Rest, Mid
<1>4. SlotsIn(k.tab, f) = {} /\ UsersBut(k, NULL, f) = {} /\ MakersBut(k, NULL, f) = {}
  BY <1>2, <1>3 DEF FileInv
<1>5. Slots(f) = {}
  BY <1>2, <1>4 DEF Slots, SlotsIn
<1>6. ASSUME NEW p \in Procs PROVE f \notin {proc[p].fp, proc[p].new}
  <2>1. /\ Place(k, p) /\ k.proc[p] \in Proc
        /\ p \notin UsersBut(k, NULL, f) /\ p \notin MakersBut(k, NULL, f)
    BY <1>2, <1>4, AtWork
  <2>2. proc[p].new # f /\ (proc[p].fp = f => proc[p].call = "flock")
    BY <1>2, <1>3, <2>1 DEF UsersBut, MakersBut
  <2>3. ASSUME proc[p].fp = f, proc[p].call = "flock" PROVE FALSE
    <3>1. proc[p].pc = "flock"
      BY <1>2, <1>3, <2>1, <2>3 DEF Place
    <3>2. proc[p].p_fd \in Tables /\ proc[p].fd \in Fds
      BY <1>2, <2>1, <3>1 DEF Place, Proc
    <3>3. tab[proc[p].p_fd].fd_ofiles[proc[p].fd] = f
      BY <2>3, <3>1 DEF Private
    <3>4. \A a \in Tables, j \in Fds : tab[a].fd_ofiles[j] # f
      BY <1>2, <1>4, NoSlots
    <3> QED BY <3>2, <3>3, <3>4
  <2> QED BY <2>2, <2>3
<1> QED BY <1>5, <1>6

\* For processes that share files, after fork, but no table, without any further
\* condition: f_count is the number of slots that lead to a file and f_usecount
\* the number of calls that work with it (FREF and FRELE balance on every path);
\* closef frees no file that is in use; a closer that sleeps has somebody to wake
\* it; and a table's lock is held exactly by the call that says so.
THEOREM PrivateTables ==
  ASSUME NoSharing
  PROVE  Spec => [](CountsExact /\ NoUseAfterFree /\ CloserWoken /\ LockTellsHolder)
<1>1. Inv /\ Private /\ [Next]_vars => Inv' /\ Private'
  BY PrivateStep
<1>2. Inv /\ Private => CountsExact /\ NoUseAfterFree /\ CloserWoken /\ LockTellsHolder
  BY InvCounts, PrivateUse, InvWoken, InvLock
<1> QED BY <1>1, <1>2, Begin, BeginPrivate, PTL DEF Spec

\* For such processes, and counts that cannot run out, fd_map, fd_freefile and
\* fd_lastfile tell which descriptors are taken, through fdalloc, fd_used,
\* fd_unused and fdcopy: open and dup return the lowest one that is free.
THEOREM PrivateHints ==
  ASSUME NoSharing, Roomy
  PROVE  Spec => []HintsHold
<1>1. Inv /\ Private /\ [Next]_vars => Inv' /\ Private'
  BY PrivateStep
<1>2. Inv /\ Hints /\ [Next]_vars => Hints'
  BY HintsStep
<1> QED BY <1>1, <1>2, Begin, BeginPrivate, BeginHints, HintsAre, PTL DEF Spec

\* Processes that share a table, by rfork, as well: the counts of FREF, FRELE,
\* finishdup and fdcopy are exact, provided no process does what Careful names.
THEOREM SharedCounts ==
  Spec /\ [][Careful]_vars => []CountsExact
BY Invariance, InvCounts, PTL

\* Under the same condition a process that sleeps in closef for the last FRELE has
\* a reference to wait for.
THEOREM SharedWoken ==
  Spec /\ [][Careful]_vars => []CloserWoken
BY Invariance, InvWoken, PTL

\* Under the same condition every path through fdplock and fdpunlock leaves the
\* table's lock with the call that has it.
THEOREM SharedLock ==
  Spec /\ [][Careful]_vars => []LockTellsHolder
BY Invariance, InvLock, PTL

\* Under the same condition closef frees no file that a slot or a call leads to,
\* while nobody sleeps in flock, which takes no reference to its file.
THEOREM SharedUse ==
  Spec /\ [][Careful]_vars /\ [](\A p \in Procs : proc[p].pc # "flock") => []NoUseAfterFree
BY Invariance, InvUse, PTL

-----------------------------------------------------------------------------
(***************************************************************************)
(* Processes that share one table.                                         *)
(***************************************************************************)

\* No process copies its table, nor calls accept or flock.
NoCopying == \A g \in Programs, p \in Procs : g[p] \intersect {"fork", "accept", "flock"} = {}

\* Then there is one table for all.
Common ==
  /\ \A p, q \in Procs : proc[p].p_fd # NULL /\ proc[q].p_fd # NULL => proc[p].p_fd = proc[q].p_fd
  /\ \A p \in Procs : proc[p].pc \notin {"flock", "accept"}

\* Who closes the last descriptor of a file has the lock of the only table, or
\* is alone with it, and waits for the reference of a dup that waits for the lock:
\* the dup never gets the lock while its file is being closed.
LEMMA CommonDup ==
  ASSUME Inv, Common, NEW p \in Procs, Fdplock(p), proc[p].call \in {"dup", "dup2"}
  PROVE  file[proc[p].fp].f_count > 0
<1>1. PICK k : k = System
  OBVIOUS
<1>2. Rest(k) /\ k.proc = proc /\ k.tab = tab /\ k.file = file
  BY <1>1, Now
<1>3. proc[p].pc = "fdplock" /\ tab[proc[p].p_fd].fd_lock = NULL
  BY DEF Fdplock
<1>4. PICK f : f = proc[p].fp
  OBVIOUS
<1>5. PICK t : t = proc[p].p_fd
  OBVIOUS
<1>6. f \in Files /\ t \in Tables
  <2>1. Place(k, p) /\ k.proc[p] \in Proc
    BY <1>2, AtWork
  <2> QED BY <1>2, <1>3, <1>4, <1>5, <2>1 DEF Place, Proc
<1>7. FileInv(k, NULL, NULL, NULL, NULL, f) /\ TabInv(k, NULL, FALSE, t)
      /\ NULL \notin Procs /\ NULL \notin Files /\ NULL \notin Tables
  BY <1>2, <1>6, DescrAssumption DEF Rest, Mid
<1>8. k.file[f].open
  <2>1. p \in UsersBut(k, NULL, f)
    BY <1>2, <1>4, <1>7 DEF UsersBut
  <2> QED BY <1>7, <2>1 DEF FileInv
<1>9. k.file[f].f_count \in Nat
  BY <1>2, <1>6 DEF Rest, Mid, Sys, File
<1>10. ASSUME k.file[f].f_count = 0 PROVE FALSE
  <2>1. PICK q \in Procs : k.proc[q].pc \in {"closef", "fo_close"} /\ k.proc[q].new = f
    BY <1>6, <1>7, <1>8, <1>10 DEF FileInv
  <2>2. Place(k, q)
    BY <1>2, AtWork
  <2>3. proc[q].p_fd = t
    BY <1>2, <1>5, <1>6, <1>7, <2>1, <2>2 DEF Common, Place
  <2>4. proc[q].call = "exit"
    <3> SUFFICES ASSUME proc[q].call # "exit" PROVE FALSE
      OBVIOUS
    <3>1. HoldsLock(k.proc[q])
      BY <1>2, <2>1 DEF HoldsLock
    <3>2. k.tab[t].fd_lock = q
      BY <1>2, <1>7, <2>3, <3>1 DEF TabInv
    <3> QED BY <1>2, <1>3, <1>5, <1>7, <3>2
  <2>5. q = p
    BY <1>2, <1>5, <1>7, <2>3, <2>4 DEF TabInv
  <2> QED BY <2>4, <2>5
<1> QED BY <1>2, <1>4, <1>9, <1>10

\* Such processes do nothing of what Careful names.
LEMMA CommonCareful ==
  ASSUME NoCopying, Inv, Common
  PROVE  Careful
<1>1. \A p \in Procs : ~AcceptBad(p)
  BY DEF Common, AcceptBad
<1>2. \A p, q \in Procs : ~fork(p, q)
  <2> SUFFICES ASSUME NEW p \in Procs, NEW q \in Procs, fork(p, q) PROVE FALSE
    OBVIOUS
  <2>1. "fork" \in program[p] /\ program \in Programs
    BY DEF fork, Begins, Inv
  <2> QED BY <2>1 DEF NoCopying
<1>3. ASSUME NEW p \in Procs, Fdplock(p), proc[p].call \in {"dup", "dup2"}
      PROVE  file[proc[p].fp].f_count > 0
  BY <1>3, CommonDup
<1> QED BY <1>1, <1>2, <1>3 DEF Careful

\* A step after which each process has the table it had, or none.
LEMMA Commonly ==
  ASSUME Common, \A q \in Procs : proc'[q].p_fd \in {proc[q].p_fd, NULL},
         \A q \in Procs : proc'[q].pc \notin {"flock", "accept"}
  PROVE  Common'
BY DEF Common

\* The calls on files keep the table common,
LEMMA WorkCommon ==
  ASSUME NoCopying, Inv, Common, NEW p \in Procs, Work(p)
  PROVE  Common'
<1>1. PICK l : Becomes(l) /\ Progress(System, l, p)
  BY WorkStepped DEF Stepped
<1>2. PICK k : k = System
  OBVIOUS
<1>3. Works(k, l, p) /\ k.proc = proc /\ proc' = l.proc
  BY <1>1, <1>2, Now DEF Progress, Becomes
<1>4. \A q \in Procs : Stays(k, l, p, q)
  BY <1>3 DEF Works
<1>5. \A q \in Procs : proc'[q].p_fd = proc[q].p_fd
  BY <1>3, <1>4 DEF Stays
<1>6. \A q \in Procs \ {p} : proc'[q].pc \notin {"flock", "accept"}
  BY <1>3, <1>4 DEF Stays, Common
<1>7. proc'[p].pc \notin {"flock", "accept"}
  <2>1. l.proc[p].pc \in {"flock", "accept"} => l.proc[p].pc \in program[p]
    BY <1>1 DEF Progress
  <2>2. program \in Programs
    BY DEF Inv
  <2> QED BY <1>3, <2>1, <2>2 DEF NoCopying
<1> QED BY <1>5, <1>6, <1>7, Commonly

\* and so do rfork, which gives the new process the table of its parent,
LEMMA ShareCommon ==
  ASSUME Inv, Common, NEW p \in Procs, NEW q \in Procs, fdshare(p, q)
  PROVE  Common'
<1>1. PICK t : t = proc[p].p_fd
  OBVIOUS
<1>2. t \in Tables /\ proc \in [Procs -> Proc] /\ NULL \notin Tables
  BY <1>1, IdleCounted, DescrAssumption DEF fdshare, Begins
<1>3. Idle(t).p_fd = t /\ Idle(t).pc = "idle"
  BY DEF Idle
<1>4. proc'[q] = Idle(t) /\ \A z \in Procs \ {q} : proc'[z] = proc[z]
  BY <1>1, <1>2 DEF fdshare
<1>5. \A z \in Procs : proc'[z].p_fd \in {t, NULL}
  <2>1. \A z \in Procs : proc[z].p_fd \in {t, NULL}
    BY <1>1, <1>2 DEF Common
  <2> QED BY <1>3, <1>4, <2>1
<1>6. \A z \in Procs : proc'[z].pc \notin {"flock", "accept"}
  BY <1>3, <1>4 DEF Common
<1> QED BY <1>5, <1>6 DEF Common

\* exit and fdfree.
LEMMA ExitCommon ==
  ASSUME Inv, Common, NEW p \in Procs, exit(p) \/ fdfree(p)
  PROVE  Common'
<1>1. proc \in [Procs -> Proc] /\ System.proc = proc
  BY Now, ShapeNow DEF Shape
<1>2. CASE exit(p)
  <2>1. PICK s : s = IF tab[proc[p].p_fd].fd_refcnt > 1 THEN NoProc
                     ELSE [proc[p] EXCEPT !.pc = "fdfree", !.call = "exit"]
    OBVIOUS
  <2>2. s.pc \in {"none", "fdfree"} /\ s.p_fd \in {NULL, proc[p].p_fd}
    <3>1. proc[p] \in Proc
      BY <1>1
    <3> QED BY <2>1, <3>1, NoProcIs DEF Proc
  <2>3. proc' = [proc EXCEPT ![p] = s]
    BY <1>2, <2>1 DEF exit
  <2>4. proc'[p] = s /\ \A z \in Procs \ {p} : proc'[z] = proc[z]
    BY ONLY <1>1, <2>3, p \in Procs
  <2> QED BY <2>2, <2>4, Commonly DEF Common
<1>3. CASE fdfree(p)
  <2>1. Quit(p, proc[p].p_fd) \/ \E l : Becomes(l) /\ Quits(System, l, p)
    BY <1>3, FdfreeStepped
  <2>2. CASE Quit(p, proc[p].p_fd)
    <3>1. proc'[p] = NoProc /\ \A z \in Procs \ {p} : proc'[z] = proc[z]
      BY <1>1, <2>2 DEF Quit
    <3> QED BY <3>1, NoProcIs, Commonly DEF Common
  <2>3. ASSUME NEW l, Becomes(l), Quits(System, l, p) PROVE Common'
    <3>1. /\ proc' = l.proc /\ l.proc[p].pc \notin {"flock", "accept"}
          /\ \A q \in Procs : Stays(System, l, p, q)
      BY <2>3 DEF Becomes, Quits
    <3>2. \A q \in Procs : proc'[q].p_fd = proc[q].p_fd /\ (q # p => proc'[q].pc = proc[q].pc)
      BY <1>1, <3>1 DEF Stays
    <3> QED BY <3>1, <3>2, Commonly DEF Common
  <2> QED BY <2>1, <2>2, <2>3
<1> QED BY <1>2, <1>3

\* The first process is alone.
LEMMA BeginCommon ==
  Init => Common
<1> SUFFICES ASSUME Init PROVE Common
  OBVIOUS
<1>1. PICK t \in Tables : proc = [p \in Procs |-> IF p = first THEN Idle(t) ELSE NoProc]
  BY DEF Init
<1>2. Idle(t).pc = "idle" /\ Idle(t).p_fd = t
  BY DEF Idle
<1> QED BY <1>1, <1>2, NoProcIs DEF Common

\* Every step keeps the invariant and the table common.
LEMMA CommonStep ==
  NoCopying => (Inv /\ Common /\ [Next]_vars => Inv' /\ Common')
<1> SUFFICES ASSUME NoCopying, Inv, Common, [Next]_vars PROVE Inv' /\ Common'
  OBVIOUS
<1>1. Inv'
  <2>1. [Careful]_vars
    BY CommonCareful
  <2> QED BY <2>1, Step
<1>2. CASE Next
  <2>1. PICK p \in Procs : \/ Work(p) \/ exit(p) \/ fdfree(p)
                           \/ \E q \in Procs : fork(p, q) \/ fdshare(p, q)
    BY <1>2 DEF Next, Work
  <2>2. CASE Work(p)
    BY <1>1, <2>2, WorkCommon
  <2>3. CASE exit(p) \/ fdfree(p)
    BY <1>1, <2>3, ExitCommon
  <2>4. ASSUME NEW q \in Procs, fdshare(p, q) PROVE Common'
    BY <2>4, ShareCommon
  <2>5. ASSUME NEW q \in Procs, fork(p, q) PROVE FALSE
    <3>1. "fork" \in program[p] /\ program \in Programs
      BY <2>5 DEF fork, Begins, Inv
    <3> QED BY <3>1 DEF NoCopying
  <2> QED BY <1>1, <2>1, <2>2, <2>3, <2>4, <2>5
<1>3. CASE UNCHANGED vars
  BY <1>1, <1>3 DEF Common, vars
<1> QED BY <1>2, <1>3

\* For processes that share one table and neither fork it, accept nor flock, the
\* counts of the files are exact, closef frees no file that a slot or a call
\* leads to and is woken, and fdplock and fdpunlock balance: a dup that waits for
\* the lock never gets it while its file is being closed.
THEOREM CommonTable ==
  ASSUME NoCopying
  PROVE  Spec => [](CountsExact /\ NoUseAfterFree /\ CloserWoken /\ LockTellsHolder)
<1>1. Inv /\ Common /\ [Next]_vars => Inv' /\ Common'
  BY CommonStep
<1>2. Inv /\ Common => CountsExact /\ NoUseAfterFree /\ CloserWoken /\ LockTellsHolder
  <2>1. Common => \A p \in Procs : proc[p].pc # "flock"
    BY DEF Common
  <2> QED BY <2>1, InvCounts, InvUse, InvWoken, InvLock
<1> QED BY <1>1, <1>2, Begin, BeginCommon, PTL DEF Spec

\* For such processes, and counts that cannot run out, the hints of the table
\* tell which descriptors are taken.
THEOREM CommonHints ==
  ASSUME NoCopying, Roomy
  PROVE  Spec => []HintsHold
<1>1. Inv /\ Common /\ [Next]_vars => Inv' /\ Common'
  BY CommonStep
<1>2. Inv /\ Hints /\ [Next]_vars => Hints'
  BY HintsStep
<1> QED BY <1>1, <1>2, Begin, BeginCommon, BeginHints, HintsAre, PTL DEF Spec
=============================================================================
