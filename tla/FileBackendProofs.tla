------------------------- MODULE FileBackendProofs -------------------------
(***************************************************************************)
(* FileBackend: its types, and what the clipboard directory holds, for any *)
(* tasks, processes, items, extensions and names.                          *)
(*                                                                         *)
(* An object has one writer at a time unless two sets of one content meet, *)
(* so its temporary file goes from empty to whole (Sound).  Of a set that  *)
(* nothing overlaps we follow what its open file holds (Undisturbed) and   *)
(* what it has achieved at each place (Done); of the time since the last   *)
(* of them that ended well, what must still be there (Left, Kept).         *)
(***************************************************************************)
EXTENDS FileBackend, TLAPS

-----------------------------------------------------------------------------
(* Types: a call of set has an item and, while it writes, a file open *)

Place == Writing \cup {"none", "list", "sweep", "undrop", "rmdir", "mkdir", "store", "offer"}

JobOK(j) ==
  /\ j.at = "none" => j = NoJob
  /\ j.at # "none" => j.item \in Item
  /\ j.at \in {"mkdir", "drop"} => NameOf[j.item] \in Name
  /\ j.at \notin Writing => j.io = "open"
  /\ (j.io = "write") = (j.hand # "none")
  /\ \A p \in j.todo : p[1][1] = "current" /\ p # <<Meta, "file">>
                         /\ p # <<Stable(ExtOf[j.item]), "file">>

TypeInv == TypeOK /\ \A s \in Setter : JobOK(job[s])

-----------------------------------------------------------------------------
(* Objects *)

\* The set s has a file of the object of d open, or has written it.
Opened(s, d) == On(job[s], Object(d)) /\ job[s].io # "open"

OneOpened(d) == \A r, s \in Setter : Opened(r, d) /\ Opened(s, d) => r = s

Sound(d) ==
  /\ entry[Object(d)].file \in {Absent, d}
  /\ entry[Object(d)].tmp \in {Absent, Empty, d}
  /\ OneOpened(d)
  /\ \A s \in Setter : Opened(s, d) =>
       IF job[s].io = "write" THEN job[s].hand = "tmp" /\ entry[Object(d)].tmp = Empty
                              ELSE entry[Object(d)].tmp = d

ObjectInv == \A d \in Content \ twice : Sound(d)

-----------------------------------------------------------------------------
(* Sets that run alone *)

HistoryInv ==
  /\ \A s \in alone : job[s].at # "none" /\ \A r \in Active : r = s
  /\ \A s \in alone \cap Cli : daemon = "down"
  /\ ~over => \A r, s \in Active : r = s
  /\ \A s \in Active : job[s].item \in since

\* Nothing has overlapped s since it began.
Lonely(s) == s \in alone \/ (~over /\ s \in Active)

\* What a set that nothing has overlapped finds where it writes.
Undisturbed(s) ==
  LET j == job[s] IN
  /\ j.io = "write" => j.hand = "tmp" /\ entry[Target(j)].tmp = Empty
  /\ j.io = "rename" => entry[Target(j)].tmp = Payload(j)
  /\ j.at # "object" => entry[Object(DataOf[j.item])].file = DataOf[j.item]

LonelyInv == \A s \in Setter : Lonely(s) => Undisturbed(s)

Holds(x) == [tmp |-> Absent, file |-> x]

\* The files that a set of i leaves, by the place that makes or removes them.
Own(i) == entry[Stable(ExtOf[i])] = Holds(DataOf[i])
NoOther(i) == \A x \in Ext \ {ExtOf[i]} : entry[Stable(x)] = Holds(Absent)
NoDrop == \A m \in Name : entry[Dropped(m)] = Holds(Absent)
NoOtherDrop(i) == \A m \in Name \ {NameOf[i]} : entry[Dropped(m)] = Holds(Absent)
OwnDrop(i) == \A m \in Name : m = NameOf[i] => entry[Dropped(m)] = Holds(DataOf[i])

CurrentIs(i) == Own(i) /\ (~littered => NoOther(i))
DroppedIs(i) == OwnDrop(i) /\ (~littered => NoOtherDrop(i))
MetaIs(i) == entry[Meta] = Holds(i)

\* Nothing but what is left to sweep is in the way.
Swept(i, todo) ==
  \A f \in File, w \in Way :
    f[1] = "current" /\ <<f, w>> \notin todo \cup {<<Stable(ExtOf[i]), "file">>, <<Meta, "file">>}
      => entry[f][w] = Absent

\* What a set that runs alone has achieved at each place.
Done(s) ==
  LET j == job[s] i == j.item IN
  /\ j.at \in {"list", "sweep"} => Own(i)
  /\ j.at = "sweep" /\ ~littered => Swept(i, j.todo)
  /\ j.at \in {"undrop", "rmdir", "mkdir", "drop", "meta", "store", "offer"} => CurrentIs(i)
  /\ j.at \in {"rmdir", "mkdir"} /\ ~littered => NoDrop
  /\ j.at = "drop" /\ ~littered => NoOtherDrop(i)
  /\ j.at \in {"meta", "store", "offer"} => DroppedIs(i)
  /\ j.at \in {"store", "offer"} => MetaIs(i)
  /\ j.at = "offer" => native
  /\ j.at = "offer" /\ s \in Task => mem = i

DoneInv == \A s \in alone : Done(s)

\* What the last set that ran alone has left, until something is set after it.
Left ==
  base # None /\ since = {} =>
    /\ MetaIs(base) /\ CurrentIs(base) /\ DroppedIs(base) /\ ~over
    /\ daemon # "down" => mem = base
    /\ native => sys = DataOf[base]

\* An item whose object is whole, of the last lone set or of one since.
Kept(i) == /\ i \in Item /\ i \in {base} \cup since
           /\ entry[Object(DataOf[i])].file = DataOf[i]

KeptInv ==
  base # None /\ ~over => Kept(entry[Meta].file) /\ (daemon # "down" => Kept(mem))

LoneInv == HistoryInv /\ LonelyInv /\ DoneInv /\ Left /\ KeptInv
-----------------------------------------------------------------------------
(* Files and jobs *)

\* The files are different, and each is of one directory.
LEMMA Files ==
  /\ Meta \in File /\ Meta[1] = "current"
  /\ \A d \in Content : Object(d) \in File /\ Object(d)[1] = "object"
  /\ \A x \in Ext : Stable(x) \in File /\ Stable(x)[1] = "current" /\ Stable(x) # Meta
  /\ \A m \in Name : Dropped(m) \in File /\ Dropped(m)[1] = "drop"
  /\ \A d, e \in Content : Object(d) = Object(e) => d = e
  /\ \A x, y \in Ext : Stable(x) = Stable(y) => x = y
  /\ \A m, n \in Name : Dropped(m) = Dropped(n) => m = n
BY FileBackendAssumption DEF File, Object, Stable, Dropped, Meta

\* Every file is one of these.
LEMMA FileIs ==
  ASSUME NEW f \in File
  PROVE  \/ \E d \in Content : f = Object(d)
         \/ \E x \in Ext : f = Stable(x)
         \/ \E m \in Name : f = Dropped(m)
         \/ f = Meta
BY DEF File

\* Where a set writes, and what.
LEMMA Targets ==
  ASSUME NEW j \in Job, JobOK(j), j.at \in Writing
  PROVE  /\ j.item \in Item /\ Target(j) \in File /\ Payload(j) \in Content \cup Item
         /\ j.at = "object" => Target(j) = Object(DataOf[j.item])
         /\ j.at = "current" => Target(j) = Stable(ExtOf[j.item])
         /\ j.at = "drop" => NameOf[j.item] \in Name /\ Target(j) = Dropped(NameOf[j.item])
         /\ j.at = "meta" => Target(j) = Meta /\ Payload(j) = j.item
         /\ j.at # "meta" => Payload(j) = DataOf[j.item]
         /\ After(j) \in {"current", "list", "meta", "store"}
         /\ j.at = "object" => After(j) = "current"
         /\ j.at = "current" => After(j) = "list"
         /\ j.at = "drop" => After(j) = "meta"
         /\ j.at = "meta" => After(j) = "store"
<1>1. j.item \in Item
  BY DEF JobOK, Writing
<1>2. /\ DataOf[j.item] \in Content /\ ExtOf[j.item] \in Ext
  BY <1>1, FileBackendAssumption
<1>3. CASE j.at = "object"
  BY <1>1, <1>2, <1>3, Files DEF Target, Payload, After
<1>4. CASE j.at = "current"
  BY <1>1, <1>2, <1>4, Files DEF Target, Payload, After
<1>5. CASE j.at = "drop"
  <2>1. NameOf[j.item] \in Name
    BY <1>5 DEF JobOK
  <2> QED
    BY <1>1, <1>2, <1>5, <2>1, Files DEF Target, Payload, After
<1>6. CASE j.at = "meta"
  BY <1>1, <1>2, <1>6, Files DEF Target, Payload, After
<1> QED
  BY <1>3, <1>4, <1>5, <1>6 DEF Writing

\* What moves the entries of a file changes nothing of a job but its hand.
LEMMA MovedJobs ==
  ASSUME NEW jobs \in [Setter -> Job], NEW f, NEW to \in [Way -> Way \cup {"gone"}]
  PROVE  /\ Moved(jobs, f, to) \in [Setter -> Job]
         /\ \A s \in Setter :
              LET m == Moved(jobs, f, to)[s] j == jobs[s] IN
              /\ m.at = j.at /\ m.io = j.io /\ m.item = j.item /\ m.todo = j.todo
              /\ m.hand = IF On(j, f) /\ j.hand \in Way THEN to[j.hand] ELSE j.hand
              /\ (m.hand = "none") = (j.hand = "none")
              /\ ~On(j, f) => m = j
              /\ JobOK(j) => JobOK(m)
<1> DEFINE M == Moved(jobs, f, to)
<1>1. ASSUME NEW s \in Setter
      PROVE  M[s] = IF On(jobs[s], f) /\ jobs[s].hand \in Way
                      THEN [jobs[s] EXCEPT !.hand = to[jobs[s].hand]] ELSE jobs[s]
  BY DEF Moved
<1>2. ASSUME NEW s \in Setter
      PROVE  /\ M[s] \in Job
             /\ M[s].at = jobs[s].at /\ M[s].io = jobs[s].io /\ M[s].item = jobs[s].item
             /\ M[s].todo = jobs[s].todo
             /\ M[s].hand = IF On(jobs[s], f) /\ jobs[s].hand \in Way
                              THEN to[jobs[s].hand] ELSE jobs[s].hand
             /\ (M[s].hand = "none") = (jobs[s].hand = "none")
             /\ ~On(jobs[s], f) => M[s] = jobs[s]
  <2>1. CASE On(jobs[s], f) /\ jobs[s].hand \in Way
    <3>1. to[jobs[s].hand] \in Way \cup {"gone"}
      BY <2>1
    <3>2. M[s] = [jobs[s] EXCEPT !.hand = to[jobs[s].hand]]
      BY <1>1, <2>1
    <3> HIDE DEF M
    <3> QED
      BY <2>1, <3>1, <3>2 DEF Job, Way
  <2>2. CASE ~(On(jobs[s], f) /\ jobs[s].hand \in Way)
    BY <1>1, <2>2
  <2> QED
    BY <2>1, <2>2
<1>3. M \in [Setter -> Job]
  BY <1>2 DEF Moved
<1>4. ASSUME NEW s \in Setter, JobOK(jobs[s]) PROVE JobOK(M[s])
  <2>1. jobs[s].at = "none" => ~On(jobs[s], f)
    BY DEF On, Writing
  <2> QED
    BY <1>2, <1>4, <2>1 DEF JobOK
<1> QED
  BY <1>2, <1>3, <1>4

\* How a rename, or a removal, moves the open files under their handles.
LEMMA WayMaps ==
  /\ [tmp |-> "file", file |-> "gone"] \in [Way -> Way \cup {"gone"}]
  /\ \A v : [w \in Way |-> IF w = v THEN "gone" ELSE w] \in [Way -> Way \cup {"gone"}]
BY DEF Way

-----------------------------------------------------------------------------
(* Types *)

\* A call ends: it is no job any more, and the history stays of its type.
LEMMA EndsTypes ==
  ASSUME TypeInv, NEW s \in Setter, NEW well \in BOOLEAN, Ends(s, well), job[s].at # "none"
  PROVE  /\ job' \in [Setter -> Job] /\ \A r \in Setter : JobOK(job[r])'
         /\ over' \in BOOLEAN /\ base' \in Item \cup {None}
         /\ since' \subseteq Item \cup {User} /\ alone' \subseteq Setter /\ twice' \subseteq Content
         /\ littered' \in BOOLEAN
<1>1. NoJob \in Job /\ JobOK(NoJob)
  BY DEF NoJob, Job, JobOK, Writing
<1>2. job' \in [Setter -> Job] /\ \A r \in Setter : JobOK(job[r])'
  <2>1. job' = [job EXCEPT ![s] = NoJob]
    BY DEF Ends
  <2>2. \A r \in Setter : job'[r] = IF r = s THEN NoJob ELSE job[r]
    BY <2>1 DEF TypeInv, TypeOK
  <2> QED
    BY <1>1, <2>1, <2>2 DEF TypeInv, TypeOK, JobOK
<1>3. job[s].item \in Item
  BY DEF TypeInv, JobOK
<1> QED
  BY <1>2, <1>3 DEF Ends, TypeInv, TypeOK

\* An ignored error is on record if the set is a lone one, and nothing else is.
LEMMA LeavesDoes ==
  ASSUME TypeInv, NEW s \in Setter, NEW error \in BOOLEAN, Leaves(s, error)
  PROVE  /\ littered' \in BOOLEAN
         /\ UNCHANGED <<base, since, over, alone, twice>>
         /\ ~littered' => ~littered
         /\ ~littered' /\ s \in alone => ~error
<1>1. littered \in BOOLEAN
  BY DEF TypeInv, TypeOK
<1> QED
  BY <1>1, Zenon DEF Leaves

\* The types of what a step changes.
LEMMA StepTypes == TypeInv /\ [Next]_vars => TypeInv'
<1> SUFFICES ASSUME TypeInv, [Next]_vars PROVE TypeInv'
  OBVIOUS
<1>1. /\ native \in BOOLEAN /\ dropdir \in BOOLEAN /\ over \in BOOLEAN /\ littered \in BOOLEAN
      /\ entry \in [File -> [tmp : What, file : What]]
      /\ sys \in Content \cup {None} /\ mem \in Item \cup {None} /\ base \in Item \cup {None}
      /\ daemon \in {"down", "opening", "up"}
      /\ job \in [Setter -> Job] /\ spent \in 0..MaxChanges
      /\ since \subseteq Item \cup {User} /\ alone \subseteq Setter /\ twice \subseteq Content
  BY DEF TypeInv, TypeOK
<1>2. \A s \in Setter : JobOK(job[s])
  BY DEF TypeInv
<1>3. {Absent, Empty, Mixed} \cup Content \cup Item = What
  BY DEF What
<1>4. ASSUME NEW s \in Setter, NEW i \in Item, Enters(s, i)
      PROVE  TypeInv'
  <2>1. job'[s] \in Job /\ JobOK(job'[s])
    <3>1. job[s] = NoJob /\ job'[s] = [NoJob EXCEPT !.at = "object", !.item = i]
      BY <1>1, <1>2, <1>4 DEF Enters, JobOK
    <3> QED
      BY <3>1 DEF NoJob, Job, JobOK, Writing
  <2>2. job' \in [Setter -> Job] /\ \A r \in Setter : JobOK(job'[r])
    <3>1. \A r \in Setter : r # s => job'[r] = job[r]
      BY <1>1, <1>4 DEF Enters
    <3>2. job' = [job EXCEPT ![s] = job'[s]]
      BY <1>1, <1>4 DEF Enters
    <3> QED
      BY <1>1, <1>2, <2>1, <3>1, <3>2
  <2>3. /\ spent' \in 0 .. MaxChanges
    BY <1>1, <1>4, FileBackendAssumption DEF Enters
  <2>4. /\ since' \subseteq Item \cup {User} /\ alone' \subseteq Setter /\ over' \in BOOLEAN
        /\ base' = base /\ twice' = twice /\ littered' \in BOOLEAN
    BY <1>1, <1>4 DEF Enters, Begins
  <2>5. UNCHANGED <<native, dropdir, entry, sys, daemon, mem>>
    BY <1>4 DEF Enters, fileVars
  <2> QED
    BY <1>1, <2>2, <2>3, <2>4, <2>5 DEF TypeInv, TypeOK, JobOK
<1>5. ASSUME NEW s \in Setter, Open(s)
      PROVE  TypeInv'
  <2> DEFINE f == Target(job[s])
  <2>1. f \in File /\ job[s] \in Job /\ job[s].at \in Writing /\ job[s].item \in Item
    BY <1>1, <1>2, <1>5, Targets DEF Open
  <2>2. entry' \in [File -> [tmp : What, file : What]]
    <3> HIDE DEF f
    <3>1. entry' = [entry EXCEPT ![f].tmp = Empty]
      BY <1>5 DEF Open, f
    <3> QED
      BY <1>1, <1>3, <2>1, <3>1
  <2>3. job' \in [Setter -> Job] /\ \A r \in Setter : JobOK(job'[r])
    <3>1. job' = [job EXCEPT ![s] = [job[s] EXCEPT !.io = "write", !.hand = "tmp"]]
      BY <1>1, <1>5 DEF Open
    <3>2. /\ [job[s] EXCEPT !.io = "write", !.hand = "tmp"] \in Job
          /\ JobOK([job[s] EXCEPT !.io = "write", !.hand = "tmp"])
      BY <1>2, <2>1 DEF Job, JobOK, Way, Writing
    <3> QED
      BY <1>1, <1>2, <3>1, <3>2
  <2>4. twice' \subseteq Content
    BY <1>1, <1>5, <2>1, FileBackendAssumption DEF Open
  <2> QED
    BY <1>1, <1>5, <2>2, <2>3, <2>4 DEF TypeInv, TypeOK, JobOK, Open
<1>6. ASSUME NEW s \in Setter, Write(s)
      PROVE  TypeInv'
  <2> DEFINE f == Target(job[s])
  <2>1. /\ f \in File /\ job[s] \in Job /\ job[s].at \in Writing /\ job[s].item \in Item
        /\ Payload(job[s]) \in What
    BY <1>1, <1>2, <1>3, <1>6, Targets DEF Write
  <2>2. entry' \in [File -> [tmp : What, file : What]]
    <3> HIDE DEF f
    <3>1. CASE job[s].hand = "gone"
      BY <1>1, <1>6, <3>1 DEF Write
    <3>2. CASE job[s].hand # "gone"
      <4>1. PICK x \in Overlay(entry[f][job[s].hand], Payload(job[s])) :
                   entry' = [entry EXCEPT ![f][job[s].hand] = x]
        BY <1>6, <3>2 DEF Write, f
      <4>2. x \in What
        BY <1>3, <2>1, <4>1 DEF Overlay
      <4>3. job[s].hand \in {"tmp", "file"}
        BY <1>2, <1>6, <2>1, <3>2 DEF Write, JobOK, Job, Way
      <4> QED
        BY <1>1, <2>1, <4>1, <4>2, <4>3
    <3> QED
      BY <3>1, <3>2
  <2>3. job' \in [Setter -> Job] /\ \A r \in Setter : JobOK(job'[r])
    <3>1. job' = [job EXCEPT ![s] = [job[s] EXCEPT !.io = "rename", !.hand = "none"]]
      BY <1>1, <1>6 DEF Write
    <3>2. /\ [job[s] EXCEPT !.io = "rename", !.hand = "none"] \in Job
          /\ JobOK([job[s] EXCEPT !.io = "rename", !.hand = "none"])
      BY <1>2, <2>1 DEF Job, JobOK, Way, Writing
    <3> QED
      BY <1>1, <1>2, <3>1, <3>2
  <2> QED
    BY <1>1, <1>6, <2>2, <2>3 DEF TypeInv, TypeOK, JobOK, Write, history
<1>7. ASSUME NEW s \in Setter, Rename(s)
      PROVE  TypeInv'
  <2> DEFINE f == Target(job[s])
             M == Moved(job, f, [tmp |-> "file", file |-> "gone"])
  <2>1. /\ f \in File /\ job[s] \in Job /\ job[s].at \in Writing /\ job[s].item \in Item
        /\ After(job[s]) \in {"current", "list", "meta", "store"}
    BY <1>1, <1>2, <1>7, Targets DEF Rename
  <2>2. CASE entry[f].tmp = Absent
    <3>1. UNCHANGED entry /\ Ends(s, FALSE)
      BY <1>7, <2>2 DEF Rename
    <3>2. job[s].at # "none"
      BY <2>1 DEF Writing
    <3>3. /\ job' \in [Setter -> Job] /\ \A r \in Setter : JobOK(job[r])'
          /\ over' \in BOOLEAN /\ base' \in Item \cup {None}
          /\ since' \subseteq Item \cup {User} /\ alone' \subseteq Setter /\ twice' \subseteq Content
          /\ littered' \in BOOLEAN
      BY <3>1, <3>2, EndsTypes
    <3> QED
      BY <1>1, <1>7, <3>1, <3>3 DEF TypeInv, TypeOK, JobOK, Rename
  <2>3. CASE entry[f].tmp # Absent
    <3>1. entry' \in [File -> [tmp : What, file : What]]
      <4>1. entry' = [entry EXCEPT ![f] = [tmp |-> Absent, file |-> entry[f].tmp]]
        BY <1>7, <2>3 DEF Rename
      <4> HIDE DEF f
      <4> QED
        BY <1>1, <1>3, <2>1, <4>1
    <3>2. M \in [Setter -> Job] /\ \A r \in Setter : JobOK(M[r])
      BY <1>1, <1>2, MovedJobs, WayMaps
    <3> DEFINE j == [M[s] EXCEPT !.at = After(job[s]), !.io = "open"]
    <3>3. job' = [M EXCEPT ![s] = j]
      BY <1>7, <2>3, <3>2 DEF Rename
    <3>4. /\ M[s].io = "rename" /\ M[s].hand = "none" /\ M[s].item = job[s].item
          /\ M[s].todo = job[s].todo
      <4>1. job[s].io = "rename" /\ job[s].hand = "none"
        BY <1>2, <1>7 DEF Rename, JobOK
      <4>2. /\ M[s].io = job[s].io /\ M[s].item = job[s].item /\ M[s].todo = job[s].todo
            /\ (M[s].hand = "none") = (job[s].hand = "none")
        BY <1>1, MovedJobs, WayMaps
      <4> QED
        BY <4>1, <4>2
    <3> HIDE DEF M
    <3>5. j \in Job /\ JobOK(j)
      <4>1. M[s] \in Job /\ JobOK(M[s])
        BY <3>2
      <4>2. j \in Job
        BY <2>1, <4>1 DEF Job, Writing
      <4>3. /\ j.at = After(job[s]) /\ j.io = "open" /\ j.hand = "none"
            /\ j.item = job[s].item /\ j.todo = M[s].todo
        BY <3>4, <4>1 DEF Job
      <4>4. \A p \in j.todo : p[1][1] = "current" /\ p # <<Meta, "file">>
                               /\ p # <<Stable(ExtOf[j.item]), "file">>
        BY <3>4, <4>1, <4>3 DEF JobOK
      <4> HIDE DEF j
      <4> QED
        BY <2>1, <4>2, <4>3, <4>4 DEF JobOK
    <3> HIDE DEF j
    <3>6. job' \in [Setter -> Job] /\ \A r \in Setter : JobOK(job'[r])
      BY <3>2, <3>3, <3>5
    <3> QED
      BY <1>1, <1>7, <2>3, <3>1, <3>6 DEF TypeInv, TypeOK, JobOK, Rename, history
  <2> QED
    BY <2>2, <2>3
\* From one place to the next, with nothing open.
<1>8. ASSUME NEW s \in Setter, NEW at \in Place,
             job[s].at \notin Writing \cup {"none"}, at # "none",
             at \in {"mkdir", "drop"} => NameOf[job[s].item] \in Name,
             job' = [job EXCEPT ![s].at = at]
      PROVE  job' \in [Setter -> Job] /\ \A r \in Setter : JobOK(job[r])'
  <2>1. job[s] \in Job /\ job[s].io = "open" /\ job[s].hand = "none" /\ job[s].item \in Item
    BY <1>1, <1>2, <1>8 DEF JobOK, Job
  <2>2. [job[s] EXCEPT !.at = at] \in Job /\ JobOK([job[s] EXCEPT !.at = at])
    BY <1>2, <1>8, <2>1 DEF JobOK, Job, Place
  <2>3. \A r \in Setter : job'[r] = IF r = s THEN [job[s] EXCEPT !.at = at] ELSE job[r]
    BY <1>1, <1>8
  <2> QED
    BY <1>1, <1>2, <1>8, <2>2, <2>3 DEF JobOK
<1>9. ASSUME NEW s \in Setter, List(s)
      PROVE  TypeInv'
  <2>1. job[s] \in Job /\ job[s].io = "open" /\ job[s].hand = "none" /\ job[s].item \in Item
    BY <1>1, <1>2, <1>9 DEF JobOK, Job, List, Writing
  <2>2. /\ Others(job[s].item) \in SUBSET (File \X Way)
        /\ \A p \in Others(job[s].item) : p[1][1] = "current" /\ p # <<Meta, "file">>
                                            /\ p # <<Stable(ExtOf[job[s].item]), "file">>
    BY DEF Others
  <2>3. PICK read \in SUBSET Others(job[s].item) :
          /\ job' = [job EXCEPT ![s].at = "sweep", ![s].todo = read]
          /\ Leaves(s, read # Others(job[s].item))
    BY <1>9 DEF List
  <2> DEFINE j == [job[s] EXCEPT !.at = "sweep", !.todo = read]
  <2>4. j \in Job /\ JobOK(j)
    BY <2>1, <2>2 DEF JobOK, Job, Writing
  <2>5. job' = [job EXCEPT ![s] = j]
    BY <1>1, <2>3
  <2> HIDE DEF j
  <2>6. job' \in [Setter -> Job] /\ \A r \in Setter : JobOK(job'[r])
    BY <1>1, <1>2, <2>4, <2>5
  <2>7. littered' \in BOOLEAN /\ UNCHANGED <<base, since, over, alone, twice>>
    BY <2>3, LeavesDoes
  <2> QED
    BY <1>1, <1>9, <2>6, <2>7 DEF TypeInv, TypeOK, JobOK, List, fileVars
<1>10. ASSUME NEW s \in Setter, NEW p \in File \X Way, Sweep(s, p)
       PROVE  TypeInv'
  <2> DEFINE M == Moved(job, p[1], [w \in Way |-> IF w = p[2] THEN "gone" ELSE w])
  <2>1. p[1] \in File /\ p[2] \in {"tmp", "file"}
    BY DEF Way
  <2>2. entry' \in [File -> [tmp : What, file : What]]
    BY <1>1, <1>3, <1>10, <2>1 DEF Sweep
  <2>3. M \in [Setter -> Job] /\ \A r \in Setter : JobOK(M[r])
    BY <1>1, <1>2, MovedJobs, WayMaps
  <2>4. job' = [M EXCEPT ![s] = [M[s] EXCEPT !.todo = M[s].todo \ {p}]]
    BY <1>10, <2>3 DEF Sweep
  <2>5. M[s].at = job[s].at
    BY <1>1, MovedJobs, WayMaps
  <2> HIDE DEF M
  <2>6. /\ [M[s] EXCEPT !.todo = M[s].todo \ {p}] \in Job
        /\ JobOK([M[s] EXCEPT !.todo = M[s].todo \ {p}])
    <3>1. M[s] \in Job /\ JobOK(M[s])
      BY <2>3
    <3>2. M[s].todo \ {p} \in SUBSET (File \X Way)
      BY <3>1 DEF Job
    <3>3. [M[s] EXCEPT !.todo = M[s].todo \ {p}] \in Job
      BY <3>1, <3>2 DEF Job
    <3>4. M[s].at # "none"
      BY <1>10, <2>5 DEF Sweep
    <3> QED
      BY <3>1, <3>3, <3>4 DEF JobOK, Job
  <2>7. job' \in [Setter -> Job] /\ \A r \in Setter : JobOK(job'[r])
    BY <2>3, <2>4, <2>6
  <2> QED
    BY <1>1, <1>10, <2>2, <2>7 DEF TypeInv, TypeOK, JobOK, Sweep, history
<1>22. ASSUME NEW s \in Setter, SweepEnds(s)
       PROVE  TypeInv'
  <2>1. job' \in [Setter -> Job] /\ \A r \in Setter : JobOK(job[r])'
    BY <1>8, <1>22 DEF SweepEnds, Writing, Place
  <2> QED
    BY <1>1, <1>22, <2>1 DEF TypeInv, TypeOK, JobOK, SweepEnds, history, fileVars
<1>23. ASSUME NEW s \in Setter, NEW p \in File \X Way, Spares(s, p)
       PROVE  TypeInv'
  <2> DEFINE j == [job[s] EXCEPT !.todo = job[s].todo \ {p}]
  <2>1. job[s] \in Job /\ JobOK(job[s]) /\ job[s].at = "sweep"
    BY <1>1, <1>2, <1>23 DEF Spares
  <2>2. job' = [job EXCEPT ![s] = j]
    BY <1>1, <1>23 DEF Spares
  <2>3. j \in Job /\ JobOK(j)
    <3>1. job[s].todo \ {p} \in SUBSET (File \X Way)
      BY <2>1 DEF Job
    <3> QED
      BY <2>1, <3>1 DEF JobOK, Job
  <2> HIDE DEF j
  <2>4. job' \in [Setter -> Job] /\ \A r \in Setter : JobOK(job'[r])
    BY <1>1, <1>2, <2>2, <2>3
  <2>5. littered' \in BOOLEAN /\ UNCHANGED <<base, since, over, alone, twice>>
    BY <1>23, LeavesDoes DEF Spares
  <2> QED
    BY <1>1, <1>23, <2>4, <2>5 DEF TypeInv, TypeOK, JobOK, Spares, fileVars
<1>11. ASSUME NEW s \in Setter, Undrop(s)
       PROVE  TypeInv'
  <2>1. PICK gone \in SUBSET InDrop :
          /\ entry' = [f \in File |-> [w \in Way |-> IF <<f, w>> \in gone THEN Absent ELSE entry[f][w]]]
          /\ job' = [r \in Setter |->
                       IF r = s THEN [job[s] EXCEPT !.at = "rmdir"]
                       ELSE IF job[r].at = "drop" /\ <<Target(job[r]), job[r].hand>> \in gone
                         THEN [job[r] EXCEPT !.hand = "gone"]
                       ELSE job[r]]
          /\ Leaves(s, gone # InDrop)
    BY <1>11 DEF Undrop
  <2>2. entry' \in [File -> [tmp : What, file : What]]
    <3>1. ASSUME NEW f \in File PROVE entry'[f] \in [tmp : What, file : What]
      <4>1. entry'[f] = [w \in Way |-> IF <<f, w>> \in gone THEN Absent ELSE entry[f][w]]
        BY <2>1
      <4>2. [w \in Way |-> IF <<f, w>> \in gone THEN Absent ELSE entry[f][w]]
              = [tmp |-> IF <<f, "tmp">> \in gone THEN Absent ELSE entry[f].tmp,
                 file |-> IF <<f, "file">> \in gone THEN Absent ELSE entry[f].file]
        BY DEF Way
      <4> QED
        BY <1>1, <1>3, <4>1, <4>2
    <3> QED
      BY <2>1, <3>1
  <2>3. ASSUME NEW r \in Setter
        PROVE  job'[r] \in Job /\ JobOK(job'[r])
    <3>1. job'[r] = IF r = s THEN [job[s] EXCEPT !.at = "rmdir"]
                    ELSE IF job[r].at = "drop" /\ <<Target(job[r]), job[r].hand>> \in gone
                      THEN [job[r] EXCEPT !.hand = "gone"]
                    ELSE job[r]
      BY <2>1
    <3>2. job[r] \in Job /\ JobOK(job[r])
      BY <1>1, <1>2
    <3>3. CASE r = s
      <4>1. job[s].io = "open" /\ job[s].hand = "none" /\ job[s].item \in Item
        BY <1>2, <1>11 DEF Undrop, JobOK, Writing
      <4> QED
        BY <3>1, <3>2, <3>3, <4>1 DEF Job, JobOK
    <3>4. CASE r # s /\ job[r].at = "drop" /\ <<Target(job[r]), job[r].hand>> \in gone
      <4>1. job[r].hand # "none"
        BY <3>4 DEF InDrop, Way
      <4> QED
        BY <3>1, <3>2, <3>4, <4>1 DEF Job, JobOK
    <3>5. CASE r # s /\ ~(job[r].at = "drop" /\ <<Target(job[r]), job[r].hand>> \in gone)
      BY <3>1, <3>2, <3>5
    <3> QED
      BY <3>3, <3>4, <3>5
  <2>4. job' \in [Setter -> Job] /\ \A r \in Setter : JobOK(job'[r])
    BY <2>1, <2>3
  <2>5. littered' \in BOOLEAN /\ UNCHANGED <<base, since, over, alone, twice>>
    BY <2>1, LeavesDoes
  <2> QED
    BY <1>1, <1>11, <2>2, <2>4, <2>5 DEF TypeInv, TypeOK, JobOK, Undrop
<1>12. ASSUME NEW s \in Setter, Rmdir(s)
       PROVE  TypeInv'
  <2>1. job' \in [Setter -> Job] /\ \A r \in Setter : JobOK(job[r])'
    <3>1. NameOf[job[s].item] \in Name \cup {NoName}
      BY <1>2, <1>12, FileBackendAssumption DEF Rmdir, JobOK
    <3> DEFINE at == IF NameOf[job[s].item] = NoName THEN "meta" ELSE "mkdir"
    <3>2. job' = [job EXCEPT ![s].at = at]
      BY <1>12 DEF Rmdir
    <3>3. at \in Place /\ at # "none" /\ (at \in {"mkdir", "drop"} => NameOf[job[s].item] \in Name)
      BY <3>1 DEF Place, Writing
    <3>4. job[s].at \notin Writing \cup {"none"}
      BY <1>12 DEF Rmdir, Writing
    <3> HIDE DEF at
    <3> QED
      BY <1>8, <3>2, <3>3, <3>4
  <2>2. dropdir' \in BOOLEAN
    BY <1>1, <1>12, Zenon DEF Rmdir
  <2> QED
    BY <1>1, <1>12, <2>1, <2>2 DEF TypeInv, TypeOK, JobOK, Rmdir, history
<1>13. ASSUME NEW s \in Setter, Mkdir(s)
       PROVE  TypeInv'
  <2>1. job' \in [Setter -> Job] /\ \A r \in Setter : JobOK(job[r])'
    <3>1. NameOf[job[s].item] \in Name
      BY <1>2, <1>13 DEF Mkdir, JobOK
    <3> QED
      BY <1>8, <1>13, <3>1 DEF Mkdir, Place, Writing
  <2> QED
    BY <1>1, <1>13, <2>1 DEF TypeInv, TypeOK, JobOK, Mkdir, history
<1>14. ASSUME NEW s \in Setter, Store(s)
       PROVE  TypeInv'
  <2>1. mem' \in Item \cup {None} /\ job[s].at # "none"
    BY <1>1, <1>2, <1>14 DEF Store, JobOK
  <2>2. CASE native
    <3>1. job' \in [Setter -> Job] /\ \A r \in Setter : JobOK(job[r])'
      BY <1>8, <1>14, <2>2 DEF Store, Place, Writing
    <3> QED
      BY <1>1, <1>14, <2>1, <2>2, <3>1 DEF TypeInv, TypeOK, JobOK, Store, history, fileVars
  <2>3. CASE ~native
    <3>1. Ends(s, TRUE)
      BY <1>14, <2>3 DEF Store
    <3>2. /\ job' \in [Setter -> Job] /\ \A r \in Setter : JobOK(job[r])'
          /\ over' \in BOOLEAN /\ base' \in Item \cup {None}
          /\ since' \subseteq Item \cup {User} /\ alone' \subseteq Setter /\ twice' \subseteq Content
          /\ littered' \in BOOLEAN
      BY <2>1, <3>1, EndsTypes
    <3> QED
      BY <1>1, <1>14, <2>1, <3>2 DEF TypeInv, TypeOK, JobOK, Store, fileVars
  <2> QED
    BY <2>2, <2>3
<1>15. ASSUME NEW s \in Setter, Offer(s)
       PROVE  TypeInv'
  <2>1. sys' \in Content \cup {None} /\ job[s].at # "none"
    BY <1>2, <1>15, FileBackendAssumption DEF Offer, JobOK
  <2>2. /\ job' \in [Setter -> Job] /\ \A r \in Setter : JobOK(job[r])'
        /\ over' \in BOOLEAN /\ base' \in Item \cup {None}
        /\ since' \subseteq Item \cup {User} /\ alone' \subseteq Setter /\ twice' \subseteq Content
        /\ littered' \in BOOLEAN
    BY <1>15, <2>1, EndsTypes DEF Offer
  <2> QED
    BY <1>1, <1>15, <2>1, <2>2 DEF TypeInv, TypeOK, JobOK, Offer, fileVars
<1>16. ASSUME NEW s \in Setter, Fails(s)
       PROVE  TypeInv'
  <2>1. job[s].at # "none"
    BY <1>16 DEF Fails, Active
  <2>2. /\ job' \in [Setter -> Job] /\ \A r \in Setter : JobOK(job[r])'
        /\ over' \in BOOLEAN /\ base' \in Item \cup {None}
        /\ since' \subseteq Item \cup {User} /\ alone' \subseteq Setter /\ twice' \subseteq Content
        /\ littered' \in BOOLEAN
    BY <1>16, <2>1, EndsTypes DEF Fails
  <2> QED
    BY <1>1, <1>16, <2>2 DEF TypeInv, TypeOK, JobOK, Fails, fileVars
<1>17. CASE Start
  BY <1>1, <1>2, <1>17 DEF TypeInv, TypeOK, JobOK, Start, Parsed, fileVars
<1>18. CASE Announce
  BY <1>1, <1>2, <1>18 DEF TypeInv, TypeOK, JobOK, Announce, fileVars, history
<1>19. CASE Crash
  <2>1. NoJob \in Job /\ JobOK(NoJob)
    BY DEF NoJob, Job, JobOK, Writing
  <2>2. job' \in [Setter -> Job] /\ \A r \in Setter : JobOK(job'[r])
    BY <1>1, <1>2, <1>19, <2>1 DEF Crash
  <2> QED
    BY <1>1, <1>19, <2>2 DEF TypeInv, TypeOK, JobOK, Crash, fileVars
<1>20. CASE UserCopies
  <2>1. spent' \in 0 .. MaxChanges
    BY <1>1, <1>20, FileBackendAssumption DEF UserCopies
  <2> QED
    BY <1>1, <1>2, <1>20, <2>1 DEF TypeInv, TypeOK, JobOK, UserCopies, fileVars
<1>21. CASE UNCHANGED vars
  BY <1>1, <1>2, <1>21 DEF TypeInv, TypeOK, JobOK, vars, fileVars, history
<1> QED
  BY <1>4, <1>5, <1>6, <1>7, <1>9, <1>10, <1>11, <1>12, <1>13, <1>14, <1>15, <1>16, <1>17,
     <1>18, <1>19, <1>20, <1>21, <1>22, <1>23 DEF Next, TaskSets, CliSets

\* A stopped daemon and an empty directory are well typed.
LEMMA InitTypes == Init => TypeInv
<1> SUFFICES ASSUME Init PROVE TypeInv
  OBVIOUS
<1>1. NoJob \in Job /\ JobOK(NoJob)
  BY DEF NoJob, Job, JobOK, Writing
<1>2. \A s \in Setter : job[s] = NoJob
  BY DEF Init
<1>3. native \in BOOLEAN
  BY DEF Init
<1>4. job \in [Setter -> Job] /\ \A s \in Setter : JobOK(job[s])
  BY <1>1, <1>2 DEF Init
<1>5. entry \in [File -> [tmp : What, file : What]]
  BY DEF Init, What
<1>6. spent \in 0 .. MaxChanges
  BY FileBackendAssumption DEF Init
<1> QED
  BY <1>3, <1>4, <1>5, <1>6 DEF Init, TypeInv, TypeOK

\* The clipboard files, the calls of set and the daemon keep their types.
THEOREM TypeCorrect == Spec => []TypeOK
<1>1. TypeInv => TypeOK
  BY DEF TypeInv
<1> QED
  BY <1>1, InitTypes, StepTypes, PTL DEF Spec

-----------------------------------------------------------------------------
(* Objects are whole *)

\* A step that leaves the object of d and the sets at it alone.
LEMMA SoundKept ==
  ASSUME NEW d \in Content, Sound(d), entry'[Object(d)] = entry[Object(d)],
         \A r \in Setter : job'[r] = job[r] \/ ~Opened(r, d)'
  PROVE  Sound(d)'
<1>1. \A r \in Setter : Opened(r, d)' => Opened(r, d) /\ job'[r] = job[r]
  BY DEF Opened, On, Target
<1> QED
  BY <1>1 DEF Sound, OneOpened

\* A set moves on to a place where it has nothing open, or ends.
LEMMA SoundWhenClosed ==
  ASSUME TypeInv, NEW d \in Content, Sound(d), UNCHANGED entry,
         NEW s \in Setter, NEW j, j.at \notin Writing \/ j.io = "open", job' = [job EXCEPT ![s] = j]
  PROVE  Sound(d)'
<1>1. \A r \in Setter : job'[r] = IF r = s THEN j ELSE job[r]
  BY DEF TypeInv, TypeOK
<1>2. ~Opened(s, d)'
  BY <1>1 DEF Opened, On
<1> QED
  BY <1>1, <1>2, SoundKept

\* The same where EXCEPT names the field that changes.
LEMMA SoundWhenMoved ==
  ASSUME TypeInv, NEW d \in Content, Sound(d), UNCHANGED entry,
         NEW s \in Setter, NEW at, at \notin Writing \/ job[s].io = "open",
         job' = [job EXCEPT ![s].at = at]
  PROVE  Sound(d)'
<1> DEFINE j == [job[s] EXCEPT !.at = at]
<1>1. job[s] \in Job
  BY DEF TypeInv, TypeOK
<1>2. j.at = at /\ j.io = job[s].io
  BY <1>1 DEF Job
<1>3. job' = [job EXCEPT ![s] = j]
  BY DEF TypeInv, TypeOK
<1> HIDE DEF j
<1> QED
  BY <1>2, <1>3, SoundWhenClosed

\* The end of a call leaves every object as sound as it was.
LEMMA SoundWhenEnded ==
  ASSUME TypeInv, NEW d \in Content, Sound(d), UNCHANGED entry,
         NEW s \in Setter, NEW well \in BOOLEAN, Ends(s, well)
  PROVE  Sound(d)'
<1>1. NoJob.at \notin Writing /\ job' = [job EXCEPT ![s] = NoJob]
  BY DEF NoJob, Writing, Ends
<1> QED
  BY <1>1, SoundWhenClosed

\* Every step keeps the objects whole or with two writers on record.
LEMMA StepObjects == TypeInv /\ ObjectInv /\ [Next]_vars => ObjectInv'
<1> SUFFICES ASSUME TypeInv, ObjectInv, [Next]_vars,
                    NEW d \in Content \ twice'
             PROVE  Sound(d)'
  BY DEF ObjectInv
<1>1. twice \subseteq twice'
  <2>1. \A s \in Setter, well \in BOOLEAN : Ends(s, well) => twice' = twice
    BY DEF Ends
  <2>2. \A s \in Setter, i \in Item : Begins(s, i) => twice' = twice
    BY DEF Begins
  <2> QED
    <3>1. \A s \in Setter : Open(s) => twice \subseteq twice'
      BY DEF Open
    <3>2. \A s \in Setter : Write(s) \/ SweepEnds(s) \/ Rmdir(s) \/ Mkdir(s) => twice' = twice
      BY DEF Write, SweepEnds, Rmdir, Mkdir, history
    <3>6. \A s \in Setter, p \in File \X Way : Sweep(s, p) \/ Spares(s, p) => twice' = twice
      BY DEF Sweep, Spares, Leaves, history
    <3>7. \A s \in Setter : List(s) \/ Undrop(s) => twice' = twice
      BY DEF List, Undrop, Leaves
    <3>3. \A s \in Setter : Rename(s) \/ Store(s) \/ Offer(s) \/ Fails(s) => twice' = twice
      BY <2>1 DEF Rename, Store, Offer, Fails, history
    <3>4. \A s \in Setter, i \in Item : TaskSets(s, i) \/ CliSets(s, i) => twice' = twice
      BY <2>2 DEF TaskSets, CliSets, Enters
    <3>5. Start \/ Announce \/ Crash \/ UserCopies \/ UNCHANGED vars => twice' = twice
      BY DEF Start, Announce, Crash, UserCopies, vars, history
    <3> QED
      BY <3>1, <3>2, <3>3, <3>4, <3>5, <3>6, <3>7 DEF Next
<1>2. d \in Content /\ d \notin twice /\ Sound(d)
  BY <1>1 DEF ObjectInv
<1>3. /\ entry \in [File -> [tmp : What, file : What]]
      /\ job \in [Setter -> Job] /\ \A s \in Setter : JobOK(job[s])
  BY DEF TypeInv, TypeOK
<1>4. Object(d) \in File /\ Object(d)[1] = "object"
  BY <1>2, Files
<1>5. ASSUME NEW s \in Setter, NEW i \in Item, Enters(s, i)
      PROVE  Sound(d)'
  <2> DEFINE j == [job[s] EXCEPT !.at = "object", !.item = i]
  <2>1. job' = [job EXCEPT ![s] = j] /\ UNCHANGED entry
    BY <1>3, <1>5 DEF Enters, fileVars
  <2>2. j.io = "open"
    BY <1>3, <1>5 DEF Enters, JobOK, Job, Writing
  <2> HIDE DEF j
  <2> QED
    BY <1>2, <2>1, <2>2, SoundWhenClosed
<1>6. ASSUME NEW s \in Setter, Open(s)
      PROVE  Sound(d)'
  <2> DEFINE f == Target(job[s])
  <2>1. f \in File /\ job[s] \in Job /\ job[s].at \in Writing /\ job[s].io = "open"
    BY <1>3, <1>6, Targets DEF Open
  <2>2. entry' = [entry EXCEPT ![f].tmp = Empty] /\ job' = [job EXCEPT ![s].io = "write", ![s].hand = "tmp"]
    BY <1>6 DEF Open
  <2>3. \A r \in Setter \ {s} : job'[r] = job[r]
    BY <1>3, <2>2
  <2>4. /\ job'[s].at = job[s].at /\ job'[s].item = job[s].item
        /\ job'[s].io = "write" /\ job'[s].hand = "tmp"
    BY <1>3, <2>1, <2>2 DEF Job
  <2>5. Target(job'[s]) = f
    BY <2>4 DEF Target
  <2> HIDE DEF f
  <2>6. CASE f # Object(d)
    <3>1. entry'[Object(d)] = entry[Object(d)]
      BY <1>3, <1>4, <2>1, <2>2, <2>6
    <3>2. ~Opened(s, d)'
      BY <2>5, <2>6 DEF Opened, On
    <3> QED
      BY <1>2, <2>3, <3>1, <3>2, SoundKept
  <2>7. CASE f = Object(d)
    <3>1. entry'[Object(d)].file = entry[Object(d)].file /\ entry'[Object(d)].tmp = Empty
      BY <1>3, <1>4, <2>2, <2>7
    <3>2. job[s].at = "object" /\ DataOf[job[s].item] = d
      <4>1. job[s].item \in Item
        BY <1>3, <2>1, Targets
      <4>2. job[s].at # "current" /\ job[s].at # "drop" /\ job[s].at # "meta"
        BY <1>3, <1>4, <2>1, <2>7, <4>1, Targets, Files, FileBackendAssumption DEF f
      <4>3. job[s].at = "object"
        BY <2>1, <4>2 DEF Writing
      <4> QED
        BY <1>2, <1>3, <2>1, <2>7, <4>1, <4>3, Targets, Files, FileBackendAssumption DEF f
    <3>3. \A r \in Setter \ {s} : ~Opened(r, d)
      BY <1>6, <2>7, <3>2 DEF Open, Opened, f
    <3>4. \A r \in Setter : Opened(r, d)' => r = s
      BY <2>3, <3>3 DEF Opened, On, Target
    <3> QED
      BY <1>2, <2>4, <3>1, <3>4 DEF Sound, OneOpened
  <2> QED
    BY <2>6, <2>7
<1>7. ASSUME NEW s \in Setter, Write(s)
      PROVE  Sound(d)'
  <2> DEFINE f == Target(job[s])
  <2>1. f \in File /\ job[s] \in Job /\ job[s].at \in Writing /\ job[s].io = "write"
    BY <1>3, <1>7, Targets DEF Write
  <2>2. job' = [job EXCEPT ![s].io = "rename", ![s].hand = "none"]
    BY <1>7 DEF Write
  <2>3. \A r \in Setter \ {s} : job'[r] = job[r]
    BY <1>3, <2>2
  <2>4. job'[s].at = job[s].at /\ job'[s].item = job[s].item /\ job'[s].io = "rename"
    BY <1>3, <2>1, <2>2 DEF Job
  <2>5. Target(job'[s]) = f
    BY <2>4 DEF Target
  <2>6. CASE f # Object(d)
    <3>1. entry'[Object(d)] = entry[Object(d)]
      BY <1>3, <1>4, <1>7, <2>1, <2>6 DEF Write
    <3>2. ~Opened(s, d)'
      BY <2>5, <2>6 DEF Opened, On
    <3> QED
      BY <1>2, <2>3, <3>1, <3>2, SoundKept
  <2>7. CASE f = Object(d)
    <3>1. Opened(s, d)
      BY <2>1, <2>7 DEF Opened, On
    <3>2. job[s].hand = "tmp" /\ entry[Object(d)].tmp = Empty
      BY <1>2, <2>1, <3>1 DEF Sound
    <3>3. Payload(job[s]) = d
      <4>1. job[s].item \in Item
        BY <1>3, <2>1, Targets
      <4>2. job[s].at # "current" /\ job[s].at # "drop" /\ job[s].at # "meta"
        BY <1>3, <1>4, <2>1, <2>7, <4>1, Targets, Files, FileBackendAssumption DEF f
      <4>3. job[s].at = "object"
        BY <2>1, <4>2 DEF Writing
      <4> QED
        BY <1>2, <1>3, <2>1, <2>7, <4>1, <4>3, Targets, Files, FileBackendAssumption DEF f
    <3>4. entry' = [entry EXCEPT ![Object(d)].tmp = d]
      BY <1>7, <2>7, <3>2, <3>3 DEF Write, Overlay
    <3>5. entry'[Object(d)].file = entry[Object(d)].file /\ entry'[Object(d)].tmp = d
      BY <1>3, <1>4, <3>4
    <3>6. \A r \in Setter : Opened(r, d)' => r = s
      BY <1>2, <2>3, <3>1 DEF Opened, On, Target, Sound, OneOpened
    <3> QED
      BY <1>2, <2>4, <3>5, <3>6 DEF Sound, OneOpened
  <2> QED
    BY <2>6, <2>7
<1>8. ASSUME NEW s \in Setter, Rename(s)
      PROVE  Sound(d)'
  <2> DEFINE f == Target(job[s])
             M == Moved(job, f, [tmp |-> "file", file |-> "gone"])
  <2>1. f \in File /\ job[s] \in Job /\ job[s].at \in Writing /\ job[s].io = "rename"
    BY <1>3, <1>8, Targets DEF Rename
  <2>2. CASE entry[f].tmp = Absent
    BY <1>2, <1>8, <2>2, SoundWhenEnded DEF Rename
  <2>3. CASE entry[f].tmp # Absent
    <3>1. /\ entry' = [entry EXCEPT ![f] = [tmp |-> Absent, file |-> entry[f].tmp]]
          /\ job' = [M EXCEPT ![s].at = After(job[s]), ![s].io = "open"]
      BY <1>8, <2>3 DEF Rename
    <3>2. M \in [Setter -> Job] /\ \A r \in Setter : ~On(job[r], f) => M[r] = job[r]
      BY <1>3, MovedJobs, WayMaps
    <3>3. \A r \in Setter : M[r].at = job[r].at /\ M[r].io = job[r].io /\ M[r].item = job[r].item
      BY <1>3, MovedJobs, WayMaps
    <3> HIDE DEF M, f
    <3>4. job'[s].io = "open" /\ \A r \in Setter \ {s} : job'[r] = M[r]
      BY <3>1, <3>2 DEF Job
    <3>5. ~Opened(s, d)'
      BY <3>4 DEF Opened
    <3>6. CASE f # Object(d)
      <4>1. entry'[Object(d)] = entry[Object(d)]
        BY <1>3, <1>4, <2>1, <3>1, <3>6
      <4>2. \A r \in Setter \ {s} : On(job[r], f) => ~Opened(r, d)'
        BY <3>3, <3>4, <3>6 DEF Opened, On, Target
      <4> QED
        BY <1>2, <3>2, <3>4, <3>5, <4>1, <4>2, SoundKept
    <3>7. CASE f = Object(d)
      <4>1. Opened(s, d)
        BY <2>1, <3>7 DEF Opened, On, f
      <4>2. entry[Object(d)].tmp = d
        BY <1>2, <2>1, <4>1 DEF Sound
      <4>3. entry'[Object(d)].file = d /\ entry'[Object(d)].tmp = Absent
        BY <1>3, <1>4, <3>1, <3>7, <4>2
      <4>4. \A r \in Setter \ {s} : ~Opened(r, d)
        BY <1>2, <4>1 DEF Sound, OneOpened
      <4>5. ASSUME NEW r \in Setter PROVE ~Opened(r, d)'
        <5>1. CASE r # s
          <6>1. job'[r].at = job[r].at /\ job'[r].io = job[r].io /\ job'[r].item = job[r].item
            BY <3>3, <3>4, <5>1
          <6>2. ~Opened(r, d)
            BY <4>4, <5>1
          <6> QED
            BY <6>1, <6>2 DEF Opened, On, Target
        <5> QED
          BY <3>5, <5>1
      <4> QED
        BY <4>3, <4>5 DEF Sound, OneOpened
    <3> QED
      BY <3>6, <3>7
  <2> QED
    BY <2>2, <2>3
<1>9. ASSUME NEW s \in Setter, List(s)
      PROVE  Sound(d)'
  <2>1. PICK read : job' = [job EXCEPT ![s].at = "sweep", ![s].todo = read]
    BY <1>9 DEF List
  <2> DEFINE j == [job[s] EXCEPT !.at = "sweep", !.todo = read]
  <2>2. job' = [job EXCEPT ![s] = j] /\ UNCHANGED entry
    BY <1>3, <1>9, <2>1 DEF List, fileVars
  <2>3. j.at \notin Writing
    BY <1>3 DEF Writing, Job
  <2> HIDE DEF j
  <2> QED
    BY <1>2, <2>2, <2>3, SoundWhenClosed
<1>10. ASSUME NEW s \in Setter, NEW p \in File \X Way, Sweep(s, p)
       PROVE  Sound(d)'
  <2> DEFINE M == Moved(job, p[1], [w \in Way |-> IF w = p[2] THEN "gone" ELSE w])
  <2>1. p[1] \in File /\ p[1] # Object(d)
    <3>1. p[1][1] = "current"
      BY <1>3, <1>10 DEF Sweep, JobOK
    <3> QED
      BY <1>4, <3>1
  <2>2. entry'[Object(d)] = entry[Object(d)]
    BY <1>3, <1>4, <1>10, <2>1 DEF Sweep
  <2>3. M \in [Setter -> Job] /\ \A r \in Setter : ~On(job[r], p[1]) => M[r] = job[r]
    BY <1>3, MovedJobs, WayMaps
  <2>4. \A r \in Setter : M[r].at = job[r].at /\ M[r].item = job[r].item
    BY <1>3, MovedJobs, WayMaps
  <2>5. job' = [M EXCEPT ![s].todo = M[s].todo \ {p}]
    BY <1>10, <2>3 DEF Sweep
  <2>6. job[s].at = "sweep"
    BY <1>10 DEF Sweep
  <2> HIDE DEF M
  <2>7. \A r \in Setter \ {s} : job'[r] = M[r]
    BY <2>3, <2>5
  <2>8. job'[s].at = "sweep"
    BY <2>3, <2>4, <2>5, <2>6 DEF Job
  <2>9. ~Opened(s, d)'
    BY <2>8 DEF Opened, On, Writing
  <2>10. \A r \in Setter \ {s} : On(job[r], p[1]) => ~Opened(r, d)'
    BY <2>1, <2>4, <2>7 DEF Opened, On, Target
  <2> QED
    BY <1>2, <2>2, <2>3, <2>7, <2>9, <2>10, SoundKept
<1>19. ASSUME NEW s \in Setter, SweepEnds(s)
       PROVE  Sound(d)'
  BY <1>2, <1>19, SoundWhenMoved DEF SweepEnds, fileVars, Writing
<1>20. ASSUME NEW s \in Setter, NEW p \in File \X Way, Spares(s, p)
       PROVE  Sound(d)'
  <2> DEFINE j == [job[s] EXCEPT !.todo = job[s].todo \ {p}]
  <2>1. job' = [job EXCEPT ![s] = j] /\ UNCHANGED entry /\ job[s].at = "sweep"
    BY <1>3, <1>20 DEF Spares, fileVars
  <2>2. j.at \notin Writing
    BY <1>3, <2>1 DEF Writing, Job
  <2> HIDE DEF j
  <2> QED
    BY <1>2, <2>1, <2>2, SoundWhenClosed
<1>11. ASSUME NEW s \in Setter, Undrop(s)
       PROVE  Sound(d)'
  <2>1. PICK gone \in SUBSET InDrop :
          /\ entry' = [f \in File |-> [w \in Way |-> IF <<f, w>> \in gone THEN Absent ELSE entry[f][w]]]
          /\ job' = [r \in Setter |->
                       IF r = s THEN [job[s] EXCEPT !.at = "rmdir"]
                       ELSE IF job[r].at = "drop" /\ <<Target(job[r]), job[r].hand>> \in gone
                         THEN [job[r] EXCEPT !.hand = "gone"]
                       ELSE job[r]]
    BY <1>11 DEF Undrop
  <2>2. /\ entry'[Object(d)].file = entry[Object(d)].file
        /\ entry'[Object(d)].tmp = entry[Object(d)].tmp
    <3>1. \A w : <<Object(d), w>> \notin gone
      BY <1>4 DEF InDrop
    <3> QED
      BY <1>4, <2>1, <3>1 DEF Way
  <2>3. ASSUME NEW r \in Setter, job'[r] # job[r]
        PROVE  ~Opened(r, d)'
    <3>1. job'[r] = IF r = s THEN [job[s] EXCEPT !.at = "rmdir"]
                    ELSE IF job[r].at = "drop" /\ <<Target(job[r]), job[r].hand>> \in gone
                      THEN [job[r] EXCEPT !.hand = "gone"]
                    ELSE job[r]
      BY <2>1
    <3>2. job[r] \in Job /\ JobOK(job[r])
      BY <1>3
    <3>3. CASE r = s
      <4>1. job'[r].at = "rmdir"
        BY <3>1, <3>2, <3>3 DEF Job
      <4> QED
        BY <4>1 DEF Opened, On, Writing
    <3>4. CASE r # s /\ job[r].at = "drop"
      <4>1. job'[r].at = "drop" /\ job'[r].item = job[r].item
        BY <3>1, <3>2, <3>4 DEF Job
      <4>2. NameOf[job[r].item] \in Name
        BY <3>2, <3>4 DEF JobOK
      <4>3. Target(job'[r]) = Dropped(NameOf[job[r].item])
        BY <4>1 DEF Target
      <4>4. Target(job'[r]) # Object(d)
        BY <1>4, <4>2, <4>3, Files
      <4> QED
        BY <4>4 DEF Opened, On
    <3> QED
      BY <2>3, <3>1, <3>3, <3>4
  <2>4. \A r \in Setter : Opened(r, d)' => Opened(r, d) /\ job'[r] = job[r]
    BY <2>3 DEF Opened, On, Target
  <2> QED
    BY <1>2, <2>2, <2>4 DEF Sound, OneOpened
<1>12. ASSUME NEW s \in Setter, Rmdir(s)
       PROVE  Sound(d)'
  <2> DEFINE at == IF NameOf[job[s].item] = NoName THEN "meta" ELSE "mkdir"
  <2>1. job' = [job EXCEPT ![s].at = at] /\ UNCHANGED entry
    BY <1>12 DEF Rmdir
  <2>2. job[s].io = "open"
    BY <1>3, <1>12 DEF Rmdir, JobOK, Writing
  <2> HIDE DEF at
  <2> QED
    BY <1>2, <2>1, <2>2, SoundWhenMoved
<1>13. ASSUME NEW s \in Setter, Mkdir(s)
       PROVE  Sound(d)'
  <2>1. job[s].io = "open"
    BY <1>3, <1>13 DEF Mkdir, JobOK, Writing
  <2> QED
    BY <1>2, <1>13, <2>1, SoundWhenMoved DEF Mkdir
<1>14. ASSUME NEW s \in Setter, Store(s)
       PROVE  Sound(d)'
  <2>1. CASE native
    BY <1>2, <1>14, <2>1, SoundWhenMoved DEF Store, fileVars, Writing
  <2>2. CASE ~native
    BY <1>2, <1>14, <2>2, SoundWhenEnded DEF Store, fileVars
  <2> QED
    BY <2>1, <2>2
<1>15. ASSUME NEW s \in Setter, Offer(s)
       PROVE  Sound(d)'
  BY <1>2, <1>15, SoundWhenEnded DEF Offer, fileVars
<1>16. ASSUME NEW s \in Setter, Fails(s)
       PROVE  Sound(d)'
  BY <1>2, <1>16, SoundWhenEnded DEF Fails, fileVars
<1>17. CASE Crash
  <2>1. \A r \in Setter : job'[r] = job[r] \/ job'[r].at = "none"
    BY <1>17 DEF Crash, NoJob
  <2>2. entry' = entry
    BY <1>17 DEF Crash, fileVars
  <2> QED
    BY <1>2, <2>1, <2>2, SoundKept DEF Opened, On, Writing
<1>18. CASE Start \/ Announce \/ UserCopies \/ UNCHANGED vars
  <2>1. entry' = entry /\ job' = job
    BY <1>18 DEF Start, Announce, UserCopies, vars, fileVars
  <2> QED
    BY <1>2, <2>1, SoundKept
<1> QED
  BY <1>5, <1>6, <1>7, <1>8, <1>9, <1>10, <1>11, <1>12, <1>13, <1>14, <1>15, <1>16, <1>17,
     <1>18, <1>19, <1>20 DEF Next, TaskSets, CliSets

\* No object is written yet.
LEMMA InitObjects == Init => ObjectInv
<1> SUFFICES ASSUME Init, NEW d \in Content PROVE Sound(d)
  BY DEF ObjectInv
<1>1. entry[Object(d)] = [tmp |-> Absent, file |-> Absent]
  BY Files DEF Init
<1>2. \A s \in Setter : ~Opened(s, d)
  BY DEF Init, NoJob, Opened
<1> QED
  BY <1>1, <1>2 DEF Sound, OneOpened

\* An object file is whole or absent whatever the other sets, the crashes and
\* the failures, unless two sets have had it open at once.
THEOREM ObjectsStayWhole == Spec => []ObjectsAreWhole
<1>1. ObjectInv => ObjectsAreWhole
  BY DEF ObjectInv, Sound, ObjectsAreWhole
<1> QED
  BY <1>1, InitTypes, StepTypes, InitObjects, StepObjects, PTL DEF Spec

-----------------------------------------------------------------------------
(* Steps *)

\* A set goes on to its next step, begins, or is over.
Works(s) ==
  \/ Open(s) \/ Write(s) \/ List(s) \/ SweepEnds(s) \/ Undrop(s) \/ Rmdir(s) \/ Mkdir(s)
  \/ (\E p \in File \X Way : Sweep(s, p) \/ Spares(s, p))
  \/ (Rename(s) /\ entry[Target(job[s])].tmp # Absent)
  \/ (Store(s) /\ native)

Finishes(s) ==
  /\ s \in Active
  /\ \/ (Rename(s) /\ entry[Target(job[s])].tmp = Absent)
     \/ (Store(s) /\ ~native)
     \/ Offer(s) \/ Fails(s)

\* What a step can be: a call goes on, ends or begins, or the daemon or the user acts.
LEMMA Steps ==
  ASSUME TypeInv, [Next]_vars
  PROVE  \/ \E s \in Setter : Works(s) \/ Finishes(s) \/ \E i \in Item : Enters(s, i)
         \/ Start \/ Announce \/ Crash \/ UserCopies \/ UNCHANGED vars
<1>1. \A s \in Setter : Rename(s) \/ Store(s) \/ Offer(s) \/ Fails(s) => s \in Active
  BY DEF Rename, Store, Offer, Fails, Active, Writing
<1>2. ASSUME NEW s \in Setter,
             \/ Open(s) \/ Write(s) \/ Rename(s) \/ List(s) \/ SweepEnds(s) \/ Undrop(s)
             \/ (\E p \in File \X Way : Sweep(s, p) \/ Spares(s, p))
             \/ Rmdir(s) \/ Mkdir(s) \/ Store(s) \/ Offer(s) \/ Fails(s)
      PROVE  Works(s) \/ Finishes(s)
  <2>1. CASE Rename(s) \/ Store(s)
    BY <1>1, <2>1 DEF Works, Finishes
  <2>2. CASE Offer(s) \/ Fails(s)
    BY <1>1, <2>2 DEF Finishes
  <2> QED
    BY <1>2, <2>1, <2>2 DEF Works
<1> QED
  BY <1>2 DEF Next, TaskSets, CliSets

\* A set at work leaves the history alone, and the other sets where they are.
LEMMA Working ==
  ASSUME TypeInv, NEW s \in Setter, Works(s)
  PROVE  /\ s \in Active
         /\ \A r \in Setter : /\ (job'[r].at = "none") = (job[r].at = "none")
                              /\ job'[r].item = job[r].item
         /\ UNCHANGED <<native, sys, daemon, base, since, over, alone>>
         /\ ~littered' => ~littered
<1>1. job \in [Setter -> Job] /\ job[s] \in Job /\ JobOK(job[s])
  BY DEF TypeInv, TypeOK
<1>2. CASE Open(s) \/ Write(s) \/ SweepEnds(s) \/ Rmdir(s) \/ Mkdir(s) \/ (Store(s) /\ native)
  <2>1. s \in Active
    BY <1>2 DEF Open, Write, SweepEnds, Rmdir, Mkdir, Store, Active, Writing
  <2>2. \A r \in Setter \ {s} : job'[r] = job[r]
    BY <1>1, <1>2 DEF Open, Write, SweepEnds, Rmdir, Mkdir, Store
  <2>3. job'[s].item = job[s].item /\ job'[s].at # "none"
    <3>1. CASE Open(s) \/ Write(s)
      BY <1>1, <3>1 DEF Open, Write, Job, Writing
    <3>2. CASE SweepEnds(s)
      BY <1>1, <3>2 DEF SweepEnds, Job
    <3>3. CASE Rmdir(s)
      BY <1>1, <3>3 DEF Rmdir, Job
    <3>4. CASE Mkdir(s)
      BY <1>1, <3>4 DEF Mkdir, Job
    <3>5. CASE Store(s) /\ native
      BY <1>1, <3>5 DEF Store, Job
    <3> QED
      BY <1>2, <3>1, <3>2, <3>3, <3>4, <3>5
  <2>4. UNCHANGED <<native, sys, daemon, base, since, over, alone>> /\ (littered' = littered)
    BY <1>2 DEF Open, Write, SweepEnds, Rmdir, Mkdir, Store, history, fileVars
  <2> QED
    BY <1>1, <2>1, <2>2, <2>3, <2>4 DEF Active
<1>6. CASE List(s)
  <2>1. PICK read : job' = [job EXCEPT ![s].at = "sweep", ![s].todo = read]
    BY <1>6 DEF List
  <2>2. PICK error \in BOOLEAN : Leaves(s, error)
    BY <1>6 DEF List
  <2>3. UNCHANGED <<base, since, over, alone>> /\ (~littered' => ~littered)
    BY <2>2, LeavesDoes
  <2>4. UNCHANGED <<native, sys, daemon>> /\ s \in Active
    BY <1>6 DEF List, Active
  <2>5. \A r \in Setter : job'[r].item = job[r].item /\ (job'[r].at = "none") = (job[r].at = "none")
    <3>1. \A r \in Setter \ {s} : job'[r] = job[r]
      BY <1>1, <2>1
    <3>2. job'[s].item = job[s].item /\ job'[s].at = "sweep" /\ job[s].at = "list"
      BY <1>1, <1>6, <2>1 DEF Job, List
    <3> QED
      BY <3>1, <3>2
  <2> QED
    BY <2>3, <2>4, <2>5
<1>7. ASSUME NEW p \in File \X Way, Spares(s, p)
      PROVE  /\ s \in Active
             /\ \A r \in Setter : /\ (job'[r].at = "none") = (job[r].at = "none")
                                  /\ job'[r].item = job[r].item
             /\ UNCHANGED <<native, sys, daemon, base, since, over, alone>>
             /\ ~littered' => ~littered
  <2>1. UNCHANGED <<base, since, over, alone>> /\ (~littered' => ~littered)
    BY <1>7, LeavesDoes DEF Spares
  <2>2. UNCHANGED <<native, sys, daemon>> /\ s \in Active
    BY <1>7 DEF Spares, Active
  <2>3. \A r \in Setter : job'[r].item = job[r].item /\ job'[r].at = job[r].at
    BY <1>1, <1>7 DEF Spares, Job
  <2> QED
    BY <2>1, <2>2, <2>3
<1>3. CASE Rename(s) /\ entry[Target(job[s])].tmp # Absent
  <2> DEFINE M == Moved(job, Target(job[s]), [tmp |-> "file", file |-> "gone"])
  <2>1. job' = [M EXCEPT ![s].at = After(job[s]), ![s].io = "open"]
    BY <1>3 DEF Rename
  <2>2. M \in [Setter -> Job] /\ \A r \in Setter : M[r].at = job[r].at /\ M[r].item = job[r].item
    BY <1>1, MovedJobs, WayMaps
  <2>3. s \in Active
    BY <1>3 DEF Rename, Active, Writing
  <2>4. After(job[s]) # "none"
    BY <1>1, <1>3, Targets DEF Rename
  <2> HIDE DEF M
  <2>5. \A r \in Setter \ {s} : job'[r] = M[r]
    BY <2>1, <2>2
  <2>6. job'[s].item = job[s].item /\ job'[s].at # "none"
    BY <2>1, <2>2, <2>4 DEF Job
  <2> QED
    BY <1>3, <2>2, <2>3, <2>5, <2>6 DEF Rename, history, Active
<1>4. ASSUME NEW p \in File \X Way, Sweep(s, p)
      PROVE  /\ s \in Active
             /\ \A r \in Setter : /\ (job'[r].at = "none") = (job[r].at = "none")
                                  /\ job'[r].item = job[r].item
             /\ UNCHANGED <<native, sys, daemon, base, since, over, alone>>
             /\ ~littered' => ~littered
  <2> DEFINE M == Moved(job, p[1], [w \in Way |-> IF w = p[2] THEN "gone" ELSE w])
  <2>1. M \in [Setter -> Job] /\ \A r \in Setter : M[r].at = job[r].at /\ M[r].item = job[r].item
    BY <1>1, MovedJobs, WayMaps
  <2>2. job' = [M EXCEPT ![s].todo = M[s].todo \ {p}]
    BY <1>4, <2>1 DEF Sweep
  <2> HIDE DEF M
  <2>3. \A r \in Setter : job'[r].at = job[r].at /\ job'[r].item = job[r].item
    BY <2>1, <2>2 DEF Job
  <2>4. /\ s \in Active /\ UNCHANGED <<native, sys, daemon, base, since, over, alone>>
        /\ (littered' = littered)
    BY <1>4 DEF Sweep, history, Active
  <2> QED
    BY <2>3, <2>4
<1>5. CASE Undrop(s)
  <2>1. PICK gone \in SUBSET InDrop :
          /\ job' = [r \in Setter |->
                       IF r = s THEN [job[s] EXCEPT !.at = "rmdir"]
                       ELSE IF job[r].at = "drop" /\ <<Target(job[r]), job[r].hand>> \in gone
                         THEN [job[r] EXCEPT !.hand = "gone"]
                       ELSE job[r]]
          /\ Leaves(s, gone # InDrop)
    BY <1>5 DEF Undrop
  <2>2. UNCHANGED <<native, sys, daemon>> /\ s \in Active
    BY <1>5 DEF Undrop, Active
  <2>3. ASSUME NEW r \in Setter
        PROVE  (job'[r].at = "none") = (job[r].at = "none") /\ job'[r].item = job[r].item
    <3>1. job'[r] = IF r = s THEN [job[s] EXCEPT !.at = "rmdir"]
                    ELSE IF job[r].at = "drop" /\ <<Target(job[r]), job[r].hand>> \in gone
                      THEN [job[r] EXCEPT !.hand = "gone"]
                    ELSE job[r]
      BY <2>1
    <3>2. job[r] \in Job
      BY <1>1
    <3> QED
      BY <1>5, <3>1, <3>2 DEF Job, Undrop
  <2>4. UNCHANGED <<base, since, over, alone>> /\ (~littered' => ~littered)
    BY <2>1, LeavesDoes
  <2> QED
    BY <2>2, <2>3, <2>4
<1> QED
  BY <1>2, <1>3, <1>4, <1>5, <1>6, <1>7 DEF Works

\* What a set at work does to the files and to its own job, step by step.
LEMMA OpenDoes ==
  ASSUME TypeInv, NEW s \in Setter, Open(s)
  PROVE  /\ job'[s].at = job[s].at /\ job'[s].item = job[s].item /\ job'[s].todo = job[s].todo
         /\ job'[s].io = "write" /\ job'[s].hand = "tmp"
         /\ entry'[Target(job[s])] = [entry[Target(job[s])] EXCEPT !.tmp = Empty]
         /\ \A g \in File \ {Target(job[s])} : entry'[g] = entry[g]
<1>1. job \in [Setter -> Job] /\ job[s] \in Job /\ JobOK(job[s]) /\ Target(job[s]) \in File
  BY Targets DEF TypeInv, TypeOK, Open
<1>2. entry \in [File -> [tmp : What, file : What]]
  BY DEF TypeInv, TypeOK
<1>3. job'[s] = [job[s] EXCEPT !.io = "write", !.hand = "tmp"]
  BY <1>1 DEF Open
<1> QED
  BY <1>1, <1>2, <1>3 DEF Open, Job

\* The write of an undisturbed set fills the temporary file it opened.
LEMMA WriteDoes ==
  ASSUME TypeInv, NEW s \in Setter, Write(s), Undisturbed(s)
  PROVE  /\ job'[s].at = job[s].at /\ job'[s].item = job[s].item /\ job'[s].todo = job[s].todo
         /\ job'[s].io = "rename"
         /\ entry'[Target(job[s])] = [entry[Target(job[s])] EXCEPT !.tmp = Payload(job[s])]
         /\ \A g \in File \ {Target(job[s])} : entry'[g] = entry[g]
<1>1. job \in [Setter -> Job] /\ job[s] \in Job /\ JobOK(job[s]) /\ Target(job[s]) \in File
  BY Targets DEF TypeInv, TypeOK, Write
<1>2. entry \in [File -> [tmp : What, file : What]]
  BY DEF TypeInv, TypeOK
<1>3. job'[s] = [job[s] EXCEPT !.io = "rename", !.hand = "none"]
  BY <1>1 DEF Write
<1>4. job[s].hand = "tmp" /\ entry[Target(job[s])].tmp = Empty
  BY DEF Write, Undisturbed
<1>5. entry' = [entry EXCEPT ![Target(job[s])].tmp = Payload(job[s])]
  BY <1>4 DEF Write, Overlay
<1> QED
  BY <1>1, <1>2, <1>3, <1>5 DEF Job

\* The rename of an undisturbed set puts the whole file in its place.
LEMMA RenameDoes ==
  ASSUME TypeInv, NEW s \in Setter, Rename(s), entry[Target(job[s])].tmp # Absent, Undisturbed(s)
  PROVE  /\ job'[s].at = After(job[s]) /\ job'[s].item = job[s].item /\ job'[s].io = "open"
         /\ entry'[Target(job[s])] = Holds(Payload(job[s]))
         /\ \A g \in File \ {Target(job[s])} : entry'[g] = entry[g]
<1>1. job \in [Setter -> Job] /\ job[s] \in Job /\ JobOK(job[s]) /\ Target(job[s]) \in File
  BY Targets DEF TypeInv, TypeOK, Rename
<1>2. entry \in [File -> [tmp : What, file : What]]
  BY DEF TypeInv, TypeOK
<1> DEFINE M == Moved(job, Target(job[s]), [tmp |-> "file", file |-> "gone"])
<1>3. M \in [Setter -> Job] /\ M[s].item = job[s].item
  BY <1>1, MovedJobs, WayMaps
<1>4. job' = [M EXCEPT ![s].at = After(job[s]), ![s].io = "open"]
  BY DEF Rename
<1>5. entry' = [entry EXCEPT ![Target(job[s])] = Holds(entry[Target(job[s])].tmp)]
  BY DEF Rename, Holds
<1>6. entry[Target(job[s])].tmp = Payload(job[s])
  BY DEF Rename, Undisturbed
<1> HIDE DEF M
<1>7. job'[s].at = After(job[s]) /\ job'[s].item = job[s].item /\ job'[s].io = "open"
  BY <1>3, <1>4 DEF Job
<1> QED
  BY <1>1, <1>2, <1>5, <1>6, <1>7

\* A sweep removes one entry of those listed, and no other.
LEMMA SweepDoes ==
  ASSUME TypeInv, NEW s \in Setter, NEW p \in File \X Way, Sweep(s, p)
  PROVE  /\ p \in job[s].todo
         /\ job'[s].at = "sweep" /\ job'[s].item = job[s].item /\ job'[s].todo = job[s].todo \ {p}
         /\ entry' = [entry EXCEPT ![p[1]][p[2]] = Absent]
<1>1. job \in [Setter -> Job] /\ job[s] \in Job
  BY DEF TypeInv, TypeOK
<1> DEFINE M == Moved(job, p[1], [w \in Way |-> IF w = p[2] THEN "gone" ELSE w])
<1>2. /\ M \in [Setter -> Job] /\ M[s].item = job[s].item /\ M[s].at = job[s].at
      /\ M[s].todo = job[s].todo
  BY <1>1, MovedJobs, WayMaps
<1>3. job' = [M EXCEPT ![s].todo = M[s].todo \ {p}]
  BY <1>2 DEF Sweep
<1> HIDE DEF M
<1>4. job'[s].at = "sweep" /\ job'[s].item = job[s].item /\ job'[s].todo = job[s].todo \ {p}
  BY <1>2, <1>3 DEF Job, Sweep
<1> QED
  BY <1>4 DEF Sweep

\* The removal of the dropped files takes some of them, and nothing else; all of
\* them if a lone set has ignored no error.
LEMMA UndropDoes ==
  ASSUME TypeInv, NEW s \in Setter, Undrop(s)
  PROVE  /\ job'[s].at = "rmdir" /\ job'[s].item = job[s].item
         /\ \A f \in File : f[1] # "drop" => entry'[f] = entry[f]
         /\ ~littered' /\ s \in alone => NoDrop'
<1>1. job \in [Setter -> Job] /\ job[s] \in Job /\ entry \in [File -> [tmp : What, file : What]]
  BY DEF TypeInv, TypeOK
<1>2. PICK gone \in SUBSET InDrop :
        /\ entry' = [f \in File |-> [w \in Way |-> IF <<f, w>> \in gone THEN Absent ELSE entry[f][w]]]
        /\ job'[s] = [job[s] EXCEPT !.at = "rmdir"]
        /\ Leaves(s, gone # InDrop)
  BY DEF Undrop
<1>3. ASSUME NEW f \in File
      PROVE  entry'[f] = [tmp |-> IF <<f, "tmp">> \in gone THEN Absent ELSE entry[f].tmp,
                          file |-> IF <<f, "file">> \in gone THEN Absent ELSE entry[f].file]
  <2>1. entry'[f] = [w \in Way |-> IF <<f, w>> \in gone THEN Absent ELSE entry[f][w]]
    BY <1>2
  <2> QED
    BY <2>1 DEF Way
<1>4. ASSUME NEW f \in File, f[1] # "drop" PROVE entry'[f] = entry[f]
  <2>1. <<f, "tmp">> \notin gone /\ <<f, "file">> \notin gone
    BY <1>4 DEF InDrop
  <2>2. entry[f] \in [tmp : What, file : What] /\ entry'[f] = [tmp |-> entry[f].tmp, file |-> entry[f].file]
    BY <1>1, <1>3, <2>1
  <2> QED
    BY <2>2
<1>5. ASSUME ~littered', s \in alone, NEW m \in Name PROVE entry'[Dropped(m)] = Holds(Absent)
  <2>1. gone = InDrop
    BY <1>2, <1>5, LeavesDoes
  <2>2. PICK f \in File : f = Dropped(m) /\ f[1] = "drop"
    BY Files
  <2>3. /\ <<f, "tmp">> \in gone \/ entry[f]["tmp"] = Absent
        /\ <<f, "file">> \in gone \/ entry[f]["file"] = Absent
    BY <2>1, <2>2 DEF InDrop, Way
  <2> QED
    BY <1>1, <1>3, <2>2, <2>3 DEF Holds
<1> QED
  BY <1>1, <1>2, <1>4, <1>5 DEF Job, NoDrop

-----------------------------------------------------------------------------
(* The history *)

\* A step of a set that nothing has overlapped is no step of another.
LEMMA LonelyIsAlone ==
  ASSUME HistoryInv, NEW s \in Setter, Lonely(s), NEW r \in Active
  PROVE  r = s
BY DEF HistoryInv, Lonely, Active

\* What an end does to the history: there is no set left, or two overlap.
LEMMA Ending ==
  ASSUME TypeInv, HistoryInv, NEW s \in Setter, Finishes(s)
  PROVE  /\ \A r \in Setter : job'[r] = IF r = s THEN NoJob ELSE job[r]
         /\ alone' = alone \ {s}
         /\ UNCHANGED <<native, entry, daemon, littered>>
         /\ \/ UNCHANGED <<base, since, over>>
            \/ s \in alone /\ base' = job[s].item /\ since' = {} /\ over' = FALSE
         /\ \A r \in Setter : ~Lonely(r)'
<1>1. \E well \in BOOLEAN : Ends(s, well)
  BY DEF Finishes, Rename, Store, Offer, Fails
<1>2. /\ job' = [job EXCEPT ![s] = NoJob] /\ alone' = alone \ {s}
      /\ \/ UNCHANGED <<base, since, over>>
         \/ s \in alone /\ base' = job[s].item /\ since' = {} /\ over' = FALSE
      /\ littered' = littered
  BY <1>1 DEF Ends
<1>3. UNCHANGED <<native, entry, daemon>>
  BY DEF Finishes, Rename, Store, Offer, Fails, fileVars
<1>4. \A r \in Setter : job'[r] = IF r = s THEN NoJob ELSE job[r]
  BY <1>2 DEF TypeInv, TypeOK
<1>5. ASSUME NEW r \in Setter, Lonely(r)' PROVE FALSE
  <2>1. s \in Active
    BY DEF Finishes
  <2>2. CASE r \in alone'
    BY <1>2, <2>1, <2>2 DEF HistoryInv
  <2>3. CASE ~over' /\ r \in Active'
    <3>1. r \in Active /\ r # s
      BY <1>4, <2>3 DEF Active, NoJob
    <3>2. ~over \/ s \in alone
      BY <1>2, <2>3
    <3> QED
      BY <2>1, <3>1, <3>2 DEF HistoryInv
  <2> QED
    BY <1>5, <2>2, <2>3 DEF Lonely
<1> QED
  BY <1>2, <1>3, <1>4, <1>5

\* What a beginning does to it.
LEMMA Beginning ==
  ASSUME TypeInv, NEW s \in Setter, NEW i \in Item, Enters(s, i)
  PROVE  /\ s \notin Active
         /\ job'[s].at = "object" /\ job'[s].io = "open" /\ job'[s].item = i
         /\ \A r \in Setter \ {s} : job'[r] = job[r]
         /\ since' = since \cup {i} /\ over' = (over \/ Active # {})
         /\ alone' = IF Active # {} \/ (s \in Cli /\ daemon # "down") THEN {} ELSE {s}
         /\ UNCHANGED <<native, entry, sys, daemon, mem, base>>
<1>1. job[s] = NoJob
  BY DEF Enters, TypeInv, JobOK
<1>2. job' = [job EXCEPT ![s] = [NoJob EXCEPT !.at = "object", !.item = i]]
  BY <1>1 DEF Enters, TypeInv, TypeOK
<1>3. job'[s] = [NoJob EXCEPT !.at = "object", !.item = i] /\ \A r \in Setter \ {s} : job'[r] = job[r]
  BY <1>2 DEF TypeInv, TypeOK
<1>4. /\ since' = since \cup {i} /\ over' = (over \/ Active # {})
      /\ alone' = IF Active # {} \/ (s \in Cli /\ daemon # "down") THEN {} ELSE {s}
      /\ base' = base
  BY DEF Enters, Begins
<1>5. UNCHANGED <<native, entry, sys, daemon, mem>>
  BY DEF Enters, fileVars
<1>6. s \notin Active
  BY <1>1 DEF NoJob, Active
<1>7. job'[s].at = "object" /\ job'[s].io = "open" /\ job'[s].item = i
  BY <1>3 DEF NoJob
<1> QED
  BY <1>3, <1>4, <1>5, <1>6, <1>7

\* The history of lone sets goes on as the calls begin and end.
LEMMA StepHistory == TypeInv /\ HistoryInv /\ [Next]_vars => HistoryInv'
<1> SUFFICES ASSUME TypeInv, HistoryInv, [Next]_vars PROVE HistoryInv'
  OBVIOUS
<1>1. ASSUME NEW s \in Setter, Works(s)
      PROVE  HistoryInv'
  <2>1. Active' = Active
    BY <1>1, Working DEF Active
  <2>2. \A r \in Setter : job'[r].item = job[r].item
    BY <1>1, Working
  <2>3. UNCHANGED <<daemon, since, over, alone>>
    BY <1>1, Working
  <2>4. \A r \in alone : r \in Active' /\ \A q \in Active' : q = r
    BY <2>1 DEF HistoryInv, Active, TypeInv, TypeOK
  <2> QED
    BY <2>1, <2>2, <2>3, <2>4 DEF HistoryInv, Active
<1>2. ASSUME NEW s \in Setter, Finishes(s)
      PROVE  HistoryInv'
  <2>1. \A r \in Active' : r \in Active /\ r # s /\ job'[r].item = job[r].item
    <3>1. \A r \in Setter : job'[r] = IF r = s THEN NoJob ELSE job[r]
      BY <1>2, Ending
    <3> QED
      BY <3>1 DEF Active, NoJob
  <2>2. /\ alone' = alone \ {s} /\ daemon' = daemon /\ s \in Active
        /\ \/ UNCHANGED <<since, over>>
           \/ s \in alone
    BY <1>2, Ending DEF Finishes
  <2>3. s \in alone => Active' = {}
    BY <2>1 DEF HistoryInv
  <2>4. alone' = {}
    BY <2>2 DEF HistoryInv
  <2> QED
    BY <2>1, <2>2, <2>3, <2>4 DEF HistoryInv
<1>3. ASSUME NEW s \in Setter, NEW i \in Item, Enters(s, i)
      PROVE  HistoryInv'
  <2>1. Active' = Active \cup {s}
    BY <1>3, Beginning DEF Active
  <2>2. \A r \in Active' : job'[r].item \in since'
    BY <1>3, <2>1, Beginning DEF HistoryInv, Active
  <2>3. \A r \in alone' : r = s /\ Active = {} /\ (r \in Cli => daemon' = "down")
    BY <1>3, Beginning
  <2>4. ~over' => Active = {}
    BY <1>3, Beginning
  <2>5. job'[s].at # "none"
    BY <1>3, Beginning
  <2> QED
    BY <2>1, <2>2, <2>3, <2>4, <2>5 DEF HistoryInv
<1>4. CASE Start
  BY <1>4 DEF Start, HistoryInv, Active
<1>5. CASE Crash
  <2>1. \A r \in Setter : job'[r] = IF r \in Task THEN NoJob ELSE job[r]
    BY <1>5 DEF Crash
  <2>2. \A r \in Active' : r \in Active /\ job'[r].item = job[r].item
    BY <2>1 DEF Active, NoJob
  <2>3. \A r \in alone' : r \in alone /\ job'[r] = job[r]
    BY <1>5, <2>1 DEF Crash, TypeInv, TypeOK
  <2>4. UNCHANGED <<over, since>> /\ daemon' = "down"
    BY <1>5 DEF Crash
  <2> QED
    BY <2>2, <2>3, <2>4 DEF HistoryInv
<1>6. CASE Announce
  BY <1>6 DEF Announce, HistoryInv, Active, history
<1>7. CASE UserCopies
  BY <1>7 DEF UserCopies, HistoryInv, Active
<1>8. CASE UNCHANGED vars
  BY <1>8 DEF vars, HistoryInv, Active, history
<1> QED
  BY <1>1, <1>2, <1>3, <1>4, <1>5, <1>6, <1>7, <1>8, Steps

-----------------------------------------------------------------------------
(* Sets that nothing overlaps *)

\* A set at work that nothing has overlapped keeps its file to itself, and no
\* whole object is lost.
LEMMA UndisturbedWorks ==
  ASSUME TypeInv, TypeInv', NEW s \in Setter, Works(s), Undisturbed(s)
  PROVE  /\ Undisturbed(s)'
         /\ \A d \in Content : entry[Object(d)].file = d => entry'[Object(d)].file = d
<1>1. /\ entry \in [File -> [tmp : What, file : What]]
      /\ job \in [Setter -> Job] /\ job[s] \in Job /\ JobOK(job[s]) /\ JobOK(job'[s])
  BY DEF TypeInv, TypeOK, JobOK
<1>2. job[s].item \in Item /\ DataOf[job[s].item] \in Content /\ job'[s].item = job[s].item
  BY <1>1, Working, FileBackendAssumption DEF JobOK, Active
\* Steps between two places.
<1>3. ASSUME job'[s].io = "open", job[s].at # "object",
             \A d \in Content : entry'[Object(d)] = entry[Object(d)]
      PROVE  /\ Undisturbed(s)'
             /\ \A d \in Content : entry[Object(d)].file = d => entry'[Object(d)].file = d
  BY <1>2, <1>3 DEF Undisturbed
<1>4. CASE Open(s)
  <2> DEFINE f == Target(job[s])
  <2>1. f \in File
    BY <1>1, <1>4, Targets DEF Open
  <2>2. /\ job'[s].at = job[s].at /\ job'[s].io = "write" /\ job'[s].hand = "tmp"
        /\ entry'[f] = [entry[f] EXCEPT !.tmp = Empty]
        /\ \A g \in File \ {f} : entry'[g] = entry[g]
    BY <1>4, OpenDoes
  <2>3. Target(job'[s]) = f
    BY <1>2, <2>2 DEF Target
  <2> HIDE DEF f
  <2>4. entry'[f].tmp = Empty /\ \A g \in File : entry'[g].file = entry[g].file
    BY <1>1, <2>1, <2>2
  <2>5. \A d \in Content : entry'[Object(d)].file = entry[Object(d)].file
    BY <2>4, Files
  <2> QED
    BY <1>2, <2>2, <2>3, <2>4, <2>5 DEF Undisturbed
<1>5. CASE Write(s)
  <2> DEFINE f == Target(job[s])
  <2>1. f \in File
    BY <1>1, <1>5, Targets DEF Write
  <2>2. /\ job'[s].at = job[s].at /\ job'[s].io = "rename"
        /\ entry'[f] = [entry[f] EXCEPT !.tmp = Payload(job[s])]
        /\ \A g \in File \ {f} : entry'[g] = entry[g]
    BY <1>5, WriteDoes
  <2>3. Target(job'[s]) = f /\ Payload(job'[s]) = Payload(job[s])
    BY <1>2, <2>2 DEF Target, Payload
  <2> HIDE DEF f
  <2>4. entry'[f].tmp = Payload(job[s]) /\ \A g \in File : entry'[g].file = entry[g].file
    BY <1>1, <2>1, <2>2
  <2>5. \A d \in Content : entry'[Object(d)].file = entry[Object(d)].file
    BY <2>4, Files
  <2> QED
    BY <1>2, <2>2, <2>3, <2>4, <2>5 DEF Undisturbed
<1>6. CASE Rename(s) /\ entry[Target(job[s])].tmp # Absent
  <2> DEFINE f == Target(job[s])
  <2>1. f \in File /\ job[s].at \in Writing
    BY <1>1, <1>6, Targets DEF Rename
  <2>2. /\ job'[s].at = After(job[s]) /\ job'[s].io = "open"
        /\ entry'[f] = Holds(Payload(job[s]))
        /\ \A g \in File \ {f} : entry'[g] = entry[g]
    BY <1>6, RenameDoes
  <2>3. CASE job[s].at = "object"
    <3>1. f = Object(DataOf[job[s].item]) /\ Payload(job[s]) = DataOf[job[s].item]
      BY <1>1, <2>1, <2>3, Targets
    <3> HIDE DEF f
    <3>2. entry'[f].file = DataOf[job[s].item]
      BY <2>2, <3>1 DEF Holds
    <3>3. \A d \in Content : d # DataOf[job[s].item] => entry'[Object(d)] = entry[Object(d)]
      BY <1>2, <2>2, <3>1, Files
    <3> QED
      BY <1>2, <2>2, <3>1, <3>2, <3>3 DEF Undisturbed
  <2>4. CASE job[s].at # "object"
    <3>1. \A d \in Content : f # Object(d)
      <4>1. f[1] # "object"
        BY <1>1, <1>2, <2>1, <2>4, Targets, Files, FileBackendAssumption DEF Writing
      <4> QED
        BY <4>1, Files
    <3> HIDE DEF f
    <3>2. \A d \in Content : entry'[Object(d)] = entry[Object(d)]
      BY <2>2, <3>1, Files
    <3> QED
      BY <1>3, <2>2, <2>4, <3>2
  <2> QED
    BY <2>3, <2>4
<1>7. CASE List(s) \/ SweepEnds(s) \/ Rmdir(s) \/ Mkdir(s) \/ (Store(s) /\ native)
  <2>1. entry' = entry /\ job[s].at \notin Writing
    BY <1>7 DEF List, SweepEnds, Rmdir, Mkdir, Store, fileVars, Writing
  <2>2. job[s].io = "open" /\ job'[s].io = job[s].io
    <3>1. job[s].io = "open"
      BY <1>1, <2>1 DEF JobOK
    <3>2. CASE List(s)
      BY <1>1, <3>1, <3>2 DEF List, Job
    <3>3. CASE Rmdir(s)
      BY <1>1, <3>1, <3>3 DEF Rmdir, Job
    <3>4. CASE Mkdir(s)
      BY <1>1, <3>1, <3>4 DEF Mkdir, Job
    <3>5. CASE Store(s) /\ native
      BY <1>1, <3>1, <3>5 DEF Store, Job
    <3>6. CASE SweepEnds(s)
      BY <1>1, <3>1, <3>6 DEF SweepEnds, Job
    <3> QED
      BY <1>7, <3>1, <3>2, <3>3, <3>4, <3>5, <3>6
  <2>3. job[s].at # "object"
    BY <2>1 DEF Writing
  <2> QED
    BY <1>3, <2>1, <2>2, <2>3
<1>8. ASSUME NEW p \in File \X Way, Sweep(s, p)
      PROVE  /\ Undisturbed(s)'
             /\ \A d \in Content : entry[Object(d)].file = d => entry'[Object(d)].file = d
  <2>1. job[s].at = "sweep"
    BY <1>8 DEF Sweep
  <2>2. /\ p \in job[s].todo /\ job'[s].at = "sweep"
        /\ entry' = [entry EXCEPT ![p[1]][p[2]] = Absent]
    BY <1>8, SweepDoes
  <2>3. p[1][1] = "current" /\ p[1] \in File
    BY <1>1, <2>2 DEF JobOK
  <2>4. \A d \in Content : entry'[Object(d)] = entry[Object(d)]
    BY <1>1, <2>2, <2>3, Files
  <2>5. job'[s].io = "open"
    BY <1>1, <2>2 DEF JobOK, Writing
  <2> QED
    BY <1>3, <2>1, <2>4, <2>5
<1>10. ASSUME NEW p \in File \X Way, Spares(s, p)
       PROVE  /\ Undisturbed(s)'
              /\ \A d \in Content : entry[Object(d)].file = d => entry'[Object(d)].file = d
  <2>1. job[s].at = "sweep" /\ job'[s].at = "sweep" /\ entry' = entry
    BY <1>1, <1>10 DEF Spares, Job, fileVars
  <2>2. job'[s].io = "open"
    BY <1>1, <2>1 DEF JobOK, Writing
  <2> QED
    BY <1>3, <2>1, <2>2
<1>9. CASE Undrop(s)
  <2>1. job[s].at = "undrop" /\ job'[s].at = "rmdir"
    BY <1>9, UndropDoes DEF Undrop
  <2>2. \A d \in Content : entry'[Object(d)] = entry[Object(d)]
    BY <1>9, Files, UndropDoes
  <2>3. job'[s].io = "open"
    BY <1>1, <2>1 DEF JobOK, Writing
  <2> QED
    BY <1>3, <2>1, <2>2, <2>3
<1> QED
  BY <1>4, <1>5, <1>6, <1>7, <1>8, <1>9, <1>10 DEF Works

\* A set that runs alone goes from one place to the next.
LEMMA DoneWorks ==
  ASSUME TypeInv, TypeInv', NEW s \in alone, Works(s), Undisturbed(s), Done(s)
  PROVE  Done(s)'
<1>1. /\ entry \in [File -> [tmp : What, file : What]] /\ s \in Setter
      /\ job \in [Setter -> Job] /\ job[s] \in Job /\ JobOK(job[s]) /\ JobOK(job'[s])
  BY DEF TypeInv, TypeOK, JobOK
<1>0. PICK i \in Item : i = job[s].item
  BY <1>1, Working DEF JobOK, Active
<1>2. /\ i \in Item /\ DataOf[i] \in Content /\ ExtOf[i] \in Ext
      /\ job[s].item = i /\ job'[s].item = i /\ native' = native
      /\ ~littered' => ~littered
  BY <1>0, <1>1, Working, FileBackendAssumption
\* The files of one kind stay: what the set has achieved of them stays.
<1>13. ASSUME \A x \in Ext : entry'[Stable(x)] = entry[Stable(x)], CurrentIs(i)
       PROVE  CurrentIs(i)'
  BY <1>2, <1>13 DEF CurrentIs, Own, NoOther
<1>14. ASSUME \A m \in Name : entry'[Dropped(m)] = entry[Dropped(m)]
       PROVE  /\ (~littered => NoDrop) => (~littered' => NoDrop')
              /\ (~littered => NoOtherDrop(i)) => (~littered' => NoOtherDrop(i)')
              /\ DroppedIs(i) => DroppedIs(i)'
  BY <1>2, <1>14 DEF NoDrop, NoOtherDrop, OwnDrop, DroppedIs
\* What is achieved at a place, with the item named.
<1>15. ASSUME /\ job'[s].at \in {"list", "sweep"} => Own(i)'
              /\ job'[s].at = "sweep" /\ ~littered' => Swept(i, job[s].todo)'
              /\ job'[s].at \in {"undrop", "rmdir", "mkdir", "drop", "meta", "store", "offer"} => CurrentIs(i)'
              /\ job'[s].at \in {"rmdir", "mkdir"} /\ ~littered' => NoDrop'
              /\ job'[s].at = "drop" /\ ~littered' => NoOtherDrop(i)'
              /\ job'[s].at \in {"meta", "store", "offer"} => DroppedIs(i)'
              /\ job'[s].at \in {"store", "offer"} => MetaIs(i)'
              /\ job'[s].at = "offer" => native'
              /\ job'[s].at = "offer" /\ s \in Task => mem' = i
       PROVE  Done(s)'
  BY <1>2, <1>15 DEF Done, Own, Swept, CurrentIs, NoOther, NoDrop, NoOtherDrop, OwnDrop, DroppedIs, MetaIs
\* Writes to a temporary file.
<1>3. ASSUME job[s].at \in Writing, job'[s].at = job[s].at,
             \A g \in File \ {Target(job[s])} : entry'[g] = entry[g]
      PROVE  Done(s)'
  <2>1. CASE job[s].at = "object" \/ job[s].at = "current"
    BY <1>3, <2>1 DEF Done
  <2>2. CASE job[s].at = "drop"
    <3>1. Target(job[s]) = Dropped(NameOf[i]) /\ NameOf[i] \in Name
      BY <1>2, <1>1, <1>3, <2>2, Targets
    <3>2. /\ \A x \in Ext : entry'[Stable(x)] = entry[Stable(x)]
          /\ \A m \in Name \ {NameOf[i]} : entry'[Dropped(m)] = entry[Dropped(m)]
      BY <1>3, <3>1, Files
    <3>3. CurrentIs(i) /\ (~littered => NoOtherDrop(i))
      BY <1>2, <2>2 DEF Done
    <3>4. ~littered' => NoOtherDrop(i)'
      BY <1>2, <3>2, <3>3 DEF NoOtherDrop
    <3> QED
      BY <1>3, <1>13, <1>15, <2>2, <3>2, <3>3, <3>4
  <2>3. CASE job[s].at = "meta"
    <3>1. Target(job[s]) = Meta
      BY <1>1, <1>3, <2>3, Targets
    <3>2. /\ \A x \in Ext : entry'[Stable(x)] = entry[Stable(x)]
          /\ \A m \in Name : entry'[Dropped(m)] = entry[Dropped(m)]
      BY <1>3, <3>1, Files
    <3>3. CurrentIs(i) /\ DroppedIs(i)
      BY <1>2, <2>3 DEF Done
    <3> QED
      BY <1>3, <1>13, <1>14, <1>15, <2>3, <3>2, <3>3
  <2> QED
    BY <1>3, <2>1, <2>2, <2>3 DEF Writing
<1>4. CASE Open(s)
  BY <1>1, <1>3, <1>4, OpenDoes DEF Open
<1>5. CASE Write(s)
  BY <1>1, <1>3, <1>5, WriteDoes DEF Write
<1>6. CASE Rename(s) /\ entry[Target(job[s])].tmp # Absent
  <2> DEFINE f == Target(job[s])
  <2>1. f \in File /\ job[s].at \in Writing
    BY <1>1, <1>6, Targets DEF Rename
  <2>2. /\ job'[s].at = After(job[s])
        /\ entry'[f] = Holds(Payload(job[s]))
        /\ \A g \in File \ {f} : entry'[g] = entry[g]
    BY <1>1, <1>6, RenameDoes
  <2>3. CASE job[s].at = "object"
    <3>1. job'[s].at = "current"
      BY <1>1, <2>2, <2>3, <2>1, Targets
    <3> QED
      BY <3>1 DEF Done
  <2>4. CASE job[s].at = "current"
    <3>1. job'[s].at = "list" /\ f = Stable(ExtOf[i]) /\ Payload(job[s]) = DataOf[i]
      BY <1>2, <1>1, <2>1, <2>2, <2>4, Targets
    <3> HIDE DEF f
    <3>2. Own(i)'
      BY <1>2, <2>2, <3>1 DEF Own, Holds
    <3> QED
      BY <1>15, <3>1, <3>2
  <2>5. CASE job[s].at = "drop"
    <3>1. /\ job'[s].at = "meta" /\ f = Dropped(NameOf[i]) /\ Payload(job[s]) = DataOf[i]
          /\ NameOf[i] \in Name
      BY <1>2, <1>1, <2>1, <2>2, <2>5, Targets
    <3> HIDE DEF f
    <3>2. /\ \A x \in Ext : entry'[Stable(x)] = entry[Stable(x)]
          /\ \A m \in Name \ {NameOf[i]} : entry'[Dropped(m)] = entry[Dropped(m)]
      BY <2>2, <3>1, Files
    <3>3. CurrentIs(i) /\ (~littered => NoOtherDrop(i))
      BY <1>2, <2>5 DEF Done
    <3>4. OwnDrop(i)'
      BY <2>2, <3>1 DEF OwnDrop, Holds
    <3>5. ~littered' => NoOtherDrop(i)'
      BY <1>2, <3>2, <3>3 DEF NoOtherDrop
    <3>6. DroppedIs(i)'
      BY <3>4, <3>5 DEF DroppedIs
    <3> QED
      BY <1>13, <1>15, <3>1, <3>2, <3>3, <3>6
  <2>6. CASE job[s].at = "meta"
    <3>1. job'[s].at = "store" /\ f = Meta /\ Payload(job[s]) = i
      BY <1>2, <1>1, <2>1, <2>2, <2>6, Targets
    <3> HIDE DEF f
    <3>2. /\ \A x \in Ext : entry'[Stable(x)] = entry[Stable(x)]
          /\ \A m \in Name : entry'[Dropped(m)] = entry[Dropped(m)]
          /\ entry'[Meta] = Holds(i)
      BY <2>2, <3>1, Files
    <3>3. CurrentIs(i) /\ DroppedIs(i)
      BY <1>2, <2>6 DEF Done
    <3>4. MetaIs(i)'
      BY <3>2 DEF MetaIs, Holds
    <3> QED
      BY <1>13, <1>14, <1>15, <3>1, <3>2, <3>3, <3>4
  <2> QED
    BY <2>1, <2>3, <2>4, <2>5, <2>6 DEF Writing
<1>7. CASE List(s)
  <2>1. PICK read \in SUBSET Others(i) :
          /\ job' = [job EXCEPT ![s].at = "sweep", ![s].todo = read]
          /\ Leaves(s, read # Others(i))
    BY <1>2, <1>7 DEF List
  <2>2. job'[s].at = "sweep" /\ job'[s].todo = read /\ entry' = entry
    BY <1>1, <1>7, <2>1 DEF List, Job, fileVars
  <2>3. Own(i)
    BY <1>2, <1>7 DEF Done, List
  <2>4. Own(i)'
    BY <2>2, <2>3 DEF Own
  <2>5. ~littered' => read = Others(i)
    BY <1>1, <2>1, LeavesDoes
  <2>6. Swept(i, Others(i))
    BY DEF Swept, Others
  <2>7. ~littered' => Swept(i, job[s].todo)'
    BY <2>2, <2>5, <2>6 DEF Swept
  <2> QED
    BY <1>15, <2>2, <2>4, <2>7
<1>8. ASSUME NEW p \in File \X Way, Sweep(s, p) PROVE Done(s)'
  <2>1. Own(i) /\ (~littered => Swept(i, job[s].todo)) /\ (littered' = littered)
    BY <1>2, <1>8 DEF Sweep, Done, history
  <2>2. /\ p \in job[s].todo /\ job'[s].at = "sweep" /\ job'[s].todo = job[s].todo \ {p}
        /\ entry' = [entry EXCEPT ![p[1]][p[2]] = Absent]
    BY <1>1, <1>8, SweepDoes
  <2>3. /\ p = <<p[1], p[2]>> /\ p[1] \in File /\ p[2] \in {"tmp", "file"}
        /\ p # <<Stable(ExtOf[i]), "file">>
    BY <1>2, <1>1, <2>2 DEF JobOK, Way
  <2>4. Own(i)'
    <3>1. Stable(ExtOf[i]) \in File
      BY <1>2, Files
    <3>2. CASE p[1] # Stable(ExtOf[i])
      BY <1>1, <2>1, <2>2, <2>3, <3>1, <3>2 DEF Own
    <3>3. CASE p[1] = Stable(ExtOf[i])
      <4>1. p[2] = "tmp"
        BY <2>3, <3>3
      <4>2. entry[Stable(ExtOf[i])].tmp = Absent
        BY <2>1 DEF Own, Holds
      <4>3. entry'[Stable(ExtOf[i])] = entry[Stable(ExtOf[i])]
        BY <1>1, <2>2, <3>1, <3>3, <4>1, <4>2
      <4> QED
        BY <2>1, <4>3 DEF Own
    <3> QED
      BY <3>2, <3>3
  <2>5. PICK S \in {job[s].todo \ {p}} : TRUE
    OBVIOUS
  <2>6. ASSUME ~littered PROVE Swept(i, S)'
    <3> SUFFICES ASSUME NEW g \in File, NEW w \in Way, g[1] = "current",
                        <<g, w>> \notin S \cup {<<Stable(ExtOf[i]), "file">>, <<Meta, "file">>}
                 PROVE  entry'[g][w] = Absent
      BY DEF Swept
    <3>1. CASE <<g, w>> = p
      BY <1>1, <2>2, <2>3, <3>1 DEF Way
    <3>2. CASE <<g, w>> # p
      <4>1. entry[g][w] = Absent
        BY <2>1, <2>5, <2>6, <3>2 DEF Swept
      <4>2. g # p[1] \/ w # p[2]
        BY <2>3, <3>2
      <4>3. entry'[g][w] = entry[g][w]
        BY <1>1, <2>2, <2>3, <4>2 DEF Way
      <4> QED
        BY <4>1, <4>3
    <3> QED
      BY <3>1, <3>2
  <2>7. ~littered' => Swept(i, job[s].todo)'
    BY <2>1, <2>2, <2>5, <2>6 DEF Swept
  <2> QED
    BY <1>15, <2>2, <2>4, <2>7
<1>16. ASSUME NEW p \in File \X Way, Spares(s, p) PROVE Done(s)'
  <2>1. job[s].at = "sweep" /\ job'[s].at = "sweep" /\ entry' = entry
    BY <1>1, <1>16 DEF Spares, Job, fileVars
  <2>2. littered'
    BY <1>1, <1>16, LeavesDoes DEF Spares
  <2>3. Own(i)'
    BY <1>2, <2>1 DEF Done, Own
  <2> QED
    BY <1>15, <2>1, <2>2, <2>3
<1>17. CASE SweepEnds(s)
  <2>1. entry' = entry /\ job'[s].at = "undrop" /\ job[s].todo = {} /\ job[s].at = "sweep"
    BY <1>1, <1>17 DEF SweepEnds, Job, fileVars
  <2>2. Own(i) /\ (~littered => Swept(i, job[s].todo))
    BY <1>2, <2>1 DEF Done
  <2>3. ASSUME ~littered, NEW x \in Ext, x # ExtOf[i] PROVE entry[Stable(x)] = Holds(Absent)
    <3>1. Stable(x) \in File /\ Stable(x)[1] = "current" /\ Stable(x) # Stable(ExtOf[i]) /\ Stable(x) # Meta
      BY <1>2, <2>3, Files
    <3>2. entry[Stable(x)]["tmp"] = Absent /\ entry[Stable(x)]["file"] = Absent
      BY <2>1, <2>2, <2>3, <3>1 DEF Swept, Way
    <3> QED
      BY <1>1, <3>1, <3>2 DEF Holds
  <2>4. CurrentIs(i)
    BY <2>2, <2>3 DEF CurrentIs, NoOther
  <2> QED
    BY <1>13, <1>15, <2>1, <2>4
<1>9. CASE Undrop(s)
  <2>1. job[s].at = "undrop" /\ job'[s].at = "rmdir"
    BY <1>1, <1>9, UndropDoes DEF Undrop
  <2>2. \A x \in Ext : entry'[Stable(x)] = entry[Stable(x)]
    BY <1>1, <1>9, Files, UndropDoes
  <2>3. CurrentIs(i)
    BY <1>2, <2>1 DEF Done
  <2>4. ~littered' => NoDrop'
    BY <1>1, <1>9, UndropDoes
  <2> QED
    BY <1>13, <1>15, <2>1, <2>2, <2>3, <2>4
<1>10. CASE Rmdir(s)
  <2>1. CurrentIs(i) /\ (~littered => NoDrop)
    BY <1>2, <1>10 DEF Rmdir, Done
  <2>2. entry' = entry /\ job'[s].at = IF NameOf[i] = NoName THEN "meta" ELSE "mkdir"
    BY <1>2, <1>1, <1>10 DEF Rmdir, Job
  <2>3. CurrentIs(i)' /\ (~littered' => NoDrop')
    BY <1>13, <1>14, <2>1, <2>2
  <2>4. CASE NameOf[i] = NoName
    <3>1. OwnDrop(i)'
      BY <2>4, FileBackendAssumption DEF OwnDrop
    <3>2. ~littered' => NoOtherDrop(i)'
      BY <2>3 DEF NoDrop, NoOtherDrop
    <3>3. DroppedIs(i)'
      BY <3>1, <3>2 DEF DroppedIs
    <3> QED
      BY <1>15, <2>2, <2>3, <2>4, <3>3
  <2>5. CASE NameOf[i] # NoName
    BY <1>15, <2>2, <2>3, <2>5
  <2> QED
    BY <2>4, <2>5
<1>11. CASE Mkdir(s)
  <2>1. CurrentIs(i) /\ (~littered => NoDrop)
    BY <1>2, <1>11 DEF Mkdir, Done
  <2>2. entry' = entry /\ job'[s].at = "drop"
    BY <1>1, <1>11 DEF Mkdir, Job
  <2>3. CurrentIs(i)' /\ (~littered' => NoDrop')
    BY <1>13, <1>14, <2>1, <2>2
  <2>4. ~littered' => NoOtherDrop(i)'
    BY <2>3 DEF NoDrop, NoOtherDrop
  <2> QED
    BY <1>15, <2>2, <2>3, <2>4
<1>12. CASE Store(s) /\ native
  <2>1. CurrentIs(i) /\ DroppedIs(i) /\ MetaIs(i)
    BY <1>2, <1>12 DEF Store, Done
  <2>2. entry' = entry /\ job'[s].at = "offer" /\ (s \in Task => mem' = i)
    BY <1>2, <1>1, <1>12 DEF Store, Job, fileVars
  <2>3. CurrentIs(i)' /\ DroppedIs(i)' /\ MetaIs(i)'
    BY <1>13, <1>14, <2>1, <2>2 DEF MetaIs
  <2> QED
    BY <1>2, <1>12, <1>15, <2>2, <2>3
<1> QED
  BY <1>4, <1>5, <1>6, <1>7, <1>8, <1>9, <1>10, <1>11, <1>12, <1>16, <1>17 DEF Works

\* Whoever nothing has overlapped after a step is at work in it, begins in it,
\* or has no part in it.
LEMMA LonelySteps ==
  ASSUME TypeInv, HistoryInv, [Next]_vars, NEW s \in Setter, Lonely(s)'
  PROVE  \/ Lonely(s) /\ (s \in alone' => s \in alone) /\ Works(s)
         \/ job'[s].at = "object" /\ job'[s].io = "open"
         \/ /\ Lonely(s) /\ (s \in alone' => s \in alone /\ UNCHANGED <<native, mem, littered>>)
            /\ UNCHANGED entry /\ job'[s] = job[s]
<1>1. ASSUME NEW r \in Setter, Works(r)
      PROVE  r = s /\ Lonely(s) /\ alone' = alone
  <2>1. r \in Active /\ Active' = Active /\ UNCHANGED <<alone, over>>
    BY <1>1, Working DEF Active
  <2>2. Lonely(s)
    BY <2>1 DEF Lonely
  <2> QED
    BY <2>1, <2>2, LonelyIsAlone
<1>2. ASSUME NEW r \in Setter, Finishes(r)
      PROVE  FALSE
  BY <1>2, Ending
<1>3. ASSUME NEW r \in Setter, NEW i \in Item, Enters(r, i)
      PROVE  job'[s].at = "object" /\ job'[s].io = "open"
  <2>1. r = s
    <3>1. Active' = Active \cup {r}
      BY <1>3, Beginning DEF Active
    <3>2. over' = (over \/ Active # {}) /\ alone' \in {{}, {r}}
      BY <1>3, Beginning
    <3> QED
      BY <3>1, <3>2 DEF Lonely
  <2> QED
    BY <1>3, <2>1, Beginning
<1>4. CASE Start \/ Announce \/ UserCopies \/ UNCHANGED vars
  <2>1. /\ entry' = entry /\ job' = job /\ over' = over
        /\ \/ alone' = {}
           \/ UNCHANGED <<alone, native, mem, littered>>
    BY <1>4 DEF Start, Announce, UserCopies, vars, fileVars, history
  <2>2. Lonely(s) /\ (s \in alone' => s \in alone /\ UNCHANGED <<native, mem, littered>>)
    BY <2>1 DEF Lonely, Active
  <2> QED
    BY <2>1, <2>2
<1>5. CASE Crash
  <2>1. /\ entry' = entry /\ over' = over /\ alone' = alone \ Task /\ daemon # "down"
        /\ \A r \in Setter : job'[r] = IF r \in Task THEN NoJob ELSE job[r]
    BY <1>5 DEF Crash, fileVars
  <2>2. s \notin alone'
    BY <2>1 DEF HistoryInv, Setter
  <2>3. s \notin Task /\ s \in Active /\ ~over
    BY <2>1, <2>2 DEF Lonely, Active, NoJob
  <2> QED
    BY <2>1, <2>2, <2>3 DEF Lonely
<1> QED
  BY <1>1, <1>2, <1>3, <1>4, <1>5, Steps

\* No step of another call disturbs the file a lone set has open.
LEMMA StepLonely ==
  TypeInv /\ TypeInv' /\ HistoryInv /\ LonelyInv /\ [Next]_vars => LonelyInv'
<1> SUFFICES ASSUME TypeInv, TypeInv', HistoryInv, LonelyInv, [Next]_vars,
                    NEW s \in Setter, Lonely(s)'
             PROVE  Undisturbed(s)'
  BY DEF LonelyInv
<1>1. CASE Lonely(s) /\ Works(s)
  BY <1>1, UndisturbedWorks DEF LonelyInv
<1>2. CASE job'[s].at = "object" /\ job'[s].io = "open"
  BY <1>2 DEF Undisturbed
<1>3. CASE Lonely(s) /\ UNCHANGED entry /\ job'[s] = job[s]
  BY <1>3 DEF LonelyInv, Undisturbed, Target, Payload
<1> QED
  BY <1>1, <1>2, <1>3, LonelySteps

\* An undisturbed set adds to what it has achieved, place by place.
LEMMA StepDone ==
  TypeInv /\ TypeInv' /\ HistoryInv /\ LonelyInv /\ DoneInv /\ [Next]_vars => DoneInv'
<1> SUFFICES ASSUME TypeInv, TypeInv', HistoryInv, LonelyInv, DoneInv, [Next]_vars,
                    NEW s \in alone'
             PROVE  Done(s)'
  BY DEF DoneInv
<1>1. s \in Setter /\ Lonely(s)'
  BY DEF TypeInv, TypeOK, Lonely
<1>2. CASE s \in alone /\ Works(s)
  <2>1. Undisturbed(s) /\ Done(s)
    BY <1>1, <1>2 DEF LonelyInv, DoneInv, Lonely
  <2> QED
    BY <1>1, <1>2, <2>1, DoneWorks
<1>3. CASE job'[s].at = "object"
  BY <1>3 DEF Done
<1>4. CASE s \in alone /\ UNCHANGED <<native, mem, littered, entry>> /\ job'[s] = job[s]
  <2>1. Done(s)
    BY <1>4 DEF DoneInv
  <2> QED
    BY <1>4, <2>1 DEF Done, Own, Swept, CurrentIs, NoOther, NoDrop, NoOtherDrop, OwnDrop,
                      DroppedIs, MetaIs
<1> QED
  BY <1>1, <1>2, <1>3, <1>4, LonelySteps

-----------------------------------------------------------------------------
(* What is left *)

\* A lone set has its files in place at its end, and the daemon and the system
\* clipboard have its item.
LEMMA LoneEnd ==
  ASSUME TypeInv, HistoryInv, LonelyInv, DoneInv, NEW s \in alone,
         Finishes(s), base' = job[s].item, since' = {}, since # {}
  PROVE  LET i == job[s].item IN
         /\ i \in Item /\ MetaIs(i) /\ CurrentIs(i) /\ DroppedIs(i)
         /\ entry[Object(DataOf[i])].file = DataOf[i]
         /\ UNCHANGED <<native, entry, daemon>>
         /\ daemon # "down" => mem' = i
         /\ native => sys' = DataOf[i]
<1>1. s \in Setter /\ Lonely(s) /\ Undisturbed(s) /\ Done(s) /\ job[s].at # "none" /\ JobOK(job[s])
  BY DEF TypeInv, TypeOK, LonelyInv, DoneInv, Lonely, HistoryInv
<1>2. (Store(s) /\ ~native) \/ Offer(s)
  <2>1. \A well \in BOOLEAN : Ends(s, well) /\ ~well => since' = since
    BY DEF Ends
  <2>2. Ends(s, FALSE) => since' = since
    BY <2>1
  <2>3. ~Fails(s) /\ ~(Rename(s) /\ entry[Target(job[s])].tmp = Absent)
    BY <2>2 DEF Fails, Rename
  <2> QED
    BY <2>3 DEF Finishes
<1>3. job[s].at \in {"store", "offer"} /\ job[s].item \in Item
  BY <1>1, <1>2 DEF Store, Offer, JobOK
<1>4. entry[Object(DataOf[job[s].item])].file = DataOf[job[s].item]
  BY <1>1, <1>3 DEF Undisturbed
<1>5. MetaIs(job[s].item) /\ CurrentIs(job[s].item) /\ DroppedIs(job[s].item)
  BY <1>1, <1>3 DEF Done
<1>6. daemon # "down" => s \in Task
  BY <1>1 DEF HistoryInv, Setter
<1>7. CASE Store(s) /\ ~native
  BY <1>3, <1>4, <1>5, <1>6, <1>7 DEF Store, fileVars
<1>8. CASE Offer(s)
  BY <1>1, <1>3, <1>4, <1>5, <1>6, <1>8 DEF Offer, Done, fileVars
<1> QED
  BY <1>2, <1>7, <1>8

\* An end that is the first since the last lone set, or that leaves it as the
\* last: the two cases of the history.
LEMMA EndIs ==
  ASSUME TypeInv, HistoryInv, NEW s \in Setter, Finishes(s)
  PROVE  /\ since # {} /\ since' \subseteq since
         /\ \/ UNCHANGED <<base, since, over>>
            \/ s \in alone /\ base' = job[s].item /\ since' = {} /\ over' = FALSE
<1>1. s \in Active
  BY DEF Finishes
<1> QED
  BY <1>1, Ending DEF HistoryInv

\* Between sets the directory stays as the last lone one left it.
LEMMA StepLeft ==
  TypeInv /\ HistoryInv /\ LonelyInv /\ DoneInv /\ Left /\ [Next]_vars => Left'
<1> SUFFICES ASSUME TypeInv, HistoryInv, LonelyInv, DoneInv, Left, [Next]_vars,
                    base' # None, since' = {}
             PROVE  /\ MetaIs(base)' /\ CurrentIs(base)' /\ DroppedIs(base)' /\ ~over'
                    /\ daemon' # "down" => mem' = base'
                    /\ native' => sys' = DataOf[base']
  BY DEF Left
<1>1. ASSUME NEW s \in Setter, Works(s) PROVE FALSE
  <2>1. s \in Active /\ since' = since
    BY <1>1, Working
  <2> QED
    BY <2>1 DEF HistoryInv
<1>2. ASSUME NEW s \in Setter, Finishes(s)
      PROVE  /\ MetaIs(base)' /\ CurrentIs(base)' /\ DroppedIs(base)' /\ ~over'
             /\ daemon' # "down" => mem' = base'
             /\ native' => sys' = DataOf[base']
  <2>1. since # {} /\ s \in alone /\ base' = job[s].item /\ ~over'
    BY <1>2, EndIs
  <2>2. /\ MetaIs(job[s].item) /\ CurrentIs(job[s].item) /\ DroppedIs(job[s].item)
        /\ UNCHANGED <<native, entry, daemon, littered>>
        /\ daemon # "down" => mem' = job[s].item
        /\ native => sys' = DataOf[job[s].item]
    BY <1>2, <2>1, LoneEnd, Ending
  <2> QED
    BY <2>1, <2>2 DEF MetaIs, CurrentIs, DroppedIs, Own, NoOther, NoOtherDrop, OwnDrop
<1>3. ASSUME NEW s \in Setter, NEW i \in Item, Enters(s, i) PROVE FALSE
  BY <1>3, Beginning
<1>4. CASE Start
  <2>1. /\ base' = base /\ since' = since /\ entry' = entry /\ UNCHANGED <<native, sys, over, littered>>
        /\ mem' = Parsed(entry[Meta].file)
    BY <1>4 DEF Start, fileVars
  <2>2. MetaIs(base) /\ CurrentIs(base) /\ DroppedIs(base) /\ ~over /\ (native => sys = DataOf[base])
    BY <2>1 DEF Left
  <2>3. base \in Item
    BY <2>1 DEF TypeInv, TypeOK
  <2>4. mem' = base
    BY <2>1, <2>2, <2>3 DEF MetaIs, Holds, Parsed
  <2> QED
    BY <2>1, <2>2, <2>4 DEF MetaIs, CurrentIs, DroppedIs, Own, NoOther, NoOtherDrop, OwnDrop
<1>5. CASE Crash
  <2>1. /\ base' = base /\ since' = since /\ entry' = entry /\ UNCHANGED <<native, sys, over, littered>>
        /\ daemon' = "down"
    BY <1>5 DEF Crash, fileVars
  <2> QED
    BY <2>1 DEF Left, MetaIs, CurrentIs, DroppedIs, Own, NoOther, NoOtherDrop, OwnDrop
<1>6. CASE Announce \/ UNCHANGED vars
  <2>1. /\ UNCHANGED <<base, since, over, littered, entry, native, sys, mem>>
        /\ (daemon' = "down") = (daemon = "down")
    BY <1>6 DEF Announce, vars, history, fileVars
  <2> QED
    BY <2>1 DEF Left, MetaIs, CurrentIs, DroppedIs, Own, NoOther, NoOtherDrop, OwnDrop
<1>7. CASE UserCopies
  BY <1>7 DEF UserCopies
<1> QED
  BY <1>1, <1>2, <1>3, <1>4, <1>5, <1>6, <1>7, Steps

\* A kept item stays kept by a step that loses no whole object.
LEMMA KeptStays ==
  ASSUME NEW i, Kept(i), base' = base, since \subseteq since',
         \A d \in Content : entry[Object(d)].file = d => entry'[Object(d)].file = d
  PROVE  Kept(i)'
BY FileBackendAssumption DEF Kept

\* A set that is stopped anywhere leaves one whole clip to be read.
LEMMA StepKept ==
  TypeInv /\ TypeInv' /\ HistoryInv /\ LonelyInv /\ DoneInv /\ KeptInv /\ [Next]_vars => KeptInv'
<1> SUFFICES ASSUME TypeInv, TypeInv', HistoryInv, LonelyInv, DoneInv, KeptInv, [Next]_vars,
                    base' # None, ~over'
             PROVE  Kept(entry[Meta].file)' /\ (daemon' # "down" => Kept(mem)')
  BY DEF KeptInv
\* A step of the last clip's reign, and the items in it.
<1>1. ASSUME UNCHANGED base, over' = over \/ ~over, since \subseteq since',
             \A d \in Content : entry[Object(d)].file = d => entry'[Object(d)].file = d,
             \/ entry'[Meta].file = entry[Meta].file
             \/ Kept(entry'[Meta].file),
             \/ daemon' = "down"
             \/ mem' = mem /\ daemon # "down"
             \/ Kept(mem')
             \/ mem' = Parsed(entry[Meta].file)
      PROVE  Kept(entry[Meta].file)' /\ (daemon' # "down" => Kept(mem)')
  <2>1. Kept(entry[Meta].file) /\ (daemon # "down" => Kept(mem))
    BY <1>1 DEF KeptInv
  <2>2. Kept(entry'[Meta].file) /\ (daemon' # "down" => Kept(mem'))
    BY <1>1, <2>1 DEF Parsed, Kept
  <2>3. \A i : Kept(i) => i \in Item /\ i \in {base'} \cup since' /\ entry'[Object(DataOf[i])].file = DataOf[i]
    BY <1>1, FileBackendAssumption DEF Kept
  <2> QED
    BY <2>2, <2>3 DEF Kept
<1>2. ASSUME NEW s \in Setter, Works(s)
      PROVE  Kept(entry[Meta].file)' /\ (daemon' # "down" => Kept(mem)')
  <2>1. s \in Active /\ UNCHANGED <<native, daemon, base, since, over>>
    BY <1>2, Working
  <2>2. Undisturbed(s)
    BY <2>1 DEF LonelyInv, Lonely
  <2>3. \A d \in Content : entry[Object(d)].file = d => entry'[Object(d)].file = d
    BY <1>2, <2>2, UndisturbedWorks
  <2>4. job[s].at # "object" => Kept(job[s].item)
    BY <2>1, <2>2 DEF Undisturbed, HistoryInv, TypeInv, JobOK, Kept, Active
  <2>5. /\ entry \in [File -> [tmp : What, file : What]] /\ job[s] \in Job /\ JobOK(job[s])
    BY DEF TypeInv, TypeOK
  <2>6. entry'[Meta].file = entry[Meta].file \/ Kept(entry'[Meta].file)
    <3>1. CASE Open(s)
      <4>1. PICK f \in File : f = Target(job[s])
        BY <2>5, <3>1, Targets DEF Open
      <4>2. /\ entry'[f] = [entry[f] EXCEPT !.tmp = Empty]
            /\ \A g \in File \ {f} : entry'[g] = entry[g]
        BY <3>1, <4>1, OpenDoes
      <4>3. \A g \in File : entry'[g].file = entry[g].file
        BY <2>5, <4>2
      <4> QED
        BY <4>3, Files
    <3>2. CASE Write(s)
      <4>1. PICK f \in File : f = Target(job[s])
        BY <2>5, <3>2, Targets DEF Write
      <4>2. /\ entry'[f] = [entry[f] EXCEPT !.tmp = Payload(job[s])]
            /\ \A g \in File \ {f} : entry'[g] = entry[g]
        BY <2>2, <3>2, <4>1, WriteDoes
      <4>3. \A g \in File : entry'[g].file = entry[g].file
        BY <2>5, <4>2
      <4> QED
        BY <4>3, Files
    <3>3. CASE Rename(s) /\ entry[Target(job[s])].tmp # Absent
      <4>1. /\ entry'[Target(job[s])] = Holds(Payload(job[s]))
            /\ \A g \in File \ {Target(job[s])} : entry'[g] = entry[g]
        BY <2>2, <3>3, RenameDoes
      <4>2. CASE job[s].at = "meta"
        <5>1. Target(job[s]) = Meta /\ Payload(job[s]) = job[s].item
          BY <2>5, <3>3, <4>2, Targets DEF Rename
        <5>2. entry'[Meta].file = job[s].item
          BY <4>1, <5>1 DEF Holds
        <5> QED
          BY <2>4, <4>2, <5>2
      <4>3. CASE job[s].at # "meta"
        <5>1. Target(job[s]) # Meta
          BY <2>5, <3>3, <4>3, Targets, Files, FileBackendAssumption DEF Rename, Writing
        <5> QED
          BY <4>1, <5>1, Files
      <4> QED
        BY <4>2, <4>3
    <3>4. CASE List(s) \/ SweepEnds(s) \/ Rmdir(s) \/ Mkdir(s) \/ (Store(s) /\ native)
      BY <3>4 DEF List, SweepEnds, Rmdir, Mkdir, Store, fileVars
    <3>5. ASSUME NEW p \in File \X Way, Sweep(s, p) PROVE entry'[Meta].file = entry[Meta].file
      <4>1. p \in job[s].todo /\ entry' = [entry EXCEPT ![p[1]][p[2]] = Absent]
        BY <3>5, SweepDoes
      <4>2. p # <<Meta, "file">> /\ p = <<p[1], p[2]>> /\ p[1] \in File /\ p[2] \in {"tmp", "file"}
        BY <2>5, <4>1 DEF JobOK, Way
      <4>3. p[1] # Meta \/ p[2] = "tmp"
        BY <4>2
      <4> QED
        BY <2>5, <4>1, <4>2, <4>3, Files
    <3>7. ASSUME NEW p \in File \X Way, Spares(s, p) PROVE entry' = entry
      BY <3>7 DEF Spares, fileVars
    <3>6. CASE Undrop(s)
      BY <3>6, Files, UndropDoes
    <3> QED
      BY <1>2, <3>1, <3>2, <3>3, <3>4, <3>5, <3>6, <3>7 DEF Works
  <2>7. mem' = mem \/ Kept(mem')
    <3>1. CASE Store(s) /\ native
      BY <2>4, <3>1 DEF Store
    <3>2. CASE ~(Store(s) /\ native)
      BY <1>2, <3>2 DEF Works, Open, Write, Rename, List, Sweep, SweepEnds, Spares, Undrop, Rmdir, Mkdir
    <3> QED
      BY <3>1, <3>2
  <2>8. daemon' = "down" \/ (mem' = mem /\ daemon # "down") \/ Kept(mem')
    BY <2>1, <2>7
  <2> QED
    BY <1>1, <2>1, <2>3, <2>6, <2>8
<1>3. ASSUME NEW s \in Setter, Finishes(s)
      PROVE  Kept(entry[Meta].file)' /\ (daemon' # "down" => Kept(mem)')
  <2>1. UNCHANGED <<native, entry, daemon>>
    BY <1>3, Ending
  <2>2. CASE s \in alone /\ base' = job[s].item /\ since' = {}
    <3>1. since # {}
      BY <1>3, EndIs
    <3>2. LET i == job[s].item IN
          /\ i \in Item /\ MetaIs(i)
          /\ entry[Object(DataOf[i])].file = DataOf[i]
          /\ daemon # "down" => mem' = i
      BY <1>3, <2>2, <3>1, LoneEnd
    <3> QED
      BY <2>1, <2>2, <3>2 DEF Kept, MetaIs, Holds
  <2>3. CASE UNCHANGED <<base, since, over>>
    <3>1. s \in Active /\ Lonely(s) /\ Undisturbed(s)
      BY <1>3, <2>3 DEF Finishes, Lonely, LonelyInv
    <3>2. job[s].at # "object" => Kept(job[s].item)
      BY <3>1 DEF Undisturbed, HistoryInv, TypeInv, JobOK, Kept, Active
    <3>3. mem' = mem \/ Kept(mem')
      BY <1>3, <3>2 DEF Finishes, Store, Rename, Offer, Fails
    <3>4. daemon' = "down" \/ (mem' = mem /\ daemon # "down") \/ Kept(mem')
      BY <2>1, <3>3
    <3> QED
      BY <1>1, <2>1, <2>3, <3>4
  <2> QED
    BY <1>3, <2>2, <2>3, EndIs
<1>4. ASSUME NEW s \in Setter, NEW i \in Item, Enters(s, i)
      PROVE  Kept(entry[Meta].file)' /\ (daemon' # "down" => Kept(mem)')
  <2>1. /\ UNCHANGED <<entry, daemon, mem, base>> /\ since \subseteq since' /\ ~over
    BY <1>4, Beginning
  <2> QED
    BY <1>1, <2>1
<1>5. CASE Start
  BY <1>1, <1>5 DEF Start, fileVars
<1>6. CASE Crash
  BY <1>1, <1>6 DEF Crash, fileVars
<1>7. CASE Announce \/ UserCopies \/ UNCHANGED vars
  <2>1. UNCHANGED <<entry, mem, base, over>> /\ since \subseteq since'
    BY <1>7 DEF Announce, UserCopies, vars, fileVars, history
  <2>2. (daemon' = "down") = (daemon = "down")
    BY <1>7 DEF Announce, UserCopies, vars
  <2> QED
    BY <1>1, <2>1, <2>2
<1> QED
  BY <1>2, <1>3, <1>4, <1>5, <1>6, <1>7, Steps

\* No set has run.
LEMMA InitLone == Init => LoneInv
<1> SUFFICES ASSUME Init PROVE LoneInv
  OBVIOUS
<1>1. Active = {}
  BY DEF Init, Active, NoJob
<1> QED
  BY <1>1 DEF Init, LoneInv, HistoryInv, LonelyInv, Lonely, DoneInv, Left, KeptInv

\* Every step keeps the invariant of lone sets.
LEMMA StepLone == TypeInv /\ LoneInv /\ [Next]_vars => LoneInv'
BY StepTypes, StepHistory, StepLonely, StepDone, StepLeft, StepKept DEF LoneInv

\* What is left of the last lone set, as the properties say it.
LEMMA KeptIsRead ==
  ASSUME Kept(mem)
  PROVE  FileGet = [data |-> DataOf[mem], name |-> NameOf[mem]] /\ FileGet # Nothing
<1>1. mem # None /\ DataOf[mem] \in Content /\ entry[Object(DataOf[mem])].file = DataOf[mem]
  BY FileBackendAssumption DEF Kept
<1>2. DataOf[mem] # Absent /\ DataOf[mem] # None
  BY <1>1, FileBackendAssumption DEF Absent
<1>3. FileGet = [data |-> DataOf[mem], name |-> NameOf[mem]]
  BY <1>1, <1>2 DEF FileGet
<1>4. [data |-> DataOf[mem], name |-> NameOf[mem]].data # Nothing.data
  BY <1>2 DEF Nothing
<1> QED
  BY <1>3, <1>4

\* What a lone set has achieved at its end is what the property says.
LEMMA LoneSetLeft == TypeInv /\ LoneInv => LoneSetHolds
<1>0. TypeInv /\ base # None => ExtOf[base] \in Ext
  BY FileBackendAssumption DEF TypeInv, TypeOK
<1> SUFFICES ASSUME TypeInv, LoneInv, base # None, since = {}
             PROVE  /\ MetaIs(base) /\ CurrentIs(base) /\ DroppedIs(base)
                    /\ daemon = "up" => Get = [data |-> DataOf[base], name |-> NameOf[base]]
  BY <1>0 DEF LoneSetHolds, MetaIs, CurrentIs, DroppedIs, Own, NoOther, NoOtherDrop, OwnDrop, Holds
<1>1. /\ MetaIs(base) /\ CurrentIs(base) /\ DroppedIs(base) /\ ~over
      /\ daemon # "down" => mem = base
      /\ native => sys = DataOf[base]
  BY DEF LoneInv, Left
<1>2. ASSUME daemon = "up" PROVE Get = [data |-> DataOf[base], name |-> NameOf[base]]
  <2>1. mem = base /\ Kept(mem)
    BY <1>1, <1>2 DEF LoneInv, KeptInv
  <2>2. FileGet = [data |-> DataOf[mem], name |-> NameOf[mem]] /\ FileGet # Nothing
    BY <2>1, KeptIsRead
  <2> QED
    BY <1>1, <2>1, <2>2 DEF Get
<1> QED
  BY <1>1, <1>2

\* What a stopped set leaves is read as one clip.
LEMMA OneClipKept == LoneInv => CrashKeepsOneClip
<1> SUFFICES ASSUME LoneInv, base # None, ~over, daemon # "down"
             PROVE  /\ mem \in {base} \cup since
                    /\ FileGet = [data |-> DataOf[mem], name |-> NameOf[mem]]
  BY DEF CrashKeepsOneClip
<1>1. Kept(mem)
  BY DEF LoneInv, KeptInv
<1> QED
  BY <1>1, KeptIsRead DEF Kept

\* A set that nothing overlaps leaves the directory as it says, whatever was in
\* it before: torn files, temporary files and files of other clips included, but
\* for old files that it could not list or remove.
THEOREM LoneSetsHold == Spec => []LoneSetHolds
BY InitTypes, StepTypes, InitLone, StepLone, LoneSetLeft, PTL DEF Spec

\* Wherever a crash or a failure stops one set after another, a daemon reads one
\* whole clip, the last that was set alone or one of those since.
THEOREM OneClipIsKept == Spec => []CrashKeepsOneClip
BY InitTypes, StepTypes, InitLone, StepLone, OneClipKept, PTL DEF Spec
=============================================================================
