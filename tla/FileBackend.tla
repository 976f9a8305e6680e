---------------------------- MODULE FileBackend ----------------------------
(***************************************************************************)
(* The clipboard directory (src/clipboard/file.rs), which the tasks of a   *)
(* daemon write at once, each call of set in eight places one after the    *)
(* other, and which `zsync copy' writes from a process of its own when no  *)
(* daemon runs.  With a native backend (clipboard/native.rs) the system    *)
(* clipboard comes last.  A daemon may be killed at any step.  Any step    *)
(* may fail: what set propagates with ? ends it there, what it ignores     *)
(* (read_dir, remove_file, remove_dir_all) leaves old files and set goes   *)
(* on.                                                                     *)
(*                                                                         *)
(* A file has two directory entries, its own and that of its temporary     *)
(* file.  Which file a writer has open is given by the entry that leads to *)
(* it: a rename or a removal by someone else moves it.  Losing power, when *)
(* a rename may reach the disk before the data, is left out.               *)
(***************************************************************************)
EXTENDS Naturals, FiniteSets

CONSTANTS
  Task,       \* tasks of the daemon that call set
  Cli,        \* processes of zsync copy
  Item,       \* what is set
  Content, Ext, Name,   \* file contents, extensions, file names
  DataOf, ExtOf, NameOf,   \* of each item; NameOf may be NoName
  NoName, None, User,
  Backends,   \* "file", "native": which backends a run has
  MaxChanges  \* bound: calls of set and changes of the system clipboard

ASSUME FileBackendAssumption ==
  /\ DataOf \in [Item -> Content] /\ ExtOf \in [Item -> Ext]
  /\ NameOf \in [Item -> Name \cup {NoName}] /\ NoName \notin Name
  /\ Task \cap Cli = {} /\ "json" \notin Ext
  /\ None \notin Item \cup Content /\ User \notin Item
  /\ Item \cap Content = {} /\ MaxChanges \in Nat
  /\ (Item \cup Content) \cap {"absent", "empty", "mixed"} = {}

VARIABLES
  native,     \* whether the backend is a native one
  entry,      \* the files: what is in each, and in its temporary file
  dropdir,    \* whether clips/drop exists
  sys,        \* the system clipboard
  daemon,     \* "down", "opening" (not announced by a pid file yet), "up"
  mem,        \* FileBackend::cur of the daemon
  job,        \* the calls of set
  spent,      \* bound: calls and changes so far
  base, since, over, alone, twice, littered   \* history, see Lone sets below

fileVars == <<entry, dropdir>>
history == <<base, since, over, alone, twice, littered>>
vars == <<native, fileVars, sys, daemon, mem, job, spent, history>>

Setter == Task \cup Cli
Object(d) == <<"object", d>>
Stable(x) == <<"current", x>>
Meta == <<"current", "json">>
Dropped(n) == <<"drop", n>>
File == {Object(d) : d \in Content} \cup {Stable(x) : x \in Ext} \cup {Meta}
          \cup {Dropped(n) : n \in Name}
Absent == "absent"   \* no such entry
Empty == "empty"     \* truncated, and nothing written yet
Mixed == "mixed"     \* parts of two writes
What == Content \cup Item \cup {Absent, Empty, Mixed}
Way == {"tmp", "file"}

\* A call of set: its place, the step of write_atomic there, the item, the
\* entry that leads to the file it has open, the entries it has still to sweep.
Writing == {"object", "current", "drop", "meta"}
Job == [at : Writing \cup {"none", "list", "sweep", "undrop", "rmdir", "mkdir", "store", "offer"},
        io : {"open", "write", "rename"}, item : Item \cup {None},
        hand : Way \cup {"none", "gone"}, todo : SUBSET (File \X Way)]
NoJob == [at |-> "none", io |-> "open", item |-> None, hand |-> "none", todo |-> {}]
Active == {s \in Setter : job[s].at # "none"}

-----------------------------------------------------------------------------
(* Lone sets: base is the item of the last set that ended alone, since what  *)
(* has been set, or copied by the user, after that, over whether two sets    *)
(* overlapped since, alone the sets nothing has overlapped yet, twice the    *)
(* contents whose object was written by two sets at once, littered whether   *)
(* a lone set ignored, since the last set began, an error that left an old   *)
(* file.                                                                     *)

Begins(s, i) ==
  /\ since' = since \cup {i}
  /\ over' = (over \/ Active # {})
  /\ alone' = IF Active # {} \/ (s \in Cli /\ daemon # "down") THEN {} ELSE {s}
  /\ littered' = FALSE
  /\ UNCHANGED <<base, twice>>

\* A set ends, well or not.
Ends(s, well) ==
  /\ job' = [job EXCEPT ![s] = NoJob]
  /\ alone' = alone \ {s}
  /\ IF well /\ s \in alone
       THEN base' = job[s].item /\ since' = {} /\ over' = FALSE
       ELSE UNCHANGED <<base, since, over>>
  /\ UNCHANGED <<twice, littered>>

\* An old file is left, or not.
Leaves(s, error) ==
  /\ littered' = (littered \/ (error /\ s \in alone))
  /\ UNCHANGED <<base, since, over, alone, twice>>

-----------------------------------------------------------------------------
(* write_atomic *)

Target(j) == CASE j.at = "object"  -> Object(DataOf[j.item])
               [] j.at = "current" -> Stable(ExtOf[j.item])
               [] j.at = "drop"    -> Dropped(NameOf[j.item])
               [] j.at = "meta"    -> Meta
Payload(j) == IF j.at = "meta" THEN j.item ELSE DataOf[j.item]
On(j, f) == j.at \in Writing /\ Target(j) = f

\* The next place of set.
After(j) == [object |-> "current", current |-> "list", drop |-> "meta", meta |-> "store"][j.at]

\* The files that writers have open when the entries move as to says.
Moved(jobs, f, to) ==
  [s \in Setter |-> IF On(jobs[s], f) /\ jobs[s].hand \in Way
                      THEN [jobs[s] EXCEPT !.hand = to[@]] ELSE jobs[s]]

\* mutant: no temporary file
OpenInPlace(s) ==
  LET f == Target(job[s]) IN
  /\ job[s].at \in Writing /\ job[s].io = "open"
  /\ entry' = [entry EXCEPT ![f].file = Empty]
  /\ job' = [job EXCEPT ![s].io = "write", ![s].hand = "file"]
  /\ UNCHANGED <<native, dropdir, sys, daemon, mem, spent, history>>

\* fs::write begins: the temporary file is created or truncated.
Open(s) ==
  LET f == Target(job[s]) IN
  /\ job[s].at \in Writing /\ job[s].io = "open"
  /\ job[s].at = "drop" => dropdir
  /\ entry' = [entry EXCEPT ![f].tmp = Empty]
  /\ job' = [job EXCEPT ![s].io = "write", ![s].hand = "tmp"]
  /\ twice' = IF job[s].at = "object" /\ \E r \in Setter \ {s} : On(job[r], f) /\ job[r].io # "open"
                THEN twice \cup {DataOf[job[s].item]} ELSE twice
  /\ UNCHANGED <<native, dropdir, sys, daemon, mem, spent, base, since, over, alone, littered>>

\* What a file holds after a write over it.
Overlay(old, new) == IF old \in {Empty, new} THEN {new} ELSE {new, Mixed}

Write(s) ==
  LET f == Target(job[s]) IN
  /\ job[s].at \in Writing /\ job[s].io = "write"
  /\ IF job[s].hand = "gone" THEN UNCHANGED entry
       ELSE \E x \in Overlay(entry[f][job[s].hand], Payload(job[s])) :
              entry' = [entry EXCEPT ![f][job[s].hand] = x]
  /\ job' = [job EXCEPT ![s].io = "rename", ![s].hand = "none"]
  /\ UNCHANGED <<native, dropdir, sys, daemon, mem, spent, history>>

Rename(s) ==
  LET f == Target(job[s]) IN
  /\ job[s].at \in Writing /\ job[s].io = "rename"
  /\ UNCHANGED <<native, dropdir, sys, daemon, mem, spent>>
  /\ IF entry[f].tmp = Absent
       THEN UNCHANGED entry /\ Ends(s, FALSE)
       ELSE /\ entry' = [entry EXCEPT ![f] = [tmp |-> Absent, file |-> @.tmp]]
            /\ job' = [Moved(job, f, [tmp |-> "file", file |-> "gone"])
                         EXCEPT ![s].at = After(job[s]), ![s].io = "open"]
            /\ UNCHANGED history

-----------------------------------------------------------------------------
(* The rest of set *)

Enters(s, i) ==
  /\ job[s].at = "none" /\ spent < MaxChanges
  /\ job' = [job EXCEPT ![s].at = "object", ![s].item = i]
  /\ spent' = spent + 1
  /\ Begins(s, i)
  /\ UNCHANGED <<native, fileVars, sys, daemon, mem>>

\* A session, the watcher or an IPC handler of the daemon sets the clipboard.
TaskSets(s, i) == s \in Task /\ daemon = "up" /\ Enters(s, i)

\* put_clipboard of zsync copy, which finds no daemon running.  Its items have
\* no name.
CliSets(s, i) == s \in Cli /\ daemon # "up" /\ NameOf[i] = NoName /\ Enters(s, i)

\* mutant: the sweep takes what a set left unfinished only
Unfinished(i) == {p \in File \X {"tmp"} : p[1][1] = "current" /\ entry[p[1]].tmp # Absent}

\* mutant: the sweep spares its own file only
AllButOwn(i) == {p \in File \X Way : /\ p[1][1] = "current" /\ entry[p[1]][p[2]] # Absent
                                     /\ p # <<Stable(ExtOf[i]), "file">>}

\* read_dir: every entry that begins with current, but its own and current.json.
Others(i) == {p \in File \X Way : /\ p[1][1] = "current" /\ entry[p[1]][p[2]] # Absent
                                  /\ p \notin {<<Stable(ExtOf[i]), "file">>, <<Meta, "file">>}}

\* read_dir may fail, and entries.flatten() skips each entry it fails at.
List(s) ==
  /\ job[s].at = "list"
  /\ \E read \in SUBSET Others(job[s].item) :
       /\ job' = [job EXCEPT ![s].at = "sweep", ![s].todo = read]
       /\ Leaves(s, read # Others(job[s].item))
  /\ UNCHANGED <<native, fileVars, sys, daemon, mem, spent>>

SweepEnds(s) ==
  /\ job[s].at = "sweep" /\ job[s].todo = {}
  /\ job' = [job EXCEPT ![s].at = "undrop"]
  /\ UNCHANGED <<native, fileVars, sys, daemon, mem, spent, history>>

\* remove_file of one of them.
Sweep(s, p) ==
  /\ job[s].at = "sweep" /\ p \in job[s].todo
  /\ entry' = [entry EXCEPT ![p[1]][p[2]] = Absent]
  /\ job' = [Moved(job, p[1], [w \in Way |-> IF w = p[2] THEN "gone" ELSE w])
               EXCEPT ![s].todo = @ \ {p}]
  /\ UNCHANGED <<native, dropdir, sys, daemon, mem, spent, history>>

\* Its error is ignored.
Spares(s, p) ==
  /\ job[s].at = "sweep" /\ p \in job[s].todo
  /\ job' = [job EXCEPT ![s].todo = @ \ {p}]
  /\ Leaves(s, TRUE)
  /\ UNCHANGED <<native, fileVars, sys, daemon, mem, spent>>

\* The entries of clips/drop.
InDrop == {p \in File \X Way : p[1][1] = "drop" /\ entry[p[1]][p[2]] # Absent}

\* remove_dir_all: the files, all but those it has not come to when it fails,
\* and then the directory if it is still empty.  Its error is ignored.
Undrop(s) ==
  /\ job[s].at = "undrop"
  /\ \E gone \in SUBSET InDrop :
       /\ entry' = [f \in File |-> [w \in Way |-> IF <<f, w>> \in gone THEN Absent ELSE entry[f][w]]]
       /\ job' = [r \in Setter |->
                    IF r = s THEN [job[s] EXCEPT !.at = "rmdir"]
                    ELSE IF job[r].at = "drop" /\ <<Target(job[r]), job[r].hand>> \in gone
                      THEN [job[r] EXCEPT !.hand = "gone"]
                    ELSE job[r]]
       /\ Leaves(s, gone # InDrop)
  /\ UNCHANGED <<native, dropdir, sys, daemon, mem, spent>>

Rmdir(s) ==
  /\ job[s].at = "rmdir"
  /\ dropdir' \in {dropdir, dropdir /\ InDrop # {}}
  /\ job' = [job EXCEPT ![s].at = IF NameOf[job[s].item] = NoName THEN "meta" ELSE "mkdir"]
  /\ UNCHANGED <<native, entry, sys, daemon, mem, spent, history>>

Mkdir(s) ==
  /\ job[s].at = "mkdir"
  /\ dropdir' = TRUE
  /\ job' = [job EXCEPT ![s].at = "drop"]
  /\ UNCHANGED <<native, entry, sys, daemon, mem, spent, history>>

\* The lock, and in a native backend the system clipboard after it.  A process
\* of zsync copy has a FileBackend of its own, which ends with it.
Store(s) ==
  /\ job[s].at = "store"
  /\ mem' = IF s \in Task THEN job[s].item ELSE mem
  /\ IF native THEN job' = [job EXCEPT ![s].at = "offer"] /\ UNCHANGED history
               ELSE Ends(s, TRUE)
  /\ UNCHANGED <<native, fileVars, sys, daemon, spent>>

Offer(s) ==
  /\ job[s].at = "offer"
  /\ sys' = DataOf[job[s].item]
  /\ Ends(s, TRUE)
  /\ UNCHANGED <<native, fileVars, daemon, mem, spent>>

\* An error of a write, of create_dir_all or of the external program ends the
\* set there.  The end of a zsync copy ends it anywhere.
Fails(s) ==
  /\ s \in Active
  /\ s \in Cli \/ job[s].at \in Writing \cup {"mkdir", "offer"}
  /\ Ends(s, FALSE)
  /\ UNCHANGED <<native, fileVars, sys, daemon, mem, spent>>

-----------------------------------------------------------------------------
(* The daemon and the user *)

\* mutant: the file is taken for what it should be
Trusted(x) == IF x = Absent THEN None ELSE x

Parsed(x) == IF x \in Item THEN x ELSE None

\* FileBackend::open: what cannot be parsed counts as nothing.
Start ==
  /\ daemon = "down"
  /\ daemon' = "opening"
  /\ mem' = Parsed(entry[Meta].file)
  /\ alone' = {}
  /\ UNCHANGED <<native, fileVars, sys, job, spent, base, since, over, twice, littered>>

Announce ==
  /\ daemon = "opening"
  /\ daemon' = "up"
  /\ UNCHANGED <<native, fileVars, sys, mem, job, spent, history>>

\* The daemon ends, with all its tasks wherever they are.
Crash ==
  /\ daemon # "down"
  /\ daemon' = "down" /\ mem' = None
  /\ job' = [s \in Setter |-> IF s \in Task THEN NoJob ELSE job[s]]
  /\ alone' = alone \ Task
  /\ UNCHANGED <<native, fileVars, sys, spent, base, since, over, twice, littered>>

\* The user copies with another program, or that program ends and takes the
\* system clipboard with it.
UserCopies ==
  /\ native /\ spent < MaxChanges
  /\ \E d \in Content \cup {None} : d # sys /\ sys' = d
  /\ since' = since \cup {User} /\ spent' = spent + 1
  /\ UNCHANGED <<native, fileVars, daemon, mem, job, base, over, alone, twice, littered>>

Init ==
  /\ native \in {b = "native" : b \in Backends}
  /\ entry = [f \in File |-> [tmp |-> Absent, file |-> Absent]] /\ dropdir = FALSE
  /\ sys = None /\ daemon = "down" /\ mem = None
  /\ job = [s \in Setter |-> NoJob] /\ spent = 0
  /\ base = None /\ since = {} /\ over = FALSE /\ alone = {} /\ twice = {}
  /\ littered = FALSE

Next ==
  \/ \E s \in Setter : \/ \E i \in Item : TaskSets(s, i) \/ CliSets(s, i)
                       \/ Open(s) \/ Write(s) \/ Rename(s) \/ List(s) \/ SweepEnds(s) \/ Undrop(s)
                       \/ \E p \in File \X Way : Sweep(s, p) \/ Spares(s, p)
                       \/ Rmdir(s) \/ Mkdir(s) \/ Store(s) \/ Offer(s) \/ Fails(s)
  \/ Start \/ Announce \/ Crash \/ UserCopies

Spec == Init /\ [][Next]_vars

-----------------------------------------------------------------------------
(* get *)

Nothing == [data |-> None, name |-> NoName]

FileGet ==
  IF mem = None \/ entry[Object(DataOf[mem])].file = Absent THEN Nothing
  ELSE [data |-> entry[Object(DataOf[mem])].file, name |-> NameOf[mem]]

\* Native::get: the system clipboard, with the name of the stored clip if that
\* is the same content.
Get ==
  IF ~native \/ sys = None THEN FileGet
  ELSE [data |-> sys, name |-> IF FileGet # Nothing /\ DataOf[mem] = sys THEN NameOf[mem] ELSE NoName]

-----------------------------------------------------------------------------
(* Properties *)

TypeOK ==
  /\ native \in BOOLEAN /\ dropdir \in BOOLEAN /\ over \in BOOLEAN /\ littered \in BOOLEAN
  /\ entry \in [File -> [tmp : What, file : What]]
  /\ sys \in Content \cup {None} /\ mem \in Item \cup {None} /\ base \in Item \cup {None}
  /\ daemon \in {"down", "opening", "up"}
  /\ job \in [Setter -> Job] /\ spent \in 0..MaxChanges
  /\ since \subseteq Item \cup {User} /\ alone \subseteq Setter /\ twice \subseteq Content

\* An object is whole or not there, whoever crashes, fails or writes another
\* clip meanwhile, unless two sets of one content were at its object at once.
ObjectsAreWhole ==
  \A d \in Content \ twice : entry[Object(d)].file \in {Absent, d}

\* A set that nothing overlapped leaves the directory as it says, whatever
\* crashes and races left there before: its metadata, its current file and its
\* dropped file, whole, and get returns it.  No other current and no other
\* dropped file is left, unless it ignored an error of read_dir, remove_file or
\* remove_dir_all.
LoneSetHolds ==
  base # None /\ since = {} =>
    /\ entry[Meta] = [tmp |-> Absent, file |-> base]
    /\ \A x \in Ext : x = ExtOf[base] =>
         entry[Stable(x)] = [tmp |-> Absent, file |-> DataOf[base]]
    /\ \A n \in Name : n = NameOf[base] =>
         entry[Dropped(n)] = [tmp |-> Absent, file |-> DataOf[base]]
    /\ ~littered =>
         /\ \A x \in Ext \ {ExtOf[base]} : entry[Stable(x)] = [tmp |-> Absent, file |-> Absent]
         /\ \A n \in Name \ {NameOf[base]} : entry[Dropped(n)] = [tmp |-> Absent, file |-> Absent]
    /\ daemon = "up" => Get = [data |-> DataOf[base], name |-> NameOf[base]]

\* After a set that nothing overlapped, and whatever place later sets end at,
\* crashes and restarts included, a daemon reads that clip or one set since,
\* and the whole of it, unless two of them overlapped.
CrashKeepsOneClip ==
  base # None /\ ~over /\ daemon # "down" =>
    /\ mem \in {base} \cup since
    /\ FileGet = [data |-> DataOf[mem], name |-> NameOf[mem]]
=============================================================================
