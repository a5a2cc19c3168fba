-------------------------------- MODULE File --------------------------------
(***************************************************************************)
(* The table of files and directories (file.c), used by C code that        *)
(* interrupts can suspend: the kernel's and that of the handlers of Trap.  *)
(*                                                                         *)
(* An entry is [type, father, size, name]; time, base, pos, f_op and f_req *)
(* are only stored.  A name is a sequence of characters.  A call of        *)
(* fs_add_dir or fs_add_file has two steps: what it does with interrupts   *)
(* off, and the `file_id-1' it returns after it has restored them.         *)
(***************************************************************************)
EXTENDS Trap, Integers, FiniteSets

CONSTANTS
  MAX_FILE,   \* size of file_list
  Names       \* names given to files and directories in this run

ASSUME FileAssumption == MAX_FILE \in Nat \ {0} /\ Names \subseteq Seq(STRING)

None == [own |-> -1, on |-> FALSE]

VARIABLES
  file_list, file_id,   \* file_list[0 .. file_id - 1] is in use
  calls,                \* the call each context is in: the index it wrote, IF before it
  answer                \* the last call that ended, and what it returned

table   == <<file_list, file_id>>
files   == <<table, calls, answer>>
allVars == <<vars, files>>

FileInit ==
  /\ Init
  /\ file_list = <<>> /\ file_id = 0
  /\ calls = [d \in 0 .. MaxDepth |-> None] /\ answer = [call |-> None, got |-> -1]

(* strcmp and strncmp, as far as their callers look at the answer: the     *)
(* strings agree in the first n characters, or up to the end of both.      *)
Chr(s, j)       == IF j <= Len(s) THEN s[j] ELSE "NUL"
Same(s1, s2, n) == \A j \in 1 .. n : Chr(s1, j) = Chr(s2, j)
strcmp(s1, s2)  == ~Same(s1, s2, Len(s1) + 1)

(* Mutant of strncmp: the terminator is compared as well.                  *)
strncmp_end(s1, s2, n) == ~Same(s1, s2, n + 1)

strncmp(s1, s2, n) == ~Same(s1, s2, n)

(* Mutant of Entered: the father is counted before the entry is cleared.   *)
Entered_first(list, id, e) ==
  LET counted == [list EXCEPT ![e.father].size = @ + 1]
  IN [d \in 0 .. id |-> IF d = id THEN e
                        ELSE IF e.father = id THEN list[d] ELSE counted[d]]

(* The new entry is written, then its father's size counted up: the father *)
(* of the first one is itself.                                             *)
Entered(list, id, e) ==
  LET written == [d \in 0 .. id |-> IF d = id THEN e ELSE list[d]]
  IN [written EXCEPT ![e.father].size = @ + 1]

Dir(father, name) == [type |-> "F_T_DIR", father |-> father, size |-> 0, name |-> name]
File(father, size, name) == [type |-> "F_T_FILE", father |-> father, size |-> size, name |-> name]

(* init_fs, before interrupts are enabled.                                 *)
init_fs ==
  /\ ~Ready /\ limit # 0 /\ file_id = 0
  /\ file_list' =
       LET l1 == Entered(<<>>, 0, Dir(0, <<"*">>))
           l2 == Entered(l1, 1, Dir(0, <<"/">>))
           l3 == Entered(l2, 2, Dir(1, <<"d", "e", "v", "/">>))
       IN Entered(l3, 3, Dir(1, <<"s", "y", "s", "/">>))
  /\ file_id' = 4
  /\ UNCHANGED <<vars, calls, answer>>

-----------------------------------------------------------------------------
Calling == calls[Depth] # None

(* Mutant of Restored: interrupts are enabled, whatever they were.         *)
Restored_sti(saved) == TRUE

Restored(saved) == saved

(* fs_add_dir and fs_add_file, from _local_irq_save to _local_irq_restore: *)
(* with a full table nothing is done and -1 returned.                      *)
fs_add(e) ==
  /\ InC /\ file_id # 0 /\ ~Calling
  /\ IF file_id < MAX_FILE
     THEN /\ file_list' = Entered(file_list, file_id, e) /\ file_id' = file_id + 1
          /\ calls' = [calls EXCEPT ![Depth] = [own |-> file_id, on |-> iflag]] /\ UNCHANGED answer
     ELSE /\ answer' = [call |-> None, got |-> -1] /\ UNCHANGED <<table, calls>>
  /\ iflag' = Restored(iflag)
  /\ UNCHANGED <<tabs, stack, acts, pic, resumed>>

fs_add_dir(father, name)  == fs_add(Dir(father, name))
fs_add_file(father, name) == fs_add(File(father, 0, name))

(* return file_id-1.                                                       *)
fs_added ==
  /\ InC /\ Calling
  /\ answer' = [call |-> calls[Depth], got |-> file_id - 1]
  /\ calls' = [calls EXCEPT ![Depth] = None]
  /\ UNCHANGED <<vars, table>>

(* The lookups: the first entry from 1 on that matches, or -1.             *)
FirstMatch(found) ==
  IF found = {} THEN -1 ELSE CHOOSE i \in found : \A j \in found : i <= j

Siblings(type, father) ==
  {i \in 1 .. file_id - 1 : file_list[i].type = type /\ file_list[i].father = father}

fs_match_dir(father, path) ==
  FirstMatch({i \in Siblings("F_T_DIR", father) :
                ~strncmp(path, file_list[i].name, Len(file_list[i].name))})

fs_match_file(father, name) ==
  FirstMatch({i \in Siblings("F_T_FILE", father) : ~strcmp(name, file_list[i].name)})

Dirs == {i \in DOMAIN file_list : file_list[i].type = "F_T_DIR"}

FileNext ==
  \/ Machine /\ UNCHANGED files
  \/ Body /\ ~Calling /\ UNCHANGED files
  \/ init_fs
  \/ \E father \in Dirs \ {0}, name \in Names :
       fs_add_dir(father, Append(name, "/")) \/ fs_add_file(father, name)
  \/ fs_added

FileSpec == FileInit /\ [][FileNext]_allVars
-----------------------------------------------------------------------------
(***************************************************************************)
(* Properties.                                                             *)
(***************************************************************************)
(* fs_add_dir and fs_add_file return the index of the entry they wrote     *)
(* when they were called with interrupts off, and never an older one;      *)
(* called with interrupts on, a handler that adds an entry between         *)
(* _local_irq_restore and the return changes the answer (file.c:33-34).    *)
AnswerRight ==
  /\ answer.got >= answer.call.own /\ answer.got < file_id
  /\ ~answer.call.on => answer.got = answer.call.own

(* The size of a directory is the number of entries that name it as their  *)
(* father (file.c:30), whatever calls nest: the first entry counts itself. *)
SizesRight == \A d \in Dirs :
  file_list[d].size = Cardinality({i \in DOMAIN file_list : file_list[i].father = d})

(* Every entry is found by its path (file.c:81-110): a directory by a path *)
(* that begins with its name, whatever follows, and a file by its name,    *)
(* unless an older sibling of its kind has the same name.                  *)
Shadowed(i) == \E j \in 1 .. i - 1 :
  /\ file_list[j].type = file_list[i].type /\ file_list[j].father = file_list[i].father
  /\ file_list[j].name = file_list[i].name

PathsResolve == \A i \in DOMAIN file_list \ {0} :
  LET e == file_list[i] IN
  ~Shadowed(i) => IF e.type = "F_T_DIR"
                  THEN \A rest \in {<<>>} \cup Names : fs_match_dir(e.father, e.name \o rest) = i
                  ELSE fs_match_file(e.father, e.name) = i
=============================================================================
