------------------------------ MODULE TaskStore ------------------------------
(***************************************************************************)
(* How tasks.json is read and written, src/tasks/taskStore.mjs.  Every     *)
(* operation on a task loads the whole table, changes one entry and saves  *)
(* the whole table with writeJsonAtomic: write tasks.json.tmp, then rename *)
(* it.  The name of the temporary file is the same for every save.         *)
(*                                                                         *)
(* The file system is a directory of two names and a set of files: a file  *)
(* stays what it is while its name changes, and a descriptor keeps writing *)
(* to the file it opened.  overlap says whether an operation may start     *)
(* before another has finished, which nothing in the code prevents: the    *)
(* relay handlers and the agent loop share the process, and the command    *)
(* line tools run beside it.                                               *)
(***************************************************************************)
EXTENDS Naturals, FiniteSets

CONSTANTS Tasks,
          Ops,          \* operations that can be in progress
          Files,        \* identities of files
          NoFile,
          MaxUpdates    \* bound: updates started on one task

ASSUME TaskStoreAssumption ==
    /\ Tasks # {}
    /\ NoFile \notin Files
    /\ MaxUpdates \in Nat

VARIABLES
    overlap,   \* may operations overlap, fixed at the start
    name,      \* the directory: the file called "tasks" and the one called "tmp"
    content,   \* what each file holds
    at,        \* where each operation is
    task,      \* the task it updates
    copy,      \* the table it has loaded and changed
    fd,        \* the file it writes
    begun      \* updates started on each task

progress == <<at, task, copy, fd>>
storeVars == <<overlap, name, content, progress, begun>>

Table == [Tasks -> 0..MaxUpdates]
Empty == [t \in Tasks |-> 0]
Whole(tab) == [kind |-> "whole", table |-> tab]
(* Not a JSON text: truncated and not yet written, or the text of one table *)
(* followed by the end of a longer one.                                     *)
Torn == [kind |-> "torn", table |-> Empty]
Contents == [kind : {"whole", "torn"}, table : Table]

StoreInit ==
    /\ overlap \in BOOLEAN
    /\ name = [tasks |-> NoFile, tmp |-> NoFile]
    /\ content = [f \in Files |-> Torn]
    /\ at = [o \in Ops |-> "idle"]
    /\ task = [o \in Ops |-> CHOOSE t \in Tasks : TRUE]
    /\ copy = [o \in Ops |-> Empty]
    /\ fd = [o \in Ops |-> NoFile]
    /\ begun = [t \in Tasks |-> 0]

-----------------------------------------------------------------------------
(* loadTasks: a missing or unreadable file counts as an empty table.        *)
Readable == name.tasks # NoFile => content[name.tasks].kind = "whole"
Loaded == IF name.tasks = NoFile THEN Empty ELSE content[name.tasks].table

Busy == {o \in Ops : at[o] # "idle"}

(* publishTask, acceptTask, markRunning, completeTask, failTask and the     *)
(* relay handlers: load, then change one entry.                             *)
Load(o) ==
    /\ at[o] = "idle"
    /\ overlap \/ Busy = {}
    /\ \E t \in Tasks :
         /\ begun[t] < MaxUpdates
         /\ begun' = [begun EXCEPT ![t] = @ + 1]
         /\ task' = [task EXCEPT ![o] = t]
         /\ copy' = [copy EXCEPT ![o] = [Loaded EXCEPT ![t] = @ + 1]]
    /\ at' = [at EXCEPT ![o] = "open"]
    /\ UNCHANGED <<overlap, name, content, fd>>

(* fs.writeFile opens the temporary file and truncates it ...               *)
Target_InPlace == IF name.tasks # NoFile THEN "tasks" ELSE "tmp"     \* mutant
Target == "tmp"

Unused == {f \in Files : f \notin {name.tasks, name.tmp} /\ \A o \in Ops : fd[o] # f}

Open(o) ==
    /\ at[o] = "open"
    /\ \E f \in IF name[Target] = NoFile THEN Unused ELSE {name[Target]} :
         /\ name' = [name EXCEPT ![Target] = f]
         /\ content' = [content EXCEPT ![f] = Torn]
         /\ fd' = [fd EXCEPT ![o] = f]
    /\ at' = [at EXCEPT ![o] = "write"]
    /\ UNCHANGED <<overlap, task, copy, begun>>

(* ... and writes it from the start.  A file that already holds another     *)
(* text keeps the end of it, unless the new text is longer.                 *)
Written_Change(o) == {Whole([Empty EXCEPT ![task[o]] = copy[o][task[o]]])}  \* mutant
Written(o) == {Whole(copy[o])} \cup
              (IF content[fd[o]] \in {Torn, Whole(copy[o])} THEN {} ELSE {Torn})

Write(o) ==
    /\ at[o] = "write"
    /\ \E c \in Written(o) : content' = [content EXCEPT ![fd[o]] = c]
    /\ fd' = [fd EXCEPT ![o] = NoFile]
    /\ at' = [at EXCEPT ![o] = "rename"]
    /\ UNCHANGED <<overlap, name, task, copy, begun>>

(* fs.rename replaces tasks.json; without a temporary file it fails, and    *)
(* the operation rejects.                                                   *)
Done(o) == /\ at' = [at EXCEPT ![o] = "idle"]
           /\ copy' = [copy EXCEPT ![o] = Empty]

Rename(o) ==
    /\ at[o] = "rename"
    /\ name.tmp # NoFile
    /\ name' = [tasks |-> name.tmp, tmp |-> NoFile]
    /\ Done(o)
    /\ UNCHANGED <<overlap, content, task, fd, begun>>

RenameFails(o) ==
    /\ at[o] = "rename"
    /\ name.tmp = NoFile
    /\ Done(o)
    /\ UNCHANGED <<overlap, name, content, task, fd, begun>>

(* The process stops and starts again: the file system stays.               *)
StoreRestart ==
    /\ Busy # {}
    /\ at' = [o \in Ops |-> "idle"]
    /\ copy' = [o \in Ops |-> Empty]
    /\ fd' = [o \in Ops |-> NoFile]
    /\ UNCHANGED <<overlap, name, content, task, begun>>

StoreNext ==
    \/ \E o \in Ops : Load(o) \/ Open(o) \/ Write(o) \/ Rename(o) \/ RenameFails(o)
    \/ StoreRestart

StoreSpec == StoreInit /\ [][StoreNext]_storeVars

-----------------------------------------------------------------------------
(* Every variable has its type. *)
StoreTypes ==
    /\ overlap \in BOOLEAN
    /\ name \in [{"tasks", "tmp"} -> Files \cup {NoFile}]
    /\ content \in [Files -> Contents]
    /\ at \in [Ops -> {"idle", "open", "write", "rename"}]
    /\ task \in [Ops -> Tasks]
    /\ copy \in [Ops -> Table]
    /\ fd \in [Ops -> Files \cup {NoFile}]
    /\ begun \in Table

(* While operations do not overlap, tasks.json can be read at any moment,   *)
(* also after a crash in the middle of a save and with the temporary file   *)
(* such a crash leaves behind.                                              *)
ReadableWhenSerial == ~overlap => Readable

(* writeJsonAtomic: the file can be read at any moment.                     *)
AlwaysReadable == Readable

(* While operations do not overlap, load, change and save of the file is    *)
(* one atomic update of a table, and a crash either loses the update or     *)
(* keeps it: the store implements TaskTable.                                *)
Saved == IF overlap THEN Empty ELSE Loaded
Abstract == INSTANCE TaskTable WITH table <- Saved
ImplementsTaskTable == Abstract!Spec
=============================================================================
