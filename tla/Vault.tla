------------------------------- MODULE Vault -------------------------------
(***************************************************************************)
(* What the secure storage enclave promises to the VMs: a store of files   *)
(* that are written once.  A call to write one ends, by returning or       *)
(* because the power fails, with the file as it was, empty, or holding     *)
(* what the caller gave (or, when the card is full, the beginning of it);  *)
(* no other file changes, and a file that holds something never does.      *)
(* All VMs share the files: sse.c keeps none of them from a name that      *)
(* means the file of another, so the store does not promise it.            *)
(***************************************************************************)
EXTENDS SequencesExt

CONSTANTS Files,      \* the files that the names VMs may give mean
          Contents,   \* what a VM may write: sequences of bytes
          Absent      \* of a file that does not exist

Empty == <<>>
None  == [file |-> <<>>, data |-> <<>>, fresh |-> FALSE]

VARIABLES files,      \* Absent, Empty or the content of each file
          busy        \* the write in progress; fresh if the file was absent

vars == <<files, busy>>

Init == busy = None /\ files \in [Files -> {Absent}]

Begin(f, data) ==
  /\ busy = None
  /\ busy' = [file |-> f, data |-> data, fresh |-> files[f] = Absent]
  /\ UNCHANGED files

Create ==
  /\ busy.fresh /\ files[busy.file] = Absent
  /\ files' = [files EXCEPT ![busy.file] = Empty]
  /\ UNCHANGED busy

Store ==
  /\ busy.fresh /\ files[busy.file] = Empty
  /\ \E data \in Prefixes(busy.data) : files' = [files EXCEPT ![busy.file] = data]
  /\ UNCHANGED busy

End == busy # None /\ busy' = None /\ UNCHANGED files

Next ==
  \/ \E f \in Files, data \in Contents : Begin(f, data)
  \/ Create
  \/ Store
  \/ End

Spec == Init /\ [][Next]_vars
=============================================================================
