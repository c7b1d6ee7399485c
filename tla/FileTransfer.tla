---------------------------- MODULE FileTransfer ----------------------------
(***************************************************************************)
(* What the file transfer of tp1 promises, whatever the error recovery     *)
(* protocol: upload.py and download.py copy one file of N chunks, the      *)
(* destination file only ever grows by the next chunks of the source, and  *)
(* a client that ends normally leaves a complete copy behind.  Nothing     *)
(* here knows of packets, windows, acknowledgements or threads.            *)
(***************************************************************************)
EXTENDS Integers, Sequences

CONSTANT N              \* chunks of PAYLOAD_SIZE bytes in the source file, a
                        \* natural number (SessionAssumption)

VARIABLES created,      \* the destination file exists
          file,         \* the chunks written to it, each named by its position
          outcome       \* what the user of the client sees

ftVars == <<created, file, outcome>>

\* The first k chunks of the source file.
Prefix(k) == [i \in 1..k |-> i]

FTInit == /\ created \in BOOLEAN
          /\ file = <<>>
          /\ outcome = "pending"

\* The destination file is created, empty.
Create == /\ ~created
          /\ created' = TRUE
          /\ UNCHANGED <<file, outcome>>

\* One or more of the next chunks are written, in order.  A file whose client
\* has ended normally is never touched again.
Deliver == /\ created
           /\ outcome # "success"
           /\ \E k \in (Len(file) + 1)..N : file' = Prefix(k)
           /\ UNCHANGED <<created, outcome>>

\* The client ends normally: the copy exists and is complete.
Succeed == /\ outcome = "pending"
           /\ created
           /\ file = Prefix(N)
           /\ outcome' = "success"
           /\ UNCHANGED <<created, file>>

\* The client ends by an exception.
Fail == /\ outcome = "pending"
        /\ outcome' = "failed"
        /\ UNCHANGED <<created, file>>

FTNext == Create \/ Deliver \/ Succeed \/ Fail

FTSpec == FTInit /\ [][FTNext]_ftVars
=============================================================================
