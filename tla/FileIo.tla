------------------------------- MODULE FileIo --------------------------------
(***************************************************************************)
(* The file extension of extensions/stx_fileio.c on one descriptor: a      *)
(* forked reader process takes commands from one pipe and answers on       *)
(* another, so that reading the disk does not stop the other threads.      *)
(* Threads share an OS process (`onCpu` executes; it gives the processor   *)
(* up in st_write and st_read), the reader is a process of its own.        *)
(*                                                                         *)
(* Pipes and file are counted in words: a size is one word, a section of   *)
(* the file some words, which are named by their place in the file.  A     *)
(* command and an answer are no longer than PIPE_BUF, so they are written  *)
(* whole.  Callers ask for no more than FILEREADER_MAX_READ and do not     *)
(* close a descriptor another thread is reading.                           *)
(***************************************************************************)
EXTENDS Integers, Sequences, FiniteSetsExt

CONSTANTS
  User,         \* threads that read the file
  NoUser,       \* none of them runs
  FileLen,      \* words in the file
  MaxRead,      \* FILEREADER_MAX_READ, in words
  Requests,     \* offsets and lengths the callers ask for
  PipeSize,     \* words the answer pipe holds
  ControlSize,  \* commands the control pipe holds
  StartOffsets  \* where the file may be positioned when it is first read

ASSUME FileAssumption ==
  /\ NoUser \notin User
  /\ FileLen \in Nat /\ MaxRead \in Nat \ {0}
  /\ Requests \subseteq (0..FileLen) \X (1..MaxRead)
  /\ PipeSize \in Nat /\ PipeSize > MaxRead
  /\ ControlSize \in Nat \ {0}
  /\ StartOffsets \subseteq 0..FileLen

VARIABLES
  onCpu,      \* the thread that executes
  at,         \* where each call is
  request,    \* its offset and length, whether the command was sent, and ret
  got,        \* words it has read
  fdOpen,     \* the descriptor is open
  hasReader,  \* its private data is a fileio_data_t
  control,    \* commands in the control pipe
  out,        \* words in the answer pipe
  child,      \* where the reader process is
  pos,        \* its variable pos
  filePos,    \* offset of the open file, which both processes share
  section,    \* what it has read and not yet written
  shift       \* history: how far the file is ahead of the reader's count

readerVars == <<child, pos, filePos, section>>
userVars   == <<at, request, got>>
fileVars == <<onCpu, userVars, fdOpen, hasReader, control, out, readerVars,
              shift>>

Size(n) == [kind |-> "size", value |-> n]
Data(k) == [kind |-> "data", value |-> k]
End     == [offset |-> 0, n |-> 0]
(* The local variables of a call that begins.  `alone` is history: nothing *)
(* of an earlier call was under way when it began, and no other call has   *)
(* begun since.                                                            *)
Asked(o, n, alone) ==
  [offset |-> o, n |-> n, sent |-> FALSE, ret |-> -1, alone |-> alone]
NoRequest == Asked(0, 0, FALSE)

FileInit ==
  /\ onCpu = NoUser
  /\ at = [u \in User |-> "idle"]
  /\ request = [u \in User |-> NoRequest]
  /\ got = [u \in User |-> <<>>]
  /\ fdOpen = FALSE /\ hasReader = FALSE
  /\ control = <<>> /\ out = <<>>
  /\ child = "none" /\ pos = 0 /\ filePos = 0 /\ section = <<>>
  /\ shift = 0

-----------------------------------------------------------------------------
Active      == {u \in User : at[u] # "idle"}
To(u, p)    == at' = [at EXCEPT ![u] = p]
Words(s, k) == SubSeq(s, 1, Min({k, Len(s)}))
Rest(s, k)  == SubSeq(s, Min({k, Len(s)}) + 1, Len(s))

(* No call is active, and no command and no answer is on its way.          *)
Undisturbed ==
  /\ Active = {} /\ out = <<>>
  /\ \/ child = "gone"
     \/ control = <<>> /\ section = <<>> /\ child # "size"

ResumeUser(u) ==
  /\ onCpu = NoUser /\ onCpu' = u
  /\ UNCHANGED <<userVars, fdOpen, hasReader, control, out, readerVars, shift>>

BlockUser(u) ==
  /\ onCpu = u /\ at[u] \in {"idle", "command", "size", "data", "ending"}
  /\ onCpu' = NoUser
  /\ UNCHANGED <<userVars, fdOpen, hasReader, control, out, readerVars, shift>>

(* The program opens the file.                                             *)
OpenFile(u) ==
  /\ onCpu = u /\ at[u] = "idle" /\ ~fdOpen
  /\ fdOpen' = TRUE
  /\ filePos' \in StartOffsets
  /\ UNCHANGED <<onCpu, userVars, hasReader, control, out, child, pos, section,
                 shift>>

(* stx_file_read with get_fileio_data: the first call forks the reader,    *)
(* which takes the file to be at its beginning.  A failing fork changes    *)
(* nothing.                                                                *)
FileRead(u, o, n) ==
  /\ onCpu = u /\ at[u] = "idle" /\ fdOpen
  /\ hasReader' = TRUE
  /\ IF hasReader THEN UNCHANGED <<child, pos>>
                  ELSE child' = "command" /\ pos' = 0
  /\ shift' = IF hasReader THEN shift ELSE filePos
  /\ request' = [v \in User |-> IF v = u THEN Asked(o, n, Undisturbed)
                               ELSE [request[v] EXCEPT !.alone = FALSE]]
  /\ To(u, "command")
  /\ UNCHANGED <<onCpu, got, fdOpen, control, out, filePos, section>>

(* st_write of the command.  Nobody looks at its result: interrupted, or   *)
(* without a reader, the call goes on to wait for an answer all the same.  *)
WriteCommand(u) ==
  /\ onCpu = u /\ at[u] = "command"
  /\ child # "gone" /\ Len(control) < ControlSize
  /\ control' = Append(control, [offset |-> request[u].offset,
                                 n |-> request[u].n])
  /\ request' = [request EXCEPT ![u].sent = TRUE]
  /\ To(u, "size")
  /\ UNCHANGED <<onCpu, got, fdOpen, hasReader, out, readerVars, shift>>

WriteFails(u) ==
  /\ onCpu = u /\ at[u] = "command"
  /\ To(u, "size")
  /\ UNCHANGED <<onCpu, request, got, fdOpen, hasReader, control, out,
                 readerVars, shift>>

(* st_read of the size.  A word of data in its place is taken for one and  *)
(* may be any number.                                                      *)
SizeRead(w) == IF w.kind = "size" THEN {w.value} ELSE 0..(MaxRead + 1)

ReadSize(u) ==
  /\ onCpu = u /\ at[u] = "size" /\ out # <<>>
  /\ out' = Tail(out)
  /\ \E ret \in SizeRead(Head(out)) :
       /\ request' = [request EXCEPT ![u].ret = ret]
       /\ To(u, IF ret \in 1..request[u].n THEN "data" ELSE "done")
  /\ UNCHANGED <<onCpu, got, fdOpen, hasReader, control, readerVars, shift>>

(* st_read of the data: what is there, up to the size.                     *)
ReadData(u) ==
  /\ onCpu = u /\ at[u] = "data" /\ out # <<>>
  /\ got' = [got EXCEPT ![u] = Words(out, request[u].ret)]
  /\ out' = Rest(out, request[u].ret)
  /\ To(u, "done")
  /\ UNCHANGED <<onCpu, request, fdOpen, hasReader, control, readerVars, shift>>

(* The call ends early: the reader is gone and its pipe is empty, or       *)
(* another thread interrupts the call.                                     *)
EndOfPipe(u) ==
  /\ onCpu = u /\ at[u] \in {"size", "data"} /\ out = <<>> /\ child = "gone"
  /\ To(u, "done")
  /\ UNCHANGED <<onCpu, request, got, fdOpen, hasReader, control, out,
                 readerVars, shift>>

ReadInterrupted(u) ==
  /\ onCpu = u /\ at[u] \in {"size", "data"}
  /\ To(u, "done")
  /\ UNCHANGED <<onCpu, request, got, fdOpen, hasReader, control, out, readerVars,
                 shift>>

ReadReturns(u) ==
  /\ onCpu = u /\ at[u] = "done"
  /\ request' = [request EXCEPT ![u] = NoRequest]
  /\ got' = [got EXCEPT ![u] = <<>>]
  /\ To(u, "idle")
  /\ UNCHANGED <<onCpu, fdOpen, hasReader, control, out, readerVars, shift>>

-----------------------------------------------------------------------------
(* st_netfd_close with fileio_data_destructor: a command of length zero,   *)
(* then waitpid, which stops the whole process until the reader is gone.   *)
CloseFile(u) ==
  /\ onCpu = u /\ Active = {} /\ fdOpen
  /\ IF hasReader
     THEN /\ To(u, "ending") /\ UNCHANGED fdOpen
          /\ request' = [request EXCEPT ![u] = Asked(0, 0, Undisturbed)]
     ELSE fdOpen' = FALSE /\ UNCHANGED <<at, request>>
  /\ UNCHANGED <<onCpu, got, hasReader, control, out, readerVars, shift>>

(* A mutant of WriteEnd: nothing is written.                               *)
EndUnsent(u) ==
  /\ onCpu = u /\ at[u] = "ending"
  /\ child # "gone" /\ Len(control) < ControlSize
  /\ request' = [request EXCEPT ![u].sent = TRUE]
  /\ To(u, "waitpid")
  /\ UNCHANGED <<onCpu, got, fdOpen, hasReader, control, out, readerVars, shift>>

WriteEnd(u) ==
  /\ onCpu = u /\ at[u] = "ending"
  /\ child # "gone" /\ Len(control) < ControlSize
  /\ control' = Append(control, End)
  /\ request' = [request EXCEPT ![u].sent = TRUE]
  /\ To(u, "waitpid")
  /\ UNCHANGED <<onCpu, got, fdOpen, hasReader, out, readerVars, shift>>

(* Interrupted, or the reader is gone already.                             *)
EndFails(u) ==
  /\ onCpu = u /\ at[u] = "ending"
  /\ To(u, "waitpid")
  /\ UNCHANGED <<onCpu, request, got, fdOpen, hasReader, control, out, readerVars,
                 shift>>

WaitpidReturns(u) ==
  /\ onCpu = u /\ at[u] = "waitpid" /\ child = "gone"
  /\ fdOpen' = FALSE /\ hasReader' = FALSE
  /\ control' = <<>> /\ out' = <<>>
  /\ child' = "none" /\ pos' = 0 /\ filePos' = 0 /\ section' = <<>>
  /\ shift' = 0
  /\ request' = [request EXCEPT ![u] = NoRequest]
  /\ To(u, "idle")
  /\ UNCHANGED <<onCpu, got>>

-----------------------------------------------------------------------------
(* The reader process.  It seeks only when its own count says that the     *)
(* file is not yet where the command wants it.                             *)
SeekTo(o) == IF pos # o THEN o ELSE filePos

(* The count after a read.  Mutant: the read is not counted.               *)
PosNotAdvanced(o, nb) == o
PosAfter(o, nb) == o + nb

ChildReads ==
  /\ child = "command" /\ control # <<>>
  /\ Head(control).n > 0
  /\ LET o  == Head(control).offset
         nb == Min({Head(control).n, FileLen - SeekTo(o)})
     IN  /\ section' = [i \in 1..nb |-> Data(SeekTo(o) + i - 1)]
         /\ filePos' = SeekTo(o) + nb
         /\ pos' = PosAfter(o, nb)
         /\ shift' = IF pos # o THEN 0 ELSE shift
  /\ control' = Tail(control)
  /\ child' = "size"
  /\ UNCHANGED <<onCpu, userVars, fdOpen, hasReader, out>>

ChildWritesSize ==
  /\ child = "size" /\ Len(out) < PipeSize
  /\ out' = Append(out, Size(Len(section)))
  /\ child' = "data"
  /\ UNCHANGED <<onCpu, userVars, fdOpen, hasReader, control, pos, filePos,
                 section, shift>>

ChildWritesData ==
  /\ child = "data" /\ Len(out) + Len(section) <= PipeSize
  /\ out' = out \o section
  /\ section' = <<>>
  /\ child' = "command"
  /\ UNCHANGED <<onCpu, userVars, fdOpen, hasReader, control, pos, filePos,
                 shift>>

ChildEnds ==
  /\ child = "command" /\ control # <<>> /\ Head(control).n <= 0
  /\ child' = "gone"
  /\ control' = Tail(control)
  /\ UNCHANGED <<onCpu, userVars, fdOpen, hasReader, out, pos, filePos, section,
                 shift>>

(* lseek or read fails, or the process is killed.                          *)
ChildFails ==
  /\ child \in {"command", "size", "data"}
  /\ child' = "gone"
  /\ UNCHANGED <<onCpu, userVars, fdOpen, hasReader, control, out, pos, filePos,
                 section, shift>>

ChildStep == ChildReads \/ ChildWritesSize \/ ChildWritesData \/ ChildEnds

UserStep(u) ==
  \/ ResumeUser(u) \/ BlockUser(u) \/ OpenFile(u)
  \/ \E r \in Requests : FileRead(u, r[1], r[2])
  \/ WriteCommand(u) \/ WriteFails(u) \/ ReadSize(u) \/ ReadData(u)
  \/ EndOfPipe(u) \/ ReadInterrupted(u) \/ ReadReturns(u)
  \/ CloseFile(u) \/ WriteEnd(u) \/ EndFails(u) \/ WaitpidReturns(u)

FileNext == (\E u \in User : UserStep(u)) \/ ChildStep \/ ChildFails

FileSpec == FileInit /\ [][FileNext]_fileVars

-----------------------------------------------------------------------------
(* A call that is alone gets the section it asked for, all of it that the  *)
(* file has: the two processes, the two pipes and the remembered position  *)
(* stay in step, and calls that were cut short or overlapped do no harm    *)
(* once their answers are out of the pipe.  One error is carried along: if *)
(* the file was not at its beginning when the reader was forked, every     *)
(* section lies that much further on until the reader seeks for the first  *)
(* time, and none does after that.                                         *)
OwnSection ==
  \A u \in User : at[u] = "done" /\ got[u] # <<>> /\ request[u].alone =>
    LET first == request[u].offset + shift
    IN  got[u] = [i \in 1..Min({request[u].n, FileLen - first}) |->
                   Data(first + i - 1)]

(* The reader process can do nothing more: it waits for a command that     *)
(* will not come, or for room in a pipe that nobody empties.               *)
ReaderStuck ==
  \/ child = "command" /\ control = <<>>
  \/ child = "size" /\ Len(out) >= PipeSize
  \/ child = "data" /\ Len(out) + Len(section) > PipeSize

(* waitpid in the destructor stops every thread, so it must end.  It does, *)
(* however calls were cut short or overlapped before, when the end command *)
(* went out and no answer was left under way: such answers may fill the    *)
(* pipe.                                                                   *)
WaitpidEnds ==
  \A u \in User : at[u] = "waitpid" /\ request[u].sent /\ request[u].alone =>
    ~ReaderStuck
=============================================================================
