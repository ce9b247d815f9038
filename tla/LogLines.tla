-------------------------------- MODULE LogLines -------------------------------
(***************************************************************************)
(* The text that MultiThreadedCoreProfiler (src/core/                      *)
(* multithreaded_profiling.hpp) writes to m_out: Profiler has a drained    *)
(* queue appear in the output in one step, this module has each line       *)
(* written piece by piece, as the functions of src/core/profiling.hpp do.  *)
(*                                                                         *)
(* A line is two insertions, which stand for its many.  An insertion reads *)
(* the put position of the stream, stores its piece there and moves the    *)
(* position behind it: two steps, because the stream has no lock.  The     *)
(* buffer is never flushed, and callers find a place in the queue: for     *)
(* these see Profiler.                                                     *)
(***************************************************************************)
EXTENDS Integers, Sequences

CONSTANTS
  Client,          (* threads that call the profiler                       *)
  Logger,          (* m_loggingThread                                      *)
  NoThread,
  QUEUE_SIZE,      (* the template parameter, not 0                        *)
  MaxLines         (* bound: lines written                                 *)

Writer == Client \cup {Logger}
Line == 1 .. MaxLines
Pieces == 2

VARIABLES
  mutex,           (* the owner of m_mtx                                   *)
  tasksToLog,      (* number of jobs in m_tasksToLog                       *)
  line,            (* the line a thread is writing, 0 if none              *)
  stored,          (* its pieces stored so far                             *)
  place,           (* where it stores the next one, 0 before it has read   *)
                   (* putPosition                                          *)
  buffer,          (* of the stream: pieces <<line, number>>               *)
  putPosition,     (* the text is the buffer up to here                    *)
  begun            (* history: lines begun                                 *)

textVars == <<line, stored, place, buffer, putPosition, begun>>
logVars  == <<mutex, tasksToLog, textVars>>

LogInit ==
  /\ mutex = NoThread
  /\ tasksToLog = 0
  /\ line = [t \in Writer |-> 0]
  /\ stored = [t \in Writer |-> 0]
  /\ place = [t \in Writer |-> 0]
  /\ buffer = <<>>
  /\ putPosition = 0
  /\ begun = 0

Writing == {t \in Writer : line[t] # 0}

(* One of the functions of profiling.hpp is called by t.                   *)
BeginLine(t) ==
  /\ begun < MaxLines
  /\ begun' = begun + 1
  /\ line' = [line EXCEPT ![t] = begun + 1]
  /\ UNCHANGED <<stored, place, buffer, putPosition>>

ReadPutPosition(t) ==
  /\ t \in Writing /\ stored[t] < Pieces /\ place[t] = 0
  /\ place' = [place EXCEPT ![t] = putPosition + 1]
  /\ UNCHANGED <<mutex, tasksToLog, line, stored, buffer, putPosition, begun>>

(* The put position is set behind the piece, whatever other threads have   *)
(* stored meanwhile.                                                       *)
StorePiece(t) ==
  LET piece == <<line[t], stored[t] + 1>>
  IN  /\ t \in Writing /\ place[t] # 0
      /\ buffer' = IF place[t] <= Len(buffer) THEN [buffer EXCEPT ![place[t]] = piece]
                   ELSE Append(buffer, piece)
      /\ putPosition' = place[t]
      /\ stored' = [stored EXCEPT ![t] = @ + 1]
      /\ place' = [place EXCEPT ![t] = 0]
      /\ UNCHANGED <<mutex, tasksToLog, line, begun>>

(* A lock_guard or unique_lock of t goes out of scope; logRun() has none.  *)
Release(t) == mutex' = IF mutex = t THEN NoThread ELSE mutex

(* The line is complete: the function returns, and so does the method that *)
(* called it.  The logging thread goes on with the lock.                   *)
EndLine(t) ==
  /\ t \in Writing /\ stored[t] = Pieces
  /\ line' = [line EXCEPT ![t] = 0]
  /\ stored' = [stored EXCEPT ![t] = 0]
  /\ IF t = Logger THEN UNCHANGED mutex ELSE Release(t)
  /\ UNCHANGED <<tasksToLog, place, buffer, putPosition, begun>>

(* logJob(), lines 45-59, when there is a place in the queue.              *)
LogJob(c) ==
  /\ c \notin Writing
  /\ mutex = NoThread
  /\ tasksToLog < QUEUE_SIZE
  /\ tasksToLog' = tasksToLog + 1
  /\ UNCHANGED <<mutex, textVars>>

(* logWave() and logCustomDiff(), under the lock.                          *)
LogLocked(c) ==
  /\ c \notin Writing
  /\ mutex = NoThread
  /\ mutex' = c
  /\ BeginLine(c)
  /\ UNCHANGED tasksToLog

(* logRun(), which does not lock.                                          *)
LogRun(c) ==
  /\ c \notin Writing
  /\ BeginLine(c)
  /\ UNCHANGED <<mutex, tasksToLog>>

(* The inner loop of processQueue(), with the lock from its first job to   *)
(* its last.                                                               *)
DrainJob ==
  /\ Logger \notin Writing
  /\ mutex \in {NoThread, Logger} /\ tasksToLog > 0
  /\ mutex' = Logger
  /\ tasksToLog' = tasksToLog - 1
  /\ BeginLine(Logger)

DrainEnds ==
  /\ Logger \notin Writing
  /\ mutex = Logger /\ tasksToLog = 0
  /\ Release(Logger)
  /\ UNCHANGED <<tasksToLog, textVars>>

LogNext ==
  \/ \E c \in Client : LogJob(c) \/ LogLocked(c) \/ LogRun(c)
  \/ DrainJob \/ DrainEnds
  \/ \E t \in Writer : ReadPutPosition(t) \/ StorePiece(t) \/ EndLine(t)

LogSpec == LogInit /\ [][LogNext]_logVars

--------------------------------------------------------------------------------

Complete == 1 .. begun \ {line[t] : t \in Writer}

(* All pieces of line k are in the text, one after the other.              *)
Whole(k) ==
  \E i \in 0 .. putPosition - Pieces : \A j \in 1 .. Pieces : buffer[i + j] = <<k, j>>

(* parse_file() of scripts/process_profiling_logs.py, "Read and parse the  *)
(* input file into W (wave) and J (job) arrays." (line 178), takes every   *)
(* line of the file for one whole record.  It fails, because logRun()      *)
(* writes without the lock (line 66) while the logging thread still writes *)
(* the last jobs of the run.                                               *)
LinesAreWhole == \A k \in Complete : Whole(k)

================================================================================
