----------------------------- MODULE SaveStream -----------------------------
(***************************************************************************)
(* The program src/savestream.cpp and the container whose callbacks it is: *)
(* a data file and a file of meta information per signal.  The program     *)
(* keeps what it writes to under the signal number, the files are named    *)
(* after the signal reference.                                             *)
(*                                                                         *)
(* The server answers each subscription with a number that is not in use,  *)
(* announces it by "subscribe", and takes it back with "unsubscribe", for  *)
(* example when the signal is not available for a time.  Opening a file    *)
(* truncates it.  A stream that was open before goes on writing behind a   *)
(* hole, which holds no line.                                              *)
(***************************************************************************)
EXTENDS Integers

CONSTANTS
  Numbers,     \* signal numbers
  References,  \* signal references
  MaxLines     \* bound: lines written by one entry

VARIABLES
  streamed,             \* the server: what it sends under a number
  m_subscribedsignals,  \* the container: m_signalReference by number
  signalFiles,          \* the program: entries by number
  lines,                \* lines in the data file of each reference
  note                  \* history: the meta information written last, and
                        \* the line that comes next in the data file

vars == <<streamed, m_subscribedsignals, signalFiles, lines, note>>

None == [reference |-> "none"]
Unnamed == [reference |-> ""]
Entries == [reference : References, dataFileNextLine : 1 .. MaxLines]

Init ==
  /\ streamed = [n \in Numbers |-> None]
  /\ m_subscribedsignals = [n \in Numbers |-> None]
  /\ signalFiles = [n \in Numbers |-> None]
  /\ lines = [r \in References |-> 0]
  /\ note = [line |-> 1, next |-> 1]

-----------------------------------------------------------------------------
(* addMetaInfo(): the entry's count of lines precedes the information.     *)
AddMetaInfo(entry, count) ==
  note' = [line |-> entry.dataFileNextLine, next |-> count + 1]

(* A new entry opens both files; it is destroyed, which closes them, when  *)
(* the number already has one: insert() does not replace.                  *)
SignalInfo(r) == [reference |-> r, dataFileNextLine |-> 1]

Insert(n, entry) ==
  signalFiles' = IF signalFiles[n] = None
                 THEN [signalFiles EXCEPT ![n] = entry] ELSE signalFiles

Subscribe(n, r) ==
  /\ streamed[n] = None /\ \A m \in Numbers : streamed[m].reference # r
  /\ streamed' = [streamed EXCEPT ![n] = [reference |-> r]]
  /\ m_subscribedsignals' =
       [m_subscribedsignals EXCEPT ![n] = [reference |-> r]]
  /\ AddMetaInfo(SignalInfo(r), 0)
  /\ Insert(n, SignalInfo(r))
  /\ lines' = [lines EXCEPT ![r] = 0]

(* "time", "data" and "signalRate". *)
Meta(n) ==
  /\ streamed[n] # None
  /\ m_subscribedsignals' =
       [m_subscribedsignals EXCEPT ![n] = IF @ = None THEN Unnamed ELSE @]
  /\ IF signalFiles[n] = None THEN UNCHANGED note
     ELSE AddMetaInfo(signalFiles[n], lines[signalFiles[n].reference])
  /\ UNCHANGED <<streamed, signalFiles, lines>>

(* The container erases the signal and does not call the callback, so that *)
(* its branch for "unsubscribe" is never taken.                            *)
Unsubscribe(n) ==
  /\ streamed[n] # None
  /\ streamed' = [streamed EXCEPT ![n] = None]
  /\ m_subscribedsignals' = [m_subscribedsignals EXCEPT ![n] = None]
  /\ UNCHANGED <<signalFiles, lines, note>>

(* addData(): one line per block. *)
Data(n) ==
  /\ streamed[n] # None
  /\ IF m_subscribedsignals[n] = None \/ signalFiles[n] = None
     THEN UNCHANGED <<signalFiles, lines>>
     ELSE /\ signalFiles[n].dataFileNextLine < MaxLines
          /\ signalFiles' = [signalFiles EXCEPT ![n].dataFileNextLine = @ + 1]
          /\ lines' = [lines EXCEPT ![signalFiles[n].reference] = @ + 1]
  /\ UNCHANGED <<streamed, m_subscribedsignals, note>>

Next ==
  \E n \in Numbers :
    \/ \E r \in References : Subscribe(n, r)
    \/ Meta(n) \/ Unsubscribe(n) \/ Data(n)

Spec == Init /\ [][Next]_vars

-----------------------------------------------------------------------------
(* Property                                                                *)

(* savestream.cpp on addMetaInfo(): "meta inforamtion is written into      *)
(* file. It is preceded by the next line in the corresponding data file.": *)
(* the number in front of meta information tells where in the data file it *)
(* takes effect.                                                           *)
NextLine == note.line = note.next
=============================================================================
