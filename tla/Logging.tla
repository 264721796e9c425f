------------------------------- MODULE Logging -------------------------------
(***************************************************************************)
(* The logger of log/Logging.cc with the stream and the fixed buffer of    *)
(* log/LogStream.h: every LOG_ macro makes a Logger on the caller's stack, *)
(* which formats the time, takes what is streamed into it and writes the   *)
(* line in its destructor; a FATAL line is flushed and ends the process.   *)
(*                                                                         *)
(* Threads.  The stream is the caller's own.  Shared are g_logLevel, the   *)
(* stdout stream behind g_output and g_flush, and t_time, which formatTime *)
(* writes and then reads without a lock.  The length of what is in t_time  *)
(* is certain only while no thread is inside snprintf: that is all the     *)
(* model keeps of it.                                                      *)
(*                                                                         *)
(* Data.  Of a piece of text the length is kept, and of a number its       *)
(* digits: the buffer drops a piece as a whole, by its length alone.       *)
(***************************************************************************)
EXTENDS Integers, Sequences

CONSTANTS
  Threads,         \* the threads that log
  Macros,          \* the LOG_ macros they use
  LogLevels,       \* arguments of setLogLevel
  Lengths,         \* lengths of strings that are streamed
  Ints,            \* int values that are streamed
  Errnos,          \* values of errno at LOG_SYSERR and LOG_SYSFATAL
  BaseLen, LineNo, FuncLen, ErrorLen,
                   \* length of basename_, line_, lengths of __func__ and of
                   \* what strerror_r returns
  kSmallBuffer,    \* the size of data_
  MaxLines,        \* bound: lines logged
  MaxPieces        \* bound: pieces streamed into a line

kMaxNumericSize == 32

Level == [TRACE |-> 0, DEBUG |-> 1, INFO |-> 2, WARN |-> 3, ERROR |-> 4,
          SYSERR |-> 4, FATAL |-> 5, SYSFATAL |-> 5]
Guarded == {"TRACE", "DEBUG", "INFO"}      \* macros that begin with an if
WithFunc == {"TRACE", "DEBUG"}             \* macros that pass __func__
WithErrno == {"SYSERR", "SYSFATAL"}        \* macros that pass errno

------------------------------------------------------------------------------
(* convert: the digits of an int, as a sequence of 0 .. 9 behind a Minus.  *)

INT_MAX == 2147483647
IntRange == -INT_MAX - 1 .. INT_MAX

Minus == 10
Digits == 0 .. Minus

digits == <<9, 8, 7, 6, 5, 4, 3, 2, 1, 0, 1, 2, 3, 4, 5, 6, 7, 8, 9>>
zero(lsd) == digits[10 + lsd]

(* i / 10 and i % 10, which round towards zero. *)
Quotient(i) == IF i >= 0 \/ i % 10 = 0 THEN i \div 10 ELSE i \div 10 + 1
Remainder(i) == i - 10 * Quotient(i)

(* The digits of i, the last one last. *)
DigitsOf[i \in Int] ==
  LET d == <<zero(Remainder(i))>>
  IN  IF Quotient(i) = 0 THEN d ELSE DigitsOf[Quotient(i)] \o d

(* Fault in convert: the loop stops when i is no longer positive. *)
convertPositive(v) ==
  IF v < 0 THEN <<Minus, zero(Remainder(v))>> ELSE DigitsOf[v]

convert(v) == IF v < 0 THEN <<Minus>> \o DigitsOf[v] ELSE DigitsOf[v]

ASSUME LoggingAssumption ==
  /\ Macros \subseteq DOMAIN Level
  /\ LogLevels \subseteq Int /\ Lengths \subseteq Nat
  /\ Ints \subseteq IntRange /\ Errnos \subseteq IntRange /\ LineNo \in IntRange
  /\ BaseLen \in Nat /\ FuncLen \in Nat /\ ErrorLen \in Nat
  /\ kSmallBuffer \in Nat \ {0}
  /\ MaxLines \in Nat /\ MaxPieces \in Nat

------------------------------------------------------------------------------
VARIABLES
  pc,          \* where each thread is, see Points
  call,        \* the macro it is in, and the errno given to it
  stream,      \* its stream_: the pieces in data_, and cur_ - data_
  pieces,      \* how many pieces it has streamed into the line
  g_logLevel,  \* g_logLevel
  begun,       \* how many lines were begun
  outputs,     \* lines given to g_output, oldest first
  flushed,     \* how many of them have left the process
  ended        \* "running", "assert" (the assertion in T) or "abort"

vars == <<pc, call, stream, pieces, g_logLevel, begun, outputs, flushed, ended>>

(***************************************************************************)
(* "idle": outside the logger; "format": in the snprintf of formatTime;    *)
(* "stamp": behind it; "body": the line is being streamed; "flush",        *)
(* "abort": in ~Logger of a FATAL line, before g_flush and before abort.   *)
(***************************************************************************)
Points == {"idle", "format", "stamp", "body", "flush", "abort"}

Empty == [text |-> <<>>, size |-> 0]

Text(what, n) == [what |-> what, len |-> n, digits |-> <<>>, value |-> 0]
Number(what, v) ==
  [what |-> what, len |-> Len(convert(v)), digits |-> convert(v), value |-> v]

Init ==
  /\ pc = [t \in Threads |-> "idle"]
  /\ call = [t \in Threads |-> [macro |-> "INFO", errno |-> 0]]
  /\ stream = [t \in Threads |-> Empty]
  /\ pieces = [t \in Threads |-> 0]
  /\ g_logLevel = Level["TRACE"]
  /\ begun = 0 /\ outputs = <<>> /\ flushed = 0
  /\ ended = "running"

avail(b) == kSmallBuffer - b.size

(* The piece p behind what the buffer b holds. *)
Behind(b, p) == [text |-> Append(b.text, p), size |-> b.size + p.len]

(* Fault in append: the last byte is not kept free. *)
appendFull(b, p) == IF avail(b) >= p.len THEN Behind(b, p) ELSE b

(* FixedBuffer::append: all of the piece or nothing. *)
append(b, p) == IF avail(b) > p.len THEN Behind(b, p) ELSE b

(* Fault in formatInteger: room is asked for twice the longest number. *)
formatIntegerGreedy(b, p) ==
  IF avail(b) >= 2 * kMaxNumericSize THEN Behind(b, p) ELSE b

(* LogStream::formatInteger *)
formatInteger(b, p) == IF avail(b) >= kMaxNumericSize THEN Behind(b, p) ELSE b

------------------------------------------------------------------------------
(* The constructor of Impl calls formatTime, whose snprintf writes t_time. *)
Begin(t, m, e) ==
  /\ pc[t] = "idle" /\ begun < MaxLines
  /\ m \in Guarded => g_logLevel <= Level[m]
  /\ m \notin WithErrno => e = 0
  /\ pc' = [pc EXCEPT ![t] = "format"]
  /\ call' = [call EXCEPT ![t] = [macro |-> m, errno |-> e]]
  /\ stream' = [stream EXCEPT ![t] = Empty]
  /\ pieces' = [pieces EXCEPT ![t] = 0]
  /\ begun' = begun + 1
  /\ UNCHANGED <<g_logLevel, outputs, flushed, ended>>

EndFormat(t) ==
  /\ pc[t] = "format"
  /\ pc' = [pc EXCEPT ![t] = "stamp"]
  /\ UNCHANGED <<call, stream, pieces, g_logLevel, begun, outputs, flushed, ended>>

(* The time, the level, and what savedErrno and __func__ add. *)
Header(c) ==
  LET b1 == append(Empty, Text("time", 17))
      b2 == append(b1, Text("microseconds", 9))
      b3 == append(b2, Text("level", 6))
      b4 == append(b3, Text("error", ErrorLen))
      b5 == append(b4, Text("open", 8))
      b6 == formatInteger(b5, Number("errno", c.errno))
      b7 == append(b6, Text("close", 2))
      b8 == append(b3, Text("func", FuncLen))
      b9 == append(b8, Text("space", 1))
  IN  IF c.errno # 0 THEN b7 ELSE IF c.macro \in WithFunc THEN b9 ELSE b3

(* T(t_time,17) asserts strlen(t_time) == 17; what strlen finds while some *)
(* thread writes t_time is anything.                                       *)
Stamp(t) ==
  /\ pc[t] = "stamp"
  /\ \/ /\ stream' = [stream EXCEPT ![t] = Header(call[t])]
        /\ pc' = [pc EXCEPT ![t] = "body"]
        /\ UNCHANGED ended
     \/ /\ \E u \in Threads : pc[u] = "format"
        /\ ended' = "assert"
        /\ UNCHANGED <<pc, stream>>
  /\ UNCHANGED <<call, pieces, g_logLevel, begun, outputs, flushed>>

(* stream() << a string of length n, or an int, in the statement that logs *)
Put(t, b) ==
  /\ pc[t] = "body" /\ pieces[t] < MaxPieces
  /\ stream' = [stream EXCEPT ![t] = b]
  /\ pieces' = [pieces EXCEPT ![t] = @ + 1]
  /\ UNCHANGED <<pc, call, g_logLevel, begun, outputs, flushed, ended>>

PutString(t, n) == Put(t, append(stream[t], Text("string", n)))
PutInt(t, v) == Put(t, formatInteger(stream[t], Number("int", v)))

(* Fault in Finished: the line ends in two bytes, CR and LF. *)
FinishedCrLf(b) ==
  LET b1 == append(b, Text("dash", 3))
      b2 == append(b1, Text("basename", BaseLen))
      b3 == append(b2, Text("colon", 1))
      b4 == formatInteger(b3, Number("line", LineNo))
  IN  append(b4, Text("newline", 2))

(* Impl::finish *)
Finished(b) ==
  LET b1 == append(b, Text("dash", 3))
      b2 == append(b1, Text("basename", BaseLen))
      b3 == append(b2, Text("colon", 1))
      b4 == formatInteger(b3, Number("line", LineNo))
  IN  append(b4, Text("newline", 1))

IsFatal(t) == Level[call[t].macro] = Level["FATAL"]

(* The line of t, as ~Logger gives it to g_output. *)
LineOf(t) == [by |-> t, body |-> stream[t].size, buf |-> Finished(stream[t])]

(* Fault in Destroy: the line of a FATAL message is not flushed. *)
DestroyUnflushed(t) ==
  /\ pc[t] = "body"
  /\ outputs' = Append(outputs, LineOf(t))
  /\ pc' = [pc EXCEPT ![t] = IF IsFatal(t) THEN "abort" ELSE "idle"]
  /\ stream' = [stream EXCEPT ![t] = Empty]
  /\ UNCHANGED <<call, pieces, g_logLevel, begun, flushed, ended>>

(* ~Logger: finish(), and the line goes to g_output in one call. *)
Destroy(t) ==
  /\ pc[t] = "body"
  /\ outputs' = Append(outputs, LineOf(t))
  /\ pc' = [pc EXCEPT ![t] = IF IsFatal(t) THEN "flush" ELSE "idle"]
  /\ stream' = [stream EXCEPT ![t] = Empty]
  /\ UNCHANGED <<call, pieces, g_logLevel, begun, flushed, ended>>

(* g_flush() *)
Flush(t) ==
  /\ pc[t] = "flush"
  /\ flushed' = Len(outputs)
  /\ pc' = [pc EXCEPT ![t] = "abort"]
  /\ UNCHANGED <<call, stream, pieces, g_logLevel, begun, outputs, ended>>

(* abort() *)
Abort(t) ==
  /\ pc[t] = "abort"
  /\ ended' = "abort"
  /\ UNCHANGED <<pc, call, stream, pieces, g_logLevel, begun, outputs, flushed>>

(* stdio writes its buffer out whenever it sees fit. *)
StdioWrites ==
  /\ \E n \in flushed + 1 .. Len(outputs) : flushed' = n
  /\ UNCHANGED <<pc, call, stream, pieces, g_logLevel, begun, outputs, ended>>

setLogLevel(l) ==
  /\ g_logLevel' = l
  /\ UNCHANGED <<pc, call, stream, pieces, begun, outputs, flushed, ended>>

LogStep(t) ==
  \/ \E m \in Macros, e \in Errnos \cup {0} : Begin(t, m, e)
  \/ EndFormat(t) \/ Stamp(t)
  \/ \E n \in Lengths : PutString(t, n)
  \/ \E v \in Ints : PutInt(t, v)
  \/ Destroy(t) \/ Flush(t) \/ Abort(t)

Next ==
  /\ ended = "running"
  /\ \/ \E t \in Threads : LogStep(t)
     \/ StdioWrites
     \/ \E l \in LogLevels : setLogLevel(l)

Spec == Init /\ [][Next]_vars

------------------------------------------------------------------------------
(* Properties.                                                             *)

Whats == {"time", "microseconds", "level", "error", "open", "errno", "close",
          "func", "space", "string", "int", "dash", "basename", "colon", "line",
          "newline"}

Piece == [what : Whats, len : Nat, digits : Seq(Digits), value : Int]

(* A stream's buffer: cur_ never comes to stand behind data_, so that the  *)
(* NUL convert writes behind a number is inside it too.                    *)
Buffers == [text : Seq(Piece), size : 0 .. kSmallBuffer - 1]

(* Types, and the bounds of each buffer. *)
TypeOK ==
  /\ pc \in [Threads -> Points]
  /\ call \in [Threads -> [macro : DOMAIN Level, errno : Errnos \cup {0}]]
  /\ stream \in [Threads -> Buffers]
  /\ pieces \in [Threads -> 0 .. MaxPieces]
  /\ g_logLevel \in Int /\ begun \in 0 .. MaxLines
  /\ outputs \in Seq([by : Threads, body : 0 .. kSmallBuffer - 1, buf : Buffers])
  /\ flushed \in 0 .. Len(outputs)
  /\ ended \in {"running", "assert", "abort"}

Ends(text, whats) ==
  /\ Len(text) >= Len(whats)
  /\ \A k \in 1 .. Len(whats) :
       text[Len(text) - Len(whats) + k].what = whats[k]

(* append drops pieces that do not fit, the newline among them: but a line *)
(* runs into the next one only if it fills its buffer to the last byte.    *)
Terminated ==
  \A i \in DOMAIN outputs :
    \/ Ends(outputs[i].buf.text, <<"newline">>)
    \/ outputs[i].buf.size = kSmallBuffer - 1

(* A line keeps all of its " - file:line" as long as its body leaves room  *)
(* for the text and for the 32 bytes formatInteger asks for.               *)
LocationKept ==
  \A i \in DOMAIN outputs :
    outputs[i].body + 3 + BaseLen + 1 + kMaxNumericSize <= kSmallBuffer =>
      Ends(outputs[i].buf.text, <<"dash", "basename", "colon", "line", "newline">>)

(* The int a sequence of digits stands for. *)
Reads(s) ==
  LET sign == IF s[1] = Minus THEN -1 ELSE 1
      first == IF s[1] = Minus THEN 2 ELSE 1
      read[k \in 0 .. Len(s)] ==
        IF k < first THEN 0 ELSE 10 * read[k - 1] + sign * s[k]
  IN  read[Len(s)]

ReadsWell(text) ==
  \A k \in DOMAIN text :
    text[k].digits # <<>> => Reads(text[k].digits) = text[k].value

(* Every number in a line, being written or given to g_output, reads as    *)
(* the value that was streamed, negative ones and the least int included,  *)
(* whose negation does not exist.                                          *)
NumbersRead ==
  /\ \A t \in Threads : ReadsWell(stream[t].text)
  /\ \A i \in DOMAIN outputs : ReadsWell(outputs[i].buf.text)

(* A FATAL line is not lost: when its thread calls abort(), which drops    *)
(* what stdio has buffered, that line and all before it have been written  *)
(* out, whatever other threads log and abort at the same time.             *)
FatalFlushed ==
  \A t \in Threads : pc[t] = "abort" =>
    \A i \in DOMAIN outputs : outputs[i].by = t => i <= flushed

(* The assertion in the constructor of T, LogStream.h:53, as formatTime    *)
(* relies on it: t_time has 17 characters whenever a thread streams it.    *)
StampWhole == ended # "assert"
==============================================================================
