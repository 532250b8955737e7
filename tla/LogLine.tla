------------------------------ MODULE LogLine ------------------------------
(***************************************************************************)
(* NanoLogLine (geo_location_svc_lib/NanoLog.cpp): a line of the log is    *)
(* encoded by the thread that logs it, argument by argument, into a buffer *)
(* inside the object, which is exchanged for one on the heap, and that for *)
(* a larger one, when an argument would not fit.  The writer thread        *)
(* decodes it.                                                             *)
(*                                                                         *)
(* An argument is a record of its type, the bytes of its value, and the    *)
(* number of characters it is printed with.  A `string' is a character     *)
(* string of any of the three kinds that are copied; it has no NUL inside, *)
(* and `bytes' is its strlen.  A null pointer is logged as nothing, like "".*)
(*                                                                         *)
(* The buffer is the set of what has been put where: a type id, a value    *)
(* (known by the characters it is printed with) or a NUL, at its offset.   *)
(***************************************************************************)
EXTENDS SequenceFolds

CONSTANTS
  HeaderBytes, \* the time stamp, thread, file, function, line and level
  StackBytes,  \* sizeof(m_stack_buffer)
  PrefixBytes  \* what stringify prints before the arguments, and endl

ASSUME LogLineAssumption ==
  /\ HeaderBytes \in Nat
  /\ StackBytes \in Nat
  /\ HeaderBytes <= StackBytes
  /\ PrefixBytes \in Nat \ {0}

-----------------------------------------------------------------------------
(* SupportedTypes: the type id of a type is its place, from 0.             *)
SupportedTypes ==
  <<"char", "uint32", "uint64", "int32", "int64", "double", "literal", "string">>

Types == {SupportedTypes[n] : n \in DOMAIN SupportedTypes}

TypeId(type) == (CHOOSE n \in DOMAIN SupportedTypes : SupportedTypes[n] = type) - 1

SizeOf ==
  [char |-> 1, uint32 |-> 4, uint64 |-> 8, int32 |-> 4, int64 |-> 8, double |-> 8,
   literal |-> 8]

Arguments ==
  {a \in [type : Types, bytes : Nat, shown : Nat] :
     IF a.type = "string" THEN a.shown = a.bytes ELSE a.bytes = SizeOf[a.type]}

(* What has been put at an offset of the buffer.                           *)
At(offset, kind, val) == [at |-> offset, kind |-> kind, val |-> val]

Memory == [at : Nat, kind : {"type", "value", "nul"}, val : Nat]

(* LogLevel.                                                               *)
INFO == 0
WARN == 1
CRIT == 2
Levels == {INFO, WARN, CRIT}

Larger(m, n) == IF m > n THEN m ELSE n

(* NanoLogLine::NanoLogLine.                                               *)
NewLine(level) ==
  [used |-> HeaderBytes, size |-> StackBytes, heap |-> FALSE, mem |-> {}, level |-> level]

(* memcpy of the first n bytes of the buffer.                              *)
Copied(l, n) == {m \in l.mem : m.at < n}

(* Mutant: nothing is copied into the first heap buffer.                   *)
ResizeWithoutCopy(l, additional) ==
  LET required == l.used + additional
  IN  CASE required <= l.size -> l
        [] required > l.size /\ ~l.heap ->
             [l EXCEPT !.size = Larger(512, required), !.heap = TRUE, !.mem = {}]
        [] OTHER -> [l EXCEPT !.size = Larger(2 * l.size, required),
                              !.mem = Copied(l, l.used)]

(* resize_buffer_if_needed.                                                *)
Resize(l, additional) ==
  LET required == l.used + additional
  IN  CASE required <= l.size -> l
        [] required > l.size /\ ~l.heap ->
             [l EXCEPT !.size = Larger(512, required), !.heap = TRUE,
                       !.mem = Copied(l, l.used)]
        [] OTHER -> [l EXCEPT !.size = Larger(2 * l.size, required),
                              !.mem = Copied(l, l.used)]

IsEmpty(arg) == arg.type = "string" /\ arg.bytes = 0

(* The type id, the value, and the NUL of a string.                        *)
EncodedBytes(arg) == 1 + arg.bytes + (IF arg.type = "string" THEN 1 ELSE 0)

Pieces(offset, arg) ==
  {At(offset, "type", TypeId(arg.type)), At(offset + 1, "value", arg.shown)}
    \cup (IF arg.type = "string" THEN {At(offset + 1 + arg.bytes, "nul", 0)} ELSE {})

(* Mutant: the buffer is asked for the characters only.                    *)
EncodeForgetsNul(l, arg) ==
  IF IsEmpty(arg)
    THEN l
    ELSE [Resize(l, 1 + arg.bytes) EXCEPT !.mem = @ \cup Pieces(l.used, arg),
                                          !.used = @ + EncodedBytes(arg)]

(* operator<<: encode or encode_c_string.                                  *)
Encode(l, arg) ==
  IF IsEmpty(arg)
    THEN l
    ELSE [Resize(l, EncodedBytes(arg)) EXCEPT !.mem = @ \cup Pieces(l.used, arg),
                                              !.used = @ + EncodedBytes(arg)]

-----------------------------------------------------------------------------
(* What stringify reads at offset b: the type there, and the value behind  *)
(* it, whose end is told by its size, or by the first NUL.                 *)
TypesAt(l, b) == {n \in DOMAIN SupportedTypes : At(b, "type", n - 1) \in l.mem}

TypeAt(l, b) == SupportedTypes[CHOOSE n \in TypesAt(l, b) : TRUE]

NulFrom(l, b) ==
  (CHOOSE m \in l.mem :
     /\ m.kind = "nul"
     /\ b <= m.at
     /\ \A o \in l.mem : o.kind = "nul" /\ b <= o.at => m.at <= o.at).at

(* Mutant: decode does not step over the NUL of a string.                  *)
AfterOnNul(l, b) ==
  IF TypeAt(l, b) = "string" THEN NulFrom(l, b + 1) ELSE b + 1 + SizeOf[TypeAt(l, b)]

After(l, b) ==
  IF TypeAt(l, b) = "string" THEN NulFrom(l, b + 1) + 1 ELSE b + 1 + SizeOf[TypeAt(l, b)]

ValueAt(l, b) == (CHOOSE m \in l.mem : m.at = b /\ m.kind = "value").val

(* The two overloads of decode: a value, or all characters up to the NUL.  *)
Decoded(l, b) ==
  [type |-> TypeAt(l, b),
   shown |-> IF TypeAt(l, b) = "string" THEN NulFrom(l, b + 1) - (b + 1)
                                        ELSE ValueAt(l, b + 1)]

(* stringify: from the end of the header, one argument after the other, up *)
(* to m_bytes_used or to what is no type id.                               *)
Stringify(l) ==
  LET start[k \in 0..l.used] ==
        IF k = 0 THEN HeaderBytes ELSE After(l, start[k - 1])
      Ends(k) == start[k] = l.used \/ TypesAt(l, start[k]) = {}
      n == CHOOSE k \in 0..l.used : Ends(k) /\ \A j \in 0..(k - 1) : ~Ends(j)
  IN  [k \in 1..n |-> Decoded(l, start[k - 1])]

(* The characters the ostream gets.                                        *)
PrintedBytes(text) == Total(PrefixBytes, [i \in DOMAIN text |-> text[i].shown])

-----------------------------------------------------------------------------
LineType ==
  [used : Nat, size : Nat, heap : BOOLEAN, mem : SUBSET Memory, level : Levels]

(* No byte of a line has been written beyond its buffer.                   *)
Fits(l) == l.used <= l.size

(* What a reader of the log should see of args: all that are not empty, in *)
(* order, each printed as what it is.                                      *)
Shown(args) ==
  LET logged == Without(args, {a \in Arguments : IsEmpty(a)})
  IN  [n \in DOMAIN logged |-> [type |-> logged[n].type, shown |-> logged[n].shown]]
=============================================================================
