------------------------------ MODULE CString ------------------------------
(***************************************************************************)
(* lib/string: memcpy, memset, strcpy, memcmp, strcmp and strlen on a      *)
(* small memory.  One step is one iteration of a loop, so that a copy      *)
(* whose ranges overlap reads what it has already written.  Bytes are      *)
(* 0 .. 2 * Half - 1; a char is the signed reading of a byte, as it is on  *)
(* x86-64.                                                                 *)
(***************************************************************************)
EXTENDS Integers

CONSTANTS
  Half,      \* half the values of a byte: 128 in the code
  Memories,  \* contents of the memory, functions from addresses to bytes
  Calls      \* the calls: operation, two arguments and a length

byte == 0 .. 2 * Half - 1

ASSUME HalfAssumption == Half \in Nat \ {0}

(* A memory has consecutive addresses, and a NUL.                          *)
ASSUME MemoriesAssumption ==
  \A m \in Memories : /\ DOMAIN m \subseteq Int /\ m \in [DOMAIN m -> byte]
                      /\ \A a, b \in DOMAIN m : a .. b \subseteq DOMAIN m
                      /\ \E a \in DOMAIN m : m[a] = 0

(* Callers pass ranges, and strings that begin, in the memory.             *)
Bytes(a, n) == a .. a + n - 1

InMemory(c, m) ==
  IF c.op \in {"strcpy", "strcmp"}
    THEN c.dest \in DOMAIN m /\ c.src \in DOMAIN m
    ELSE /\ Bytes(c.dest, c.n) \subseteq DOMAIN m
         /\ c.op # "memset" => Bytes(c.src, c.n) \subseteq DOMAIN m

ASSUME CallsAssumption ==
  \A c \in Calls : /\ c.op \in {"memcpy", "memset", "strcpy", "memcmp", "strcmp"}
                   /\ c.dest \in Int /\ c.src \in Int /\ c.n \in Nat
                   /\ \A m \in Memories : InMemory(c, m)

VARIABLES
  mem,     \* the memory
  before,  \* the memory when the function was called
  call,    \* the function and its arguments
  length,  \* its length, or what strlen made of it
  counter, \* its counter
  result   \* what it returned

stringVars == <<mem, before, call, length, counter, result>>

NoResult == 2

char(a) == IF mem[a] >= Half THEN mem[a] - 2 * Half ELSE mem[a]

(* strlen in memory m: the bytes before the first NUL.                     *)
Strlen(m, s) == CHOOSE n \in {a - s : a \in DOMAIN m} :
                  n >= 0 /\ m[s + n] = 0 /\ \A k \in 0 .. n - 1 : m[s + k] # 0
strlen(s) == Strlen(mem, s)

IsString(m, s) == \E a \in DOMAIN m : a >= s /\ m[a] = 0

(* A mistake: the NUL is not copied.                                       *)
LengthWithoutNul(c) == strlen(c.src)

(* strcpy is memcpy of strlen(src) + 1 bytes.                              *)
CopyLength(c) == strlen(c.src) + 1

(* strcmp runs over the longer of the two.                                 *)
CompareLength(c) ==
  IF strlen(c.src) > strlen(c.dest) THEN strlen(c.src) ELSE strlen(c.dest)

Length(c) == CASE c.op = "strcpy" -> CopyLength(c)
               [] c.op = "strcmp" -> CompareLength(c)
               [] OTHER -> c.n

StringInit ==
  /\ mem \in Memories /\ before = mem
  /\ call \in Calls
  /\ call.op \in {"strcpy", "strcmp"} => IsString(mem, call.src)
  /\ call.op = "strcmp" => IsString(mem, call.dest)
  /\ length = Length(call)
  /\ call.dest + length - 1 \in DOMAIN mem \cup {call.dest - 1}
  /\ counter = 0 /\ result = NoResult

Running(ops) == result = NoResult /\ call.op \in ops

Return(value) == result' = value /\ UNCHANGED <<mem, counter>>

(* memcpy and strcpy: nothing to do if the two are the same.               *)
memcpy ==
  /\ Running({"memcpy", "strcpy"})
  /\ IF call.dest = call.src \/ counter >= length
       THEN Return(0)
       ELSE /\ mem' = [mem EXCEPT ![call.dest + counter] = mem[call.src + counter]]
            /\ counter' = counter + 1 /\ UNCHANGED result

(* (unsigned char)c                                                        *)
unsigned_char(c) == c % (2 * Half)

memset ==
  /\ Running({"memset"})
  /\ IF counter >= length
       THEN Return(0)
       ELSE /\ mem' = [mem EXCEPT ![call.dest + counter] = unsigned_char(call.src)]
            /\ counter' = counter + 1 /\ UNCHANGED result

Ordered(s1, s2) == IF char(s1) < char(s2) THEN -1 ELSE 1

(* A mistake: a string matches every string it begins.                     *)
DifferInText(s1, s2) == mem[s1] # mem[s2] /\ mem[s1] # 0 /\ mem[s2] # 0
Different(s1, s2)    == mem[s1] # mem[s2]

(* memcmp and strcmp, str1 in dest and str2 in src.                        *)
memcmp ==
  /\ Running({"memcmp", "strcmp"})
  /\ LET s1 == call.dest + counter
         s2 == call.src + counter
     IN  IF counter >= length THEN Return(0)
         ELSE IF Different(s1, s2) THEN Return(Ordered(s1, s2))
         ELSE counter' = counter + 1 /\ UNCHANGED <<mem, result>>

StringNext == (memcpy \/ memset \/ memcmp) /\ UNCHANGED <<before, call, length>>

StringSpec == StringInit /\ [][StringNext]_stringVars

-----------------------------------------------------------------------------

(* What a copy or a fill leaves behind.  Disjoint ranges, and a range that *)
(* moves down, are copied as they were; a range that moves up into itself  *)
(* repeats the bytes before the overlap, as memcpy goes forward.  strcpy   *)
(* writes the NUL, memset ("Set all 'n' bytes of 's' to value 'c'") the    *)
(* low byte of c, and no byte outside of dest changes.                     *)
Source(k) ==
  LET up == call.dest - call.src
  IN  IF up > 0 THEN before[call.src + (k % up)] ELSE before[call.src + k]

CopiedExactly ==
  result = 0 /\ call.op \in {"memcpy", "strcpy", "memset"} =>
    \A a \in DOMAIN mem :
       LET k == a - call.dest
       IN  mem[a] = IF k \notin 0 .. (IF call.op = "strcpy"
                                        THEN Strlen(before, call.src) + 1
                                        ELSE call.n) - 1 THEN before[a]
                    ELSE IF call.op = "memset" THEN call.src % (2 * Half)
                    ELSE Source(k)

(* strcmp runs over the longer string, and still reads neither of the two  *)
(* past its NUL.                                                           *)
StopsAtNul ==
  call.op = "strcmp" /\ result = NoResult /\ counter < length
    => counter <= strlen(call.dest) /\ counter <= strlen(call.src)

(* The comparisons order byte strings: the result is decided by the first  *)
(* difference, as chars; strcmp is 0 only for the same string, and two     *)
(* strings of which one is a prefix of the other differ at the NUL.        *)
Differ(n) == {k \in 0 .. n - 1 : mem[call.dest + k] # mem[call.src + k]}

ComparesFirstDifference ==
  result # NoResult /\ call.op \in {"memcmp", "strcmp"} =>
    LET n == IF call.op = "memcmp" THEN call.n
             ELSE IF strlen(call.dest) < strlen(call.src) THEN strlen(call.dest) + 1
             ELSE strlen(call.src) + 1
    IN  IF Differ(n) = {} THEN result = 0
        ELSE \E k \in Differ(n) :
               /\ \A l \in Differ(n) : k <= l
               /\ result = IF char(call.dest + k) < char(call.src + k) THEN -1 ELSE 1

(* memcmp and strcmp are right, and strcmp is without reading past an end. *)
ComparesStrings == StopsAtNul /\ ComparesFirstDifference
=============================================================================
