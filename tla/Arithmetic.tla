------------------------------ MODULE Arithmetic ------------------------------
(***************************************************************************)
(* The integer types, their conversions and the operators on their values  *)
(* (src/src/types.h, src/src/interpreter.c).  A value carries a word, as   *)
(* wide as long long, whatever its type: an operator that reads it as      *)
(* signed or unsigned, or forgets to wrap what it computed, shows in what  *)
(* the next one makes of it.  Widths are parameters, so that a few bits    *)
(* stand for the 8 to 64 of the machine.  Floating point is left out.      *)
(***************************************************************************)
EXTENDS Integers
LOCAL INSTANCE Bitwise

CONSTANT Width    \* the bits of each integer type, by its handle

\* The handles of the integer types are their places in the table of types.
CT_BOOL   == 0
CT_CHAR   == 1
CT_SCHAR  == 2
CT_UCHAR  == 3
CT_SHORT  == 4
CT_USHORT == 5
CT_INT    == 6
CT_UINT   == 7
CT_LONG   == 8
CT_ULONG  == 9
CT_LLONG  == 10
CT_ULLONG == 11
CT_VOID   == 14
IntegerTypes == CT_BOOL..CT_ULLONG

ASSUME WidthAssumption ==
    /\ Width \in [IntegerTypes -> Nat \ {0}]
    /\ \A s \in {CT_SHORT, CT_INT, CT_LONG, CT_LLONG} : Width[s] = Width[s + 1] /\ Width[s - 2] <= Width[s]

\* Plain char is signed on the build that is modelled.
IsSigned(type) == type \in {CT_CHAR, CT_SCHAR, CT_SHORT, CT_INT, CT_LONG, CT_LLONG}
Rank(type)     == CASE type = CT_BOOL -> 0
                    [] type \in CT_CHAR..CT_UCHAR -> 1
                    [] OTHER -> type \div 2

Mask(type)    == 2^Width[type] - 1
Maximum(type) == IF IsSigned(type) THEN Mask(type) \div 2 ELSE Mask(type)
Minimum(type) == IF IsSigned(type) THEN -Maximum(type) - 1 ELSE 0

-----------------------------------------------------------------------------
(* Conversions. *)

\* type_promote: what is narrower than int becomes int.
Promoted(type) == IF Rank(type) >= Rank(CT_INT) THEN type ELSE CT_INT

\* type_common: the type two operands are converted to.
CommonOfSigns(signed, unsigned) ==
    CASE Rank(unsigned) >= Rank(signed)   -> unsigned
      [] Rank(unsigned) < Rank(signed) /\ Width[signed] > Width[unsigned] -> signed
      [] OTHER -> signed + 1
CommonOfPromoted(a, b) ==
    CASE a = b -> a
      [] a # b /\ IsSigned(a) = IsSigned(b) -> IF Rank(a) > Rank(b) THEN a ELSE b
      [] OTHER -> IF IsSigned(a) THEN CommonOfSigns(a, b) ELSE CommonOfSigns(b, a)
Common(left, right) == CommonOfPromoted(Promoted(left), Promoted(right))

Word == Width[CT_LLONG]
Bits(n) == n % 2^Word                    \* the word that stands for a number
AsInteger(bits) == IF bits < 2^(Word - 1) THEN bits ELSE bits - 2^Word

Value(type, bits) == [type |-> type, bits |-> bits]
Failure == Value(CT_VOID, 0)             \* the evaluation has failed; no integer is void
Integer(n) == Value(CT_INT, Bits(n))
Truth(value) == value.bits # 0

\* wrap: a bit pattern as the type takes it, which is how arithmetic wraps.
Wrap(type, bits) ==
    LET low == bits % (Mask(type) + 1)
    IN Value(type, IF low > Maximum(type) THEN Bits(low - Mask(type) - 1) ELSE low)

AsType(value, type) == IF value.type = type THEN value ELSE Wrap(type, value.bits)

\* convert, for integers: only bool does not wrap.
Convert(value, type) ==
    IF type = CT_BOOL THEN Wrap(CT_BOOL, IF Truth(value) THEN 1 ELSE 0) ELSE AsType(value, type)

\* literal_type: the first type of its list that holds the literal.
LiteralType(n, unsigned, longs, octal) ==
    LET Candidates(s) == (IF unsigned THEN {} ELSE {s}) \cup (IF unsigned \/ octal THEN {s + 1} ELSE {})
        First == 2 * (IF longs > 2 THEN 2 ELSE longs) + CT_INT
        Holds == {t \in First..CT_ULLONG : n <= Maximum(t) /\ t \in Candidates(2 * (t \div 2))}
    IN IF Holds = {} THEN CT_VOID ELSE CHOOSE t \in Holds : \A u \in Holds : t <= u

-----------------------------------------------------------------------------
(* Operators. *)

Shifts      == {"<<", ">>"}
Comparisons == {"==", "!=", "<", ">", "<=", ">="}
Divisions   == {"/", "%"}

\* C divides towards zero.
Magnitude(n) == IF n < 0 THEN -n ELSE n
Quotient(a, b) == IF (a < 0) = (b < 0) THEN Magnitude(a) \div Magnitude(b) ELSE -(Magnitude(a) \div Magnitude(b))

\* What an operator makes of two numbers, before it is made to fit a type.
Exact(kind, a, b) ==
    CASE kind = "+" -> a + b
      [] kind = "-" -> a - b
      [] kind = "*" -> a * b
      [] kind = "/" -> Quotient(a, b)
      [] kind = "%" -> a - Quotient(a, b) * b
      [] kind = "&" -> AsInteger(Bits(a) & Bits(b))
      [] kind = "|" -> AsInteger(Bits(a) | Bits(b))
      [] kind = "^" -> AsInteger(Bits(a) ^^ Bits(b))

Compared(kind, a, b) ==
    Integer(IF \/ kind = "==" /\ a = b
               \/ kind = "!=" /\ a # b
               \/ kind = "<" /\ a < b
               \/ kind = ">" /\ a > b
               \/ kind = "<=" /\ a <= b
               \/ kind = ">=" /\ a >= b
            THEN 1 ELSE 0)

\* A division the operators refuse: by zero, and of the lowest number by -1, whose
\* quotient is one too many.
CannotDivide(kind, a, b, lowest) == kind \in Divisions /\ (b = 0 \/ (a = lowest /\ b = -1))

\* A result that its type must hold, or that wraps when it is unsigned.
Fitted(type, n) == IF IsSigned(type) /\ n \notin Minimum(type)..Maximum(type) THEN Failure ELSE Wrap(type, n)

\* What a word stands for when it is read as signed or not.
Read(value, type) == IF IsSigned(type) THEN AsInteger(value.bits) ELSE value.bits

\* integer_operation, for two operands of one type.
IntegerOperation(kind, a, b, type) ==
    IF CannotDivide(kind, a, b, Minimum(type)) THEN Failure ELSE Fitted(type, Exact(kind, a, b))

\* shift_operation: the left operand decides the type, the right one is a count.
Shifted(kind, type, bits, count) ==
    CASE count < 0 \/ count >= Width[type] -> Failure
      [] count \in 0..(Width[type] - 1) /\ ~IsSigned(type) -> Wrap(type, IF kind = "<<" THEN bits * 2^count ELSE bits \div 2^count)
      [] kind = ">>" /\ count \in 0..(Width[type] - 1) /\ IsSigned(type) -> Wrap(type, AsInteger(bits) \div 2^count)
      [] OTHER -> IF AsInteger(bits) < 0 \/ AsInteger(bits) > Maximum(type) \div 2^count THEN Failure
                  ELSE Wrap(type, bits * 2^count)
ShiftOperation(kind, left, right) ==
    Shifted(kind, Promoted(left.type), AsType(left, Promoted(left.type)).bits,
            AsInteger(AsType(right, Promoted(right.type)).bits))

\* int_binary: two ints, read as numbers already.
IntBinary(kind, a, b) ==
    CASE kind \in Shifts -> ShiftOperation(kind, Integer(a), Integer(b))
      [] kind \in Comparisons -> Compared(kind, a, b)
      [] OTHER -> IntegerOperation(kind, a, b, CT_INT)

\* mixed_binary, for integers.
MixedAs(type, kind, left, right) ==
    IF kind \in Comparisons THEN Compared(kind, Read(AsType(left, type), type), Read(AsType(right, type), type))
    ELSE IntegerOperation(kind, Read(AsType(left, type), type), Read(AsType(right, type), type), type)
MixedBinary(kind, left, right) ==
    IF kind \in Shifts THEN ShiftOperation(kind, left, right) ELSE MixedAs(Common(left.type, right.type), kind, left, right)

\* arithmetic_binary: the cases that cannot fail, without converting first; what may fail
\* goes to mixed_binary.
Lowest == -(2^(Word - 1))
QuickAs(type, n) == IF type = CT_UINT THEN Value(type, n % 2^Width[CT_UINT]) ELSE Value(type, Bits(n))
QuickRead(value, type) == IF type = CT_UINT THEN value.bits % 2^Width[CT_UINT] ELSE Read(value, type)
QuickFails(type, kind, a, b) ==
    \/ kind \in Divisions /\ CannotDivide(kind, a, b, Lowest)
    \/ IsSigned(type) /\ Exact(kind, a, b) \notin Lowest..(-Lowest - 1)
QuickBinary(type, kind, a, b, left, right) ==
    CASE kind \in Comparisons -> Compared(kind, a, b)
      [] kind \notin Comparisons /\ QuickFails(type, kind, a, b) -> MixedBinary(kind, left, right)
      [] OTHER -> QuickAs(type, Exact(kind, a, b))

\* binary, for integers; an assignment operator has been taken apart.
BinaryAs(type, kind, left, right) ==
    CASE type = CT_INT -> IntBinary(kind, AsInteger(left.bits), AsInteger(right.bits))
      [] type # CT_INT /\ kind \in Shifts -> MixedBinary(kind, left, right)
      [] OTHER -> QuickBinary(type, kind, QuickRead(left, type), QuickRead(right, type), left, right)
Binary(kind, left, right) == BinaryAs(Common(left.type, right.type), kind, left, right)

\* unary, for integers.
Negated(type, n) == IF IsSigned(type) /\ n = Minimum(type) THEN Failure ELSE Wrap(type, -n)
Unary(op, operand) ==
    CASE op = "!" -> Integer(IF Truth(operand) THEN 0 ELSE 1)
      [] op = "+" -> AsType(operand, Promoted(operand.type))
      [] op = "~" -> Wrap(Promoted(operand.type), -1 - AsInteger(operand.bits))
      [] OTHER    -> Negated(Promoted(operand.type), AsInteger(AsType(operand, Promoted(operand.type)).bits))
==============================================================================
