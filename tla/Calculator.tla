----------------------------- MODULE Calculator -----------------------------
(***************************************************************************)
(* calculate (services/api/app/agents/nodes/tool.py): the walk over the    *)
(* syntax tree of an arithmetic expression, computing bottom-up.           *)
(*                                                                         *)
(* The recursion of _walk is a stack of the parts computed so far: a       *)
(* constant is put on it, an operator takes its operands off it, left one  *)
(* first.  Any order in which that works is the walk over some tree.       *)
(*                                                                         *)
(* A value is an integer, kept exactly as Python keeps it, or a float,     *)
(* whose size is fixed and whose value is left out.                        *)
(***************************************************************************)
EXTENDS Integers, Sequences

CONSTANTS MaxExponent,   \* MAX_EXPONENT
          MaxPowerBase,  \* MAX_POWER_BASE
          Literals,      \* the integers an expression may be written with
          MaxLiteral,    \* bound: the largest that fits into an expression
          MaxLiterals    \* bound: the literals that fit into an expression

ASSUME CapsAssumption ==
    /\ MaxExponent \in Nat /\ MaxExponent >= 1
    /\ MaxPowerBase \in Nat /\ MaxPowerBase >= 2
ASSUME LiteralsAssumption ==
    /\ MaxLiteral \in Nat /\ Literals \subseteq 0 .. MaxLiteral
    /\ MaxLiterals \in Nat

VARIABLES parts,  \* the parts computed, and where in the expression each began
          read,   \* the literals walked over so far
          walk    \* is it walking, or what did it come to?

calculatorVars == <<parts, read, walk>>

Integer(n) == [kind |-> "integer", of |-> n]
Float == [kind |-> "float", of |-> 0]
Error == [kind |-> "error", of |-> 0]

CalculatorInit == parts = <<>> /\ read = 0 /\ walk = "walking"

Abs(n) == IF n < 0 THEN - n ELSE n

\* Python's b ** e, of integers and with e >= 0.
Power(b, e) ==
    LET power[i \in 0 .. e] == IF i = 0 THEN 1 ELSE b * power[i - 1]
    IN  power[e]

\* Slip: only a large base to a large exponent is refused.
BothTooLarge(left, right) == Abs(right) > MaxExponent /\ Abs(left) > MaxPowerBase

\* The cap on powers: each side is bounded by itself.
PowerTooLarge(left, right) == Abs(right) > MaxExponent \/ Abs(left) > MaxPowerBase

\* Python's operators on two integers: % has the sign of its right side, a
\* quotient may be too large for a float, and a negative exponent makes a float.
Operations == {"+", "-", "*", "/", "**", "%"}
Compute(op, left, right) ==
    CASE op = "+" -> {Integer(left + right)}
      [] op = "-" -> {Integer(left - right)}
      [] op = "*" -> {Integer(left * right)}
      [] op = "/" -> IF right = 0 THEN {Error} ELSE {Float, Error}
      [] op = "%" -> IF right = 0 THEN {Error}
                     ELSE IF right > 0 THEN {Integer(left % right)}
                     ELSE {Integer(- ((- left) % (- right)))}
      [] op = "**" -> IF PowerTooLarge(left, right) THEN {Error}
                      ELSE IF right >= 0 THEN {Integer(Power(left, right))}
                      ELSE IF left = 0 THEN {Error} ELSE {Float}

\* What an operator may make of two values: a float beside anything is a float,
\* or an error of its own.
Outcomes(op, left, right) ==
    IF {left.kind, right.kind} = {"integer"} THEN Compute(op, left.of, right.of)
    ELSE {Float, Error}

\* A constant: the next literal of the expression.
Read(value) ==
    /\ walk = "walking" /\ read < MaxLiterals
    /\ parts' = Append(parts, [value |-> value, from |-> read])
    /\ read' = read + 1
    /\ UNCHANGED walk

Last == parts[Len(parts)]
Before == parts[Len(parts) - 1]

\* A minus before the last part; a plus leaves it as it is.
Negate ==
    /\ walk = "walking" /\ parts # <<>>
    /\ parts' = [parts EXCEPT ![Len(parts)].value.of = - @]
    /\ UNCHANGED <<read, walk>>

\* The walk ends, whatever it had computed.
EndAs(outcome) ==
    walk' = outcome /\ parts' = <<>> /\ UNCHANGED read

\* An operator between the last two parts makes one of them, or raises.
Operate(op) ==
    /\ walk = "walking" /\ Len(parts) >= 2
    /\ \E v \in Outcomes(op, Before.value, Last.value) :
           IF v = Error THEN EndAs("error")
           ELSE /\ parts' = Append(SubSeq(parts, 1, Len(parts) - 2),
                                   [value |-> v, from |-> Before.from])
                /\ UNCHANGED <<read, walk>>

\* What is not arithmetic, does not parse or is too long.
Raise == walk = "walking" /\ EndAs("error")

\* The result is written out: Python refuses to, when it has too many digits.
Answered ==
    /\ walk = "walking" /\ Len(parts) = 1
    /\ \E outcome \in {"result", "error"} :
           /\ outcome = "error" => Last.value.kind = "integer"
           /\ EndAs(outcome)

CalculatorNext ==
    \/ \E n \in Literals : Read(Integer(n))
    \/ Read(Float)
    \/ Negate \/ Raise \/ Answered
    \/ \E op \in Operations : Operate(op)

CalculatorSpec == CalculatorInit /\ [][CalculatorNext]_calculatorVars
-----------------------------------------------------------------------------
\* The largest number that one literal, or one capped power, makes.
Unit == LET capped == Power(MaxPowerBase, MaxExponent)
        IN  IF capped > MaxLiteral THEN capped ELSE MaxLiteral

\* The literals of the i-th part: those up to where the next part began.
LiteralsOf(i) ==
    (IF i = Len(parts) THEN read ELSE parts[i + 1].from) - parts[i].from

\* tool.py on powers, "the exponent and the base are bounded directly":
\* whatever the operators and their nesting, powers of powers included, a part
\* of n literals never comes to a number with more digits than n literals or
\* capped powers side by side.
NumbersStayShort ==
    \A i \in DOMAIN parts :
        Abs(parts[i].value.of) <= Power(Unit, LiteralsOf(i))
=============================================================================
