--------------------------- MODULE CliPlanProofs ---------------------------
(***************************************************************************)
(* Theorems about CliPlan, for all arguments, roles and files: the two     *)
(* passes over the arguments agree on which of them are inputs, accepted   *)
(* jobs overwrite nothing that the command reads or writes, and every flag *)
(* has the value of what takes precedence.                                 *)
(***************************************************************************)
EXTENDS CliPlan, Lists

----------------------------------------------------------------------------
(* How arguments are read *)

Parts == {"dashes", "option", "value", "input", "literal"}

OptionRoles == {"output", "base", "option", "unknown"}
InputRoles == {"input", "comment"}

\* The argument after a is its value.
TakesValue(a) == Role[a] \in {"output", "base"}

\* part says what the arguments o are.  Both passes read from left to right: an
\* argument is a value because of the option before it, and literal because of the
\* dashes somewhere before it.
Reading(o, part) ==
    /\ part \in [1..Len(o) -> Parts]
    /\ \A n \in 1..Len(o) :
           /\ part[n] = "value" <=> n > 1 /\ part[n - 1] = "option" /\ TakesValue(o[n - 1])
           /\ part[n] = "literal" <=> n > 1 /\ part[n - 1] \in {"dashes", "literal"}
           /\ part[n] = "dashes" => Role[o[n]] = "dashes"
           /\ part[n] = "option" => Role[o[n]] \in OptionRoles
           /\ part[n] = "input" => Role[o[n]] \in InputRoles

IsInput(part, n) == part[n] \in {"input", "literal"}

\* at gives the places of the inputs ins among the arguments o.
Located(o, ins, part, at) ==
    /\ at \in [1..Len(ins) -> 1..Len(o)]
    /\ \A k, l \in 1..Len(ins) : k < l => at[k] < at[l]
    /\ \A k \in 1..Len(ins) : ins[k] = o[at[k]] /\ IsInput(part, at[k])
    /\ \A n \in 1..Len(o) : IsInput(part, n) => \E k \in 1..Len(ins) : at[k] = n

----------------------------------------------------------------------------
(* The inductive invariant *)

Gathering == phase \in {"select", "rest"}

ListsOK == case \in Cases /\ out \in Seq(Args) /\ inputs \in Seq(Args)

\* The first pass waits for a value, or has seen the dashes, as the last argument
\* it kept says.
LastIs(part, parts) == out # <<>> /\ part[Len(out)] \in parts
FirstPassOK(part) ==
    /\ value \in {"-o", "-b"} <=> LastIs(part, {"option"}) /\ TakesValue(out[Len(out)])
    /\ Gathering => (phase = "rest" <=> LastIs(part, {"dashes", "literal"}))

\* The second pass is not at a value, and knows whether it is behind the dashes.
AtPart(part) ==
    /\ i \in 1..(Len(out) + 1)
    /\ i <= Len(out) => part[i] # "value" /\ (literal <=> part[i] = "literal")

\* Its jobs are the inputs it has gone past.
JobsOK(at) ==
    /\ Len(jobs) \in 0..Len(inputs)
    /\ jobs \in Seq({jobs[k] : k \in 1..Len(jobs)})
    /\ \A k \in 1..Len(inputs) : k <= Len(jobs) <=> at[k] < i
    /\ \A k \in 1..Len(jobs) : jobs[k].file = inputs[k]

PhaseOK ==
    /\ phase \in {"select", "rest", "load"} => i = 1 /\ literal = FALSE /\ jobs = <<>>
    /\ phase \in {"check", "planned"} => i > Len(out)

ReadOK(part, at) ==
    /\ Reading(out, part)
    /\ Located(out, inputs, part, at)
    /\ FirstPassOK(part)
    /\ AtPart(part)
    /\ JobsOK(at)

PlanInv ==
    /\ ListsOK
    /\ PhaseOK
    /\ \E part \in [1..Len(out) -> Parts] :
           \E at \in [1..Len(inputs) -> 1..Len(out)] : ReadOK(part, at)

----------------------------------------------------------------------------
(* Lemmas about readings *)

\* p is what an argument a is that follows the arguments o.
Fits(o, part, a, p) ==
    /\ p \in Parts
    /\ p = "value" <=> Len(o) > 0 /\ part[Len(o)] = "option" /\ TakesValue(o[Len(o)])
    /\ p = "literal" <=> Len(o) > 0 /\ part[Len(o)] \in {"dashes", "literal"}
    /\ p = "dashes" => Role[a] = "dashes"
    /\ p = "option" => Role[a] \in OptionRoles
    /\ p = "input" => Role[a] \in InputRoles

Longer(f, n, x) == [k \in 1..(n + 1) |-> IF k <= n THEN f[k] ELSE x]

\* One more argument is read as the ones before it say, which are read as before.
LEMMA ReadMore ==
    ASSUME NEW o \in Seq(Args), NEW a \in Args, NEW part, NEW p,
           Reading(o, part), Fits(o, part, a, p)
    PROVE  Reading(Append(o, a), Longer(part, Len(o), p))
<1> DEFINE q == Longer(part, Len(o), p)
           oo == Append(o, a)
<1>1. Len(o) \in Nat /\ Len(oo) = Len(o) + 1
  BY AppendProperties
<1>2. /\ \A n \in 1..Len(o) : oo[n] = o[n]
      /\ oo[Len(o) + 1] = a
  BY AppendProperties
<1>3. /\ q \in [1..(Len(o) + 1) -> Parts]
      /\ \A n \in 1..Len(o) : q[n] = part[n]
      /\ q[Len(o) + 1] = p
  BY <1>1 DEF Longer, Reading, Fits
<1> HIDE DEF q, oo
<1>4. ASSUME NEW n \in 1..Len(oo)
      PROVE  /\ q[n] = "value" <=> n > 1 /\ q[n - 1] = "option" /\ TakesValue(oo[n - 1])
             /\ q[n] = "literal" <=> n > 1 /\ q[n - 1] \in {"dashes", "literal"}
             /\ q[n] = "dashes" => Role[oo[n]] = "dashes"
             /\ q[n] = "option" => Role[oo[n]] \in OptionRoles
             /\ q[n] = "input" => Role[oo[n]] \in InputRoles
  <2>1. CASE n \in 1..Len(o)
    <3>1. n > 1 => n - 1 \in 1..Len(o)
      BY <2>1, <1>1
    <3>2. q[n] = part[n] /\ oo[n] = o[n]
      BY <2>1, <1>2, <1>3
    <3>3. n > 1 => q[n - 1] = part[n - 1] /\ oo[n - 1] = o[n - 1]
      BY <3>1, <1>2, <1>3
    <3>4. /\ part[n] = "value" <=> n > 1 /\ part[n - 1] = "option" /\ TakesValue(o[n - 1])
          /\ part[n] = "literal" <=> n > 1 /\ part[n - 1] \in {"dashes", "literal"}
          /\ part[n] = "dashes" => Role[o[n]] = "dashes"
          /\ part[n] = "option" => Role[o[n]] \in OptionRoles
          /\ part[n] = "input" => Role[o[n]] \in InputRoles
      BY <2>1 DEF Reading
    <3> QED
      BY <3>2, <3>3, <3>4
  <2>2. CASE n = Len(o) + 1
    <3>1. n - 1 = Len(o) /\ (n > 1 <=> Len(o) > 0)
      BY <2>2, <1>1
    <3>2. Len(o) > 0 => q[Len(o)] = part[Len(o)] /\ oo[Len(o)] = o[Len(o)]
      BY <1>1, <1>2, <1>3
    <3> QED
      BY <2>2, <3>1, <3>2, <1>2, <1>3 DEF Fits
  <2> QED
    BY <1>1, <2>1, <2>2
<1> QED
  BY <1>1, <1>3, <1>4 DEF Reading, q, oo

\* The inputs stay where they are when an argument follows that is none.
LEMMA LocateSame ==
    ASSUME NEW o \in Seq(Args), NEW ins \in Seq(Args), NEW a \in Args,
           NEW part, NEW at, NEW p,
           Located(o, ins, part, at), p \notin {"input", "literal"}
    PROVE  Located(Append(o, a), ins, Longer(part, Len(o), p), at)
<1> DEFINE q == Longer(part, Len(o), p)
           oo == Append(o, a)
<1>1. Len(o) \in Nat /\ Len(oo) = Len(o) + 1
  BY AppendProperties
<1>2. \A n \in 1..Len(o) : oo[n] = o[n]
  BY AppendProperties
<1>3. /\ \A n \in 1..Len(o) : q[n] = part[n]
      /\ q[Len(o) + 1] = p
  BY <1>1 DEF Longer
<1>4. \A k \in 1..Len(ins) : at[k] \in 1..Len(o)
  BY DEF Located
<1> HIDE DEF q, oo
<1>5. at \in [1..Len(ins) -> 1..Len(oo)]
  BY <1>1 DEF Located
<1>6. \A k \in 1..Len(ins) : ins[k] = oo[at[k]] /\ IsInput(q, at[k])
  BY <1>2, <1>3, <1>4 DEF Located, IsInput
<1>7. \A n \in 1..Len(oo) : IsInput(q, n) => \E k \in 1..Len(ins) : at[k] = n
  BY <1>1, <1>3 DEF Located, IsInput
<1> QED
  BY <1>5, <1>6, <1>7 DEF Located, q, oo

\* An input that follows is the last one.
LEMMA LocateMore ==
    ASSUME NEW o \in Seq(Args), NEW ins \in Seq(Args), NEW a \in Args,
           NEW part, NEW at, NEW p,
           Located(o, ins, part, at), p \in {"input", "literal"}
    PROVE  Located(Append(o, a), Append(ins, a), Longer(part, Len(o), p),
                   Longer(at, Len(ins), Len(o) + 1))
<1> DEFINE q == Longer(part, Len(o), p)
           oo == Append(o, a)
           ii == Append(ins, a)
           tt == Longer(at, Len(ins), Len(o) + 1)
<1>1. /\ Len(o) \in Nat /\ Len(oo) = Len(o) + 1
      /\ Len(ins) \in Nat /\ Len(ii) = Len(ins) + 1
  BY AppendProperties
<1>2. /\ \A n \in 1..Len(o) : oo[n] = o[n]
      /\ oo[Len(o) + 1] = a
  BY AppendProperties
<1>3. /\ \A k \in 1..Len(ins) : ii[k] = ins[k]
      /\ ii[Len(ins) + 1] = a
  BY AppendProperties
<1>4. /\ \A n \in 1..Len(o) : q[n] = part[n]
      /\ q[Len(o) + 1] = p
  BY <1>1 DEF Longer
<1>5. \A k \in 1..Len(ins) : at[k] \in 1..Len(o)
  BY DEF Located
<1>6. /\ tt \in [1..(Len(ins) + 1) -> 1..(Len(o) + 1)]
      /\ \A k \in 1..Len(ins) : tt[k] = at[k]
      /\ tt[Len(ins) + 1] = Len(o) + 1
  BY <1>1, <1>5 DEF Longer
<1> HIDE DEF q, oo, ii, tt
<1>7. \A k, l \in 1..Len(ii) : k < l => tt[k] < tt[l]
  <2> SUFFICES ASSUME NEW k \in 1..Len(ii), NEW l \in 1..Len(ii), k < l
               PROVE  tt[k] < tt[l]
    OBVIOUS
  <2>1. k \in 1..Len(ins) /\ tt[k] = at[k] /\ at[k] \in 1..Len(o)
    BY <1>1, <1>5, <1>6
  <2>2. CASE l \in 1..Len(ins)
    BY <2>1, <2>2, <1>6 DEF Located
  <2>3. CASE l = Len(ins) + 1
    BY <2>1, <2>3, <1>1, <1>6
  <2> QED
    BY <1>1, <2>2, <2>3
<1>8. \A k \in 1..Len(ii) : ii[k] = oo[tt[k]] /\ IsInput(q, tt[k])
  <2> SUFFICES ASSUME NEW k \in 1..Len(ii)
               PROVE  ii[k] = oo[tt[k]] /\ IsInput(q, tt[k])
    OBVIOUS
  <2>1. CASE k \in 1..Len(ins)
    BY <2>1, <1>2, <1>3, <1>4, <1>5, <1>6 DEF Located, IsInput
  <2>2. CASE k = Len(ins) + 1
    BY <2>2, <1>2, <1>3, <1>4, <1>6 DEF IsInput
  <2> QED
    BY <1>1, <2>1, <2>2
<1>9. \A n \in 1..Len(oo) : IsInput(q, n) => \E k \in 1..Len(ii) : tt[k] = n
  <2> SUFFICES ASSUME NEW n \in 1..Len(oo), IsInput(q, n)
               PROVE  \E k \in 1..Len(ii) : tt[k] = n
    OBVIOUS
  <2>1. CASE n \in 1..Len(o)
    <3>1. PICK k \in 1..Len(ins) : at[k] = n
      BY <2>1, <1>4 DEF Located, IsInput
    <3> QED
      BY <3>1, <1>1, <1>6
  <2>2. CASE n = Len(o) + 1
    BY <2>2, <1>1, <1>6
  <2> QED
    BY <1>1, <2>1, <2>2
<1> QED
  BY <1>1, <1>6, <1>7, <1>8, <1>9 DEF Located, q, oo, ii, tt

----------------------------------------------------------------------------
(* The first pass *)

\* An argument a that is a part p is kept, with what the pass notes about it.
Keeps(a, p) ==
    /\ out' = Append(out, a)
    /\ inputs' = (IF p \in {"input", "literal"} THEN Append(inputs, a) ELSE inputs)
    /\ value' \in {"-o", "-b"} <=> p = "option" /\ TakesValue(a)
    /\ phase' \in {"select", "rest"}
    /\ phase' = "rest" <=> p \in {"dashes", "literal"}
    /\ UNCHANGED <<case, i, literal, jobs>>

\* An argument that configArguments keeps gets the part that the ones before it leave.
LEMMA Kept ==
    ASSUME ListsOK, PhaseOK, NEW part, NEW at, ReadOK(part, at), Gathering,
           NEW a \in Args, NEW p, Fits(out, part, a, p), Keeps(a, p)
    PROVE  PlanInv'
<1>a. PICK q : q = Longer(part, Len(out), p)
  OBVIOUS
<1>b. PICK tt : tt = IF p \in {"input", "literal"}
                     THEN Longer(at, Len(inputs), Len(out) + 1) ELSE at
  OBVIOUS
<1>1. ListsOK'
  BY AppendProperties DEF ListsOK, Keeps
<1>2. i = 1 /\ literal = FALSE /\ jobs = <<>>
  BY DEF PhaseOK, Gathering
<1>3. PhaseOK'
  BY <1>2 DEF PhaseOK, Keeps
<1>4. Reading(out', q)
  BY <1>a, ReadMore DEF ListsOK, ReadOK, Keeps
<1>5. Located(out', inputs', q, tt)
  <2>1. Located(out, inputs, part, at) /\ out \in Seq(Args) /\ inputs \in Seq(Args)
    BY DEF ListsOK, ReadOK
  <2>2. CASE p \in {"input", "literal"}
    BY <1>a, <1>b, <2>1, <2>2, LocateMore DEF Keeps
  <2>3. CASE p \notin {"input", "literal"}
    BY <1>a, <1>b, <2>1, <2>3, LocateSame DEF Keeps
  <2> QED
    BY <2>2, <2>3
<1>6. Len(out) \in Nat /\ Len(out') = Len(out) + 1 /\ out'[Len(out')] = a /\ out' # <<>>
  BY AppendProperties DEF ListsOK, Keeps
<1>7. q[Len(out')] = p
  BY <1>a, <1>6 DEF Longer
<1>8. FirstPassOK(q)'
  BY <1>6, <1>7 DEF FirstPassOK, LastIs, Gathering, Keeps
<1>9. AtPart(q)'
  <2>1. i' = 1 /\ literal' = FALSE
    BY <1>2 DEF Keeps
  <2>2. 1 \in 1..Len(out')
    BY <1>6
  <2>3. q[1] # "value" /\ q[1] # "literal"
    BY <2>2, <1>4 DEF Reading
  <2> QED
    BY <2>1, <2>2, <2>3, <1>6 DEF AtPart
<1>10. JobsOK(tt)'
  <2>1. i' = 1 /\ jobs' = <<>> /\ Len(jobs') = 0
    BY <1>2 DEF Keeps
  <2>2. Len(inputs') \in Nat
    BY <1>1, LenProperties DEF ListsOK
  <2>3. \A k \in 1..Len(inputs') : tt[k] \in 1..Len(out')
    BY <1>5 DEF Located
  <2>4. \A k \in 1..Len(inputs') : ~(k <= Len(jobs')) /\ ~(tt[k] < i')
    BY <2>1, <2>2, <2>3, <1>6
  <2>5. jobs' \in Seq({jobs'[k] : k \in 1..Len(jobs')})
    BY <2>1, EmptySeq
  <2>6. \A k \in 1..Len(jobs') : jobs'[k].file = inputs'[k]
    BY <2>1
  <2> QED
    BY <2>1, <2>2, <2>4, <2>5, <2>6 DEF JobsOK
<1>11. ReadOK(q, tt)'
  BY <1>4, <1>5, <1>8, <1>9, <1>10 DEF ReadOK
<1>12. q \in [1..Len(out') -> Parts] /\ tt \in [1..Len(inputs') -> 1..Len(out')]
  BY <1>4, <1>5 DEF Reading, Located
<1> QED
  BY <1>1, <1>3, <1>11, <1>12 DEF PlanInv

\* What the state says about the argument that is read next.
LEMMA NextPart ==
    ASSUME NEW part, NEW at, ListsOK, ReadOK(part, at), Gathering, NEW p \in Parts,
           NEW a, p = "value" <=> value \in {"-o", "-b"},
           p = "literal" <=> phase = "rest",
           p = "dashes" => Role[a] = "dashes",
           p = "option" => Role[a] \in OptionRoles,
           p = "input" => Role[a] \in InputRoles
    PROVE  Fits(out, part, a, p)
<1>1. Len(out) \in Nat /\ (out # <<>> <=> Len(out) > 0)
  BY EmptySeq, LenProperties DEF ListsOK
<1> QED
  BY <1>1 DEF ReadOK, FirstPassOK, LastIs, Fits

\* Waiting for a value, the pass is not behind the dashes.
LEMMA NoValueBehindDashes ==
    ASSUME NEW part, NEW at, ReadOK(part, at), Gathering, phase = "rest"
    PROVE  value \notin {"-o", "-b"}
BY DEF ReadOK, FirstPassOK, LastIs

\* Every step that keeps an argument tells what it is.
LEMMA FirstPassSteps ==
    ASSUME PlanInv, NEW a \in Args,
           \/ KeepValue(a) \/ KeepOption(a) \/ KeepInput(a) \/ KeepRest(a)
    PROVE  PlanInv'
<1>1. PICK part \in [1..Len(out) -> Parts] : \E at \in [1..Len(inputs) -> 1..Len(out)] : ReadOK(part, at)
  BY DEF PlanInv
<1>2. PICK at \in [1..Len(inputs) -> 1..Len(out)] : ReadOK(part, at)
  BY <1>1
<1>3. ListsOK /\ PhaseOK
  BY DEF PlanInv
<1>4. SUFFICES \E p \in Parts : Gathering /\ Fits(out, part, a, p) /\ Keeps(a, p)
  BY <1>2, <1>3, Kept
<1>5. CASE KeepValue(a)
  <2>1. Gathering /\ "value" \in Parts
    BY <1>5 DEF KeepValue, Gathering, Parts
  <2>2. Fits(out, part, a, "value")
    BY <2>1, <1>2, <1>3, <1>5, NextPart DEF KeepValue
  <2>3. Keeps(a, "value")
    BY <1>5 DEF KeepValue, Keeps, Type, secondPass
  <2> QED
    BY <2>1, <2>2, <2>3
<1>6. CASE KeepOption(a)
  <2>1. Gathering /\ "option" \in Parts
    BY <1>6 DEF KeepOption, Gathering, Parts
  <2>2. Fits(out, part, a, "option")
    BY <2>1, <1>2, <1>3, <1>6, NextPart DEF KeepOption, OptionRoles
  <2>3. Keeps(a, "option")
    BY <1>6 DEF KeepOption, Keeps, Type, secondPass, TakesValue
  <2> QED
    BY <2>1, <2>2, <2>3
<1>7. CASE KeepInput(a)
  <2>1. Gathering /\ "input" \in Parts
    BY <1>7 DEF KeepInput, Gathering, Parts
  <2>2. Fits(out, part, a, "input")
    BY <2>1, <1>2, <1>3, <1>7, NextPart DEF KeepInput, InputRoles
  <2>3. Keeps(a, "input")
    BY <1>7 DEF KeepInput, Keeps, Type, secondPass
  <2> QED
    BY <2>1, <2>2, <2>3
<1>8. CASE KeepRest(a) /\ phase = "select"
  <2>1. Gathering /\ "dashes" \in Parts
    BY <1>8 DEF Gathering, Parts
  <2>2. Fits(out, part, a, "dashes")
    BY <2>1, <1>2, <1>3, <1>8, NextPart DEF KeepRest
  <2>3. Keeps(a, "dashes")
    BY <1>8 DEF KeepRest, Keeps, Type, secondPass
  <2> QED
    BY <2>1, <2>2, <2>3
<1>9. CASE KeepRest(a) /\ phase = "rest"
  <2>1. Gathering /\ "literal" \in Parts
    BY <1>9 DEF Gathering, Parts
  <2>2. value \notin {"-o", "-b"}
    BY <2>1, <1>2, <1>9, NoValueBehindDashes
  <2>3. Fits(out, part, a, "literal")
    BY <2>1, <2>2, <1>2, <1>3, <1>9, NextPart
  <2>4. Keeps(a, "literal")
    BY <2>2, <1>9 DEF KeepRest, Keeps, Type, secondPass
  <2> QED
    BY <2>1, <2>3, <2>4
<1> QED
  BY <1>5, <1>6, <1>7, <1>8, <1>9 DEF KeepRest

----------------------------------------------------------------------------
(* Steps that read nothing *)

Waits(v) == v \in {"-o", "-b"}

\* Steps that neither keep nor pass an argument: the phase goes on, and a selector
\* waits for its path.
LEMMA Standing ==
    ASSUME PlanInv, UNCHANGED <<case, out, inputs, i, literal, jobs>>,
           Waits(value') <=> Waits(value),
           \/ phase' = phase
           \/ phase' \in {"load", "failed", "answered"} /\ Gathering
           \/ phase' = "plan" /\ phase = "load"
           \/ phase' = "failed"
           \/ phase' \in {"check", "planned"} /\ i > Len(out)
    PROVE  PlanInv'
<1>1. PICK part \in [1..Len(out) -> Parts] : \E at \in [1..Len(inputs) -> 1..Len(out)] : ReadOK(part, at)
  BY DEF PlanInv
<1>2. PICK at \in [1..Len(inputs) -> 1..Len(out)] : ReadOK(part, at)
  BY <1>1
<1>3. ListsOK' /\ PhaseOK'
  BY DEF PlanInv, ListsOK, PhaseOK, Gathering
<1>4. FirstPassOK(part)'
  BY <1>2 DEF ReadOK, FirstPassOK, LastIs, Gathering, Waits
<1>5. AtPart(part)' /\ JobsOK(at)'
  BY <1>2 DEF ReadOK, AtPart, JobsOK
<1>6. ReadOK(part, at)'
  BY <1>2, <1>4, <1>5 DEF ReadOK
<1> QED
  BY <1>3, <1>6 DEF PlanInv

----------------------------------------------------------------------------
(* The second pass *)

\* Going from i to j, over arguments that are no inputs.
LEMMA PassOver ==
    ASSUME NEW part, NEW at, ReadOK(part, at), ListsOK, phase = "plan",
           NEW j \in (i + 1)..(Len(out) + 1), i' = j,
           \A n \in i..(j - 1) : ~IsInput(part, n),
           j <= Len(out) => part[j] # "value" /\ (literal' <=> part[j] = "literal"),
           UNCHANGED <<case, out, inputs, value, phase, jobs>>
    PROVE  PlanInv'
<1>1. ListsOK' /\ PhaseOK'
  BY DEF ListsOK, PhaseOK
<1>2. Len(out) \in Nat /\ Len(inputs) \in Nat /\ i \in 1..(Len(out) + 1)
  BY LenProperties DEF ListsOK, ReadOK, AtPart
<1>3. FirstPassOK(part)'
  BY DEF ReadOK, FirstPassOK, LastIs, Gathering
<1>4. AtPart(part)'
  BY <1>2 DEF AtPart
<1>5. JobsOK(at)'
  <2>1. JobsOK(at) /\ Located(out, inputs, part, at)
    BY DEF ReadOK
  <2>2. ASSUME NEW k \in 1..Len(inputs)
        PROVE  at[k] < j <=> at[k] < i
    <3>1. at[k] \in 1..Len(out) /\ IsInput(part, at[k])
      BY <2>1 DEF Located
    <3>2. at[k] \notin i..(j - 1)
      BY <3>1
    <3> QED
      BY <3>1, <3>2, <1>2
  <2> QED
    BY <2>1, <2>2 DEF JobsOK
<1>6. ReadOK(part, at)'
  BY <1>3, <1>4, <1>5 DEF ReadOK
<1>7. part \in [1..Len(out) -> Parts] /\ at \in [1..Len(inputs) -> 1..Len(out)]
  BY DEF ReadOK, Reading, Located
<1> QED
  BY <1>1, <1>6, <1>7 DEF PlanInv

\* The argument the pass is at is what the pass takes it for.
LEMMA HereLemma ==
    ASSUME NEW part, NEW at, ReadOK(part, at), ListsOK, More
    PROVE  /\ i \in 1..Len(out) /\ Len(out) \in Nat
           /\ IsOption => part[i] \in {"dashes", "option"}
           /\ IsOption /\ Role[Arg] = "dashes" => part[i] = "dashes"
           /\ IsOption /\ Role[Arg] # "dashes" => part[i] = "option"
           /\ ~IsOption => IsInput(part, i)
           /\ literal <=> part[i] = "literal"
<1>1. i \in 1..Len(out) /\ Len(out) \in Nat
  BY LenProperties DEF ListsOK, ReadOK, AtPart, More
<1>2. part[i] # "value" /\ (literal <=> part[i] = "literal")
  BY <1>1 DEF ReadOK, AtPart
<1>3. /\ part[i] \in Parts
      /\ part[i] = "dashes" => Role[Arg] = "dashes"
      /\ part[i] = "option" => Role[Arg] \in OptionRoles
      /\ part[i] = "input" => Role[Arg] \in InputRoles
  BY <1>1 DEF ReadOK, Reading, Arg
<1> QED
  BY <1>1, <1>2, <1>3 DEF IsOption, IsInput, Parts, OptionRoles, InputRoles

\* The second pass meets the dashes where the first one did.
LEMMA DashesStep ==
    ASSUME PlanInv, Dashes
    PROVE  PlanInv'
<1>1. PICK part \in [1..Len(out) -> Parts] : \E at \in [1..Len(inputs) -> 1..Len(out)] : ReadOK(part, at)
  BY DEF PlanInv
<1>2. PICK at \in [1..Len(inputs) -> 1..Len(out)] : ReadOK(part, at)
  BY <1>1
<1>3. ListsOK /\ More /\ phase = "plan" /\ IsOption /\ Role[Arg] = "dashes"
  BY DEF PlanInv, Dashes, More, IsOption
<1>4. part[i] = "dashes" /\ i \in 1..Len(out) /\ Len(out) \in Nat
  BY <1>2, <1>3, HereLemma
<1>5. PICK j : j = i + 1
  OBVIOUS
<1>6. j \in (i + 1)..(Len(out) + 1) /\ i' = j
  BY <1>4, <1>5 DEF Dashes
<1>7. \A n \in i..(j - 1) : ~IsInput(part, n)
  BY <1>4, <1>5 DEF IsInput
<1>8. j <= Len(out) => part[j] # "value" /\ (literal' <=> part[j] = "literal")
  <2> SUFFICES ASSUME j <= Len(out)
               PROVE  part[j] = "literal" /\ literal' = TRUE
    OBVIOUS
  <2>1. j \in 1..Len(out) /\ j - 1 = i /\ j > 1
    BY <1>4, <1>5
  <2>2. Reading(out, part)
    BY <1>2 DEF ReadOK
  <2> QED
    BY <1>4, <2>1, <2>2 DEF Reading, Dashes
<1>9. UNCHANGED <<case, out, inputs, value, phase, jobs>>
  BY DEF Dashes, firstPass
<1> QED
  BY <1>2, <1>3, <1>6, <1>7, <1>8, <1>9, PassOver

\* An option, and its value where it has one.
LEMMA OptionSteps ==
    ASSUME PlanInv, Output \/ Option
    PROVE  PlanInv'
<1>1. PICK part \in [1..Len(out) -> Parts] : \E at \in [1..Len(inputs) -> 1..Len(out)] : ReadOK(part, at)
  BY DEF PlanInv
<1>2. PICK at \in [1..Len(inputs) -> 1..Len(out)] : ReadOK(part, at)
  BY <1>1
<1>3. ListsOK /\ More /\ phase = "plan" /\ IsOption /\ Role[Arg] # "dashes"
  BY DEF PlanInv, Output, Option, More
<1>4. part[i] = "option" /\ i \in 1..Len(out) /\ Len(out) \in Nat /\ ~literal
  BY <1>2, <1>3, HereLemma DEF IsOption
<1>5. TakesValue(Arg) => i < Len(out)
  <2>1. CASE Output
    BY <2>1 DEF Output
  <2>2. CASE Option
    <3>1. Role[Arg] = "base" => i # Len(out)
      BY <2>2 DEF Option, PendingOption
    <3> QED
      BY <2>2, <3>1, <1>4 DEF Option, TakesValue
  <2> QED
    BY <2>1, <2>2
<1>6. PICK j : j = i + (IF TakesValue(Arg) THEN 2 ELSE 1)
  OBVIOUS
<1>7. i' = j
  BY <1>6 DEF Output, Option, TakesValue
<1>8. j \in (i + 1)..(Len(out) + 1)
  BY <1>4, <1>5, <1>6
<1>9. Reading(out, part) /\ Arg = out[i]
  BY <1>2 DEF ReadOK, Arg
<1>10. i < Len(out) => /\ TakesValue(Arg) <=> part[i + 1] = "value"
                       /\ part[i + 1] # "literal"
  <2> SUFFICES ASSUME i < Len(out)
               PROVE  /\ TakesValue(Arg) <=> part[i + 1] = "value"
                      /\ part[i + 1] # "literal"
    OBVIOUS
  <2>1. i + 1 \in 1..Len(out) /\ (i + 1) - 1 = i /\ i + 1 > 1
    BY <1>4
  <2> QED
    BY <1>4, <1>9, <2>1 DEF Reading
<1>11. \A n \in i..(j - 1) : ~IsInput(part, n)
  BY <1>4, <1>5, <1>6, <1>10 DEF IsInput
<1>12. j <= Len(out) => part[j] # "value" /\ (literal' <=> part[j] = "literal")
  <2> SUFFICES ASSUME j <= Len(out)
               PROVE  part[j] # "value" /\ part[j] # "literal" /\ ~literal'
    OBVIOUS
  <2>1. ~literal'
    BY <1>4 DEF Output, Option
  <2>2. CASE TakesValue(Arg)
    <3>1. part[i + 1] = "value"
      BY <2>2, <1>5, <1>10
    <3>2. j \in 1..Len(out) /\ j - 1 = i + 1 /\ j > 1
      BY <1>4, <1>6, <2>2
    <3> QED
      BY <1>9, <2>1, <3>1, <3>2 DEF Reading
  <2>3. CASE ~TakesValue(Arg)
    BY <2>1, <2>3, <1>4, <1>6, <1>10
  <2> QED
    BY <2>2, <2>3
<1>13. UNCHANGED <<case, out, inputs, value, phase, jobs>>
  BY DEF Output, Option, firstPass
<1> QED
  BY <1>2, <1>3, <1>7, <1>8, <1>11, <1>12, <1>13, PassOver

\* The input the pass is at is the next one of the first pass.
LEMMA NextInput ==
    ASSUME NEW part, NEW at, ReadOK(part, at), ListsOK, More, ~IsOption
    PROVE  /\ Len(jobs) + 1 \in 1..Len(inputs)
           /\ at[Len(jobs) + 1] = i
           /\ inputs[Len(jobs) + 1] = Arg
<1>1. i \in 1..Len(out) /\ IsInput(part, i)
  BY HereLemma
<1>2. Located(out, inputs, part, at) /\ JobsOK(at)
  BY DEF ReadOK
<1>3. PICK k \in 1..Len(inputs) : at[k] = i
  BY <1>1, <1>2 DEF Located
<1>4. Len(jobs) \in 0..Len(inputs) /\ Len(inputs) \in Nat
  BY <1>2, LenProperties DEF JobsOK, ListsOK
<1>5. k > Len(jobs)
  BY <1>1, <1>2, <1>3, <1>4 DEF JobsOK
<1>6. k = Len(jobs) + 1
  <2> SUFFICES ASSUME k # Len(jobs) + 1
               PROVE  FALSE
    OBVIOUS
  <2>1. Len(jobs) + 1 \in 1..Len(inputs) /\ Len(jobs) + 1 < k
    BY <1>4, <1>5
  <2>2. at[Len(jobs) + 1] < i
    BY <1>2, <1>3, <2>1 DEF Located
  <2>3. Len(jobs) + 1 <= Len(jobs)
    BY <1>2, <2>1, <2>2 DEF JobsOK
  <2> QED
    BY <1>4, <2>3
<1>7. inputs[k] = out[at[k]]
  BY <1>2 DEF Located
<1> QED
  BY <1>3, <1>6, <1>7 DEF Arg

\* A list with one more member.
LEMMA LongerList ==
    ASSUME NEW s, s \in Seq({s[k] : k \in 1..Len(s)}), NEW x
    PROVE  LET t == Append(s, x) IN
           /\ t \in Seq({t[k] : k \in 1..Len(t)})
           /\ Len(s) \in Nat
           /\ Len(t) = Len(s) + 1
           /\ \A k \in 1..Len(s) : t[k] = s[k]
           /\ t[Len(s) + 1] = x
<1> DEFINE t == Append(s, x)
<1>1. PICK S : S = {s[k] : k \in 1..Len(s)} \cup {x}
  OBVIOUS
<1>2. s \in Seq(S)
  BY <1>1, SeqMonotonic
<1>3. x \in S
  BY <1>1
<1>4. /\ t \in Seq(S) /\ Len(t) = Len(s) + 1
      /\ \A k \in 1..Len(s) : t[k] = s[k]
      /\ t[Len(s) + 1] = x
  BY <1>2, <1>3, AppendProperties
<1>5. Len(s) \in Nat
  BY <1>2, LenProperties
<1> HIDE DEF t
<1>6. t \in [1..Len(t) -> S]
  BY <1>4, LenProperties
<1>7. t \in [1..Len(t) -> {t[k] : k \in 1..Len(t)}]
  BY <1>6
<1>8. t \in Seq({t[k] : k \in 1..Len(t)})
  <2>1. PICK T : T = {t[k] : k \in 1..Len(t)}
    OBVIOUS
  <2>2. PICK n \in Nat : n = Len(t)
    BY <1>4, <1>5
  <2>3. t \in [1..n -> T]
    BY <1>7, <2>1, <2>2
  <2>4. t \in Seq(T)
    BY <2>3, SeqDef
  <2> QED
    BY <2>1, <2>4
<1> QED
  BY <1>4, <1>5, <1>8 DEF t

\* The next job is the next input.
LEMMA InputStep ==
    ASSUME PlanInv, Input
    PROVE  PlanInv'
<1>1. PICK part \in [1..Len(out) -> Parts] : \E at \in [1..Len(inputs) -> 1..Len(out)] : ReadOK(part, at)
  BY DEF PlanInv
<1>2. PICK at \in [1..Len(inputs) -> 1..Len(out)] : ReadOK(part, at)
  BY <1>1
<1>3. ListsOK /\ More /\ phase = "plan" /\ ~IsOption
  BY DEF PlanInv, Input, More
<1>4. /\ i \in 1..Len(out) /\ Len(out) \in Nat /\ IsInput(part, i)
      /\ literal <=> part[i] = "literal"
  BY <1>2, <1>3, HereLemma
<1>5. /\ Len(jobs) + 1 \in 1..Len(inputs)
      /\ at[Len(jobs) + 1] = i
      /\ inputs[Len(jobs) + 1] = Arg
  BY <1>2, <1>3, NextInput
<1>6. ListsOK' /\ PhaseOK'
  BY <1>3 DEF ListsOK, PhaseOK, Input, firstPass
<1>7. UNCHANGED <<case, out, inputs, value, phase, literal>> /\ i' = i + 1
  BY DEF Input, firstPass
<1>8. FirstPassOK(part)'
  BY <1>2, <1>7 DEF ReadOK, FirstPassOK, LastIs, Gathering
<1>9. Reading(out, part)
  BY <1>2 DEF ReadOK
<1>10. AtPart(part)'
  <2>1. i' \in 1..(Len(out') + 1)
    BY <1>4, <1>7
  <2>2. ASSUME i' <= Len(out)
        PROVE  part[i'] # "value" /\ (literal <=> part[i'] = "literal")
    <3>1. i + 1 \in 1..Len(out) /\ (i + 1) - 1 = i /\ i + 1 > 1
      BY <2>2, <1>4, <1>7
    <3>2. part[i + 1] # "value" /\ (part[i] = "literal" <=> part[i + 1] = "literal")
      BY <1>4, <1>9, <3>1 DEF Reading, IsInput
    <3> QED
      BY <1>4, <1>7, <3>2
  <2> QED
    BY <2>1, <2>2, <1>7 DEF AtPart
<1>11. PICK x : jobs' = Append(jobs, x) /\ x.file = Arg
  BY DEF Input
<1>12. JobsOK(at) /\ Located(out, inputs, part, at)
  BY <1>2 DEF ReadOK
<1>13. /\ jobs' \in Seq({jobs'[k] : k \in 1..Len(jobs')})
       /\ Len(jobs) \in Nat
       /\ Len(jobs') = Len(jobs) + 1
       /\ \A k \in 1..Len(jobs) : jobs'[k] = jobs[k]
       /\ jobs'[Len(jobs) + 1].file = Arg
  <2>1. jobs \in Seq({jobs[k] : k \in 1..Len(jobs)})
    BY <1>12 DEF JobsOK
  <2> QED
    BY <1>11, <2>1, LongerList
<1>14. JobsOK(at)'
  <2>1. Len(jobs') \in 0..Len(inputs')
    BY <1>5, <1>7, <1>13
  <2>2. ASSUME NEW k \in 1..Len(inputs')
        PROVE  k <= Len(jobs') <=> at[k] < i'
    <3>1. k \in 1..Len(inputs) /\ at[k] \in 1..Len(out)
      BY <1>7, <1>12 DEF Located
    <3>2. k <= Len(jobs) <=> at[k] < i
      BY <3>1, <1>12 DEF JobsOK
    <3>3. k = Len(jobs) + 1 <=> at[k] = i
      <4>1. PICK m \in 1..Len(inputs) : m = Len(jobs) + 1 /\ at[m] = i
        BY <1>5
      <4>2. /\ k < m => at[k] < at[m]
            /\ m < k => at[m] < at[k]
        BY <3>1, <1>12 DEF Located
      <4> QED
        BY <3>1, <4>1, <4>2, <1>4
    <3> QED
      BY <3>1, <3>2, <3>3, <1>4, <1>7, <1>13
  <2>3. ASSUME NEW k \in 1..Len(jobs')
        PROVE  jobs'[k].file = inputs'[k]
    <3>1. CASE k \in 1..Len(jobs)
      BY <3>1, <1>7, <1>12, <1>13 DEF JobsOK
    <3>2. CASE k = Len(jobs) + 1
      BY <3>2, <1>5, <1>7, <1>13
    <3> QED
      BY <3>1, <3>2, <1>13
  <2> QED
    BY <1>13, <2>1, <2>2, <2>3 DEF JobsOK
<1>15. ReadOK(part, at)'
  BY <1>7, <1>8, <1>9, <1>10, <1>12, <1>14 DEF ReadOK
<1> QED
  BY <1>6, <1>7, <1>15 DEF PlanInv

----------------------------------------------------------------------------
(* The theorems *)

\* At first there is nothing to read.
LEMMA InitHolds ==
    ASSUME Init
    PROVE  PlanInv
<1>1. /\ out = <<>> /\ inputs = <<>> /\ jobs = <<>>
      /\ i = 1 /\ literal = FALSE /\ phase = "select" /\ value = ""
  BY DEF Init
<1>2. Len(out) = 0 /\ Len(inputs) = 0 /\ Len(jobs) = 0
  BY <1>1
<1>3. 1..Len(out) = {} /\ 1..Len(inputs) = {} /\ 1..Len(jobs) = {}
  BY <1>2
<1>4. ListsOK /\ PhaseOK
  <2>1. out \in Seq(Args) /\ inputs \in Seq(Args)
    BY <1>1, EmptySeq
  <2> QED
    BY <1>1, <2>1 DEF Init, ListsOK, PhaseOK
<1>5. PICK f : f = [n \in {} |-> "input"]
  OBVIOUS
<1>6. \A S : f \in [{} -> S]
  BY <1>5
<1>7. /\ f \in [1..Len(out) -> Parts]
      /\ f \in [1..Len(inputs) -> 1..Len(out)]
  BY <1>3, <1>6
<1>8. Reading(out, f) /\ Located(out, inputs, f, f)
  BY <1>3, <1>7 DEF Reading, Located
<1>9. FirstPassOK(f) /\ AtPart(f)
  <2>1. i = 1
    BY <1>1
  <2>2. i \in 1..(Len(out) + 1) /\ ~(i <= Len(out))
    BY <2>1, <1>2
  <2> QED
    BY <1>1, <2>2 DEF FirstPassOK, LastIs, Gathering, AtPart
<1>10. JobsOK(f)
  <2>1. jobs \in Seq({jobs[k] : k \in 1..Len(jobs)})
    BY <1>1, EmptySeq
  <2>2. Len(jobs) \in 0..Len(inputs)
    BY <1>2
  <2> QED
    BY <1>3, <2>1, <2>2 DEF JobsOK
<1>11. ReadOK(f, f)
  BY <1>8, <1>9, <1>10 DEF ReadOK
<1> QED
  BY <1>4, <1>7, <1>11 DEF PlanInv

\* Every step keeps the passes in agreement.
LEMMA NextKeepsInv ==
    ASSUME PlanInv, [Next]_vars
    PROVE  PlanInv'
<1>1. ASSUME NEW a \in case.typed
      PROVE  a \in Args
  BY PlanAssumption DEF PlanInv, ListsOK
<1>2. CASE UNCHANGED vars
  BY <1>2, Standing DEF vars
<1>3. ASSUME NEW a \in case.typed,
             KeepValue(a) \/ KeepOption(a) \/ KeepInput(a) \/ KeepRest(a)
      PROVE  PlanInv'
  BY <1>1, <1>3, FirstPassSteps
<1>4. ASSUME NEW a \in case.typed, Answer(a)
      PROVE  PlanInv'
  BY <1>4, Standing DEF Answer, Type, secondPass, Gathering
<1>5. ASSUME NEW a \in case.typed, Select(a)
      PROVE  PlanInv'
  <2>1. ~Waits(value) /\ ~Waits(value')
    BY <1>5 DEF Select, Waits
  <2> QED
    BY <1>5, <2>1, Standing DEF Select, Type, secondPass
<1>6. ASSUME NEW a \in case.typed, SelectPath(a)
      PROVE  PlanInv'
  <2>1. ~Waits(value) /\ ~Waits(value')
    BY <1>6 DEF SelectPath, Waits
  <2> QED
    BY <1>6, <2>1, Standing DEF SelectPath, Type, secondPass
<1>7. CASE Fail
  BY <1>7, Standing DEF Fail, firstPass, secondPass
<1>8. CASE EndOfArguments
  BY <1>8, Standing DEF EndOfArguments, firstPass, secondPass, Gathering
<1>9. CASE LoadConfig
  BY <1>9, Standing DEF LoadConfig, firstPass
<1>10. CASE Dashes
  BY <1>10, DashesStep
<1>11. CASE Output \/ Option
  BY <1>11, OptionSteps
<1>12. CASE Input
  BY <1>12, InputStep
<1>13. CASE EndOfPlan
  <2>1. phase' \in {"check", "failed"} /\ i > Len(out)
    BY <1>13 DEF EndOfPlan, Finished
  <2> QED
    BY <1>13, <2>1, Standing DEF EndOfPlan, firstPass, secondPass
<1>14. ASSUME NEW a \in case.typed, RejectSelector(a)
       PROVE  Fail
  BY <1>14 DEF RejectSelector
<1>15. LoadFails \/ ArgumentFails \/ CollisionFound => Fail
  BY DEF LoadFails, ArgumentFails, CollisionFound
<1>16. ASSUME CheckOutput \/ \E done \in SUBSET Kinds : RunJob(done)
       PROVE  PlanInv'
  BY <1>16, Standing DEF CheckOutput, RunJob, firstPass, secondPass
<1>17. CASE EndOfChecks
  <2>1. phase' = "planned" /\ i > Len(out)
    BY <1>17 DEF EndOfChecks, PlanInv, PhaseOK
  <2> QED
    BY <1>17, <2>1, Standing DEF EndOfChecks, firstPass, secondPass
<1> QED
  BY <1>2, <1>3, <1>4, <1>5, <1>6, <1>7, <1>8, <1>9, <1>10, <1>11, <1>12, <1>13, <1>14, <1>15,
     <1>16, <1>17 DEF Next

\* Between configArguments and plan, and while either of them runs: every argument
\* that is kept has one reading, and the jobs are the inputs that plan has passed.
THEOREM PlanInvariant == Spec => []PlanInv
<1>1. Init => PlanInv
  BY InitHolds
<1>2. PlanInv /\ [Next]_vars => PlanInv'
  BY NextKeepsInv
<1> QED
  BY <1>1, <1>2, PTL DEF Spec

\* The inputs of plan are those of configArguments, in the same order, whatever
\* the values of options, the dashes and the names of the arguments look like.
THEOREM PassesReadAlike == Spec => []PassesAgree
<1>1. ASSUME PlanInv
      PROVE  PassesAgree
  <2>1. PICK part \in [1..Len(out) -> Parts] : \E at \in [1..Len(inputs) -> 1..Len(out)] : ReadOK(part, at)
    BY <1>1 DEF PlanInv
  <2>2. PICK at \in [1..Len(inputs) -> 1..Len(out)] : ReadOK(part, at)
    BY <2>1
  <2>3. ListsOK /\ PhaseOK
    BY <1>1 DEF PlanInv
  <2>4. JobsOK(at) /\ Located(out, inputs, part, at)
    BY <2>2 DEF ReadOK
  <2>5. /\ Len(inputs) \in Nat /\ Len(jobs) \in 0..Len(inputs) /\ Len(out) \in Nat
        /\ Len(jobs) \in Nat
        /\ DOMAIN jobs = 1..Len(jobs)
    BY <2>3, <2>4, LenProperties DEF ListsOK, JobsOK
  <2>6. [k \in DOMAIN jobs |-> jobs[k].file] = SubSeq(inputs, 1, Len(jobs))
    <3>1. SubSeq(inputs, 1, Len(jobs)) = [k \in 1..Len(jobs) |-> inputs[k]]
      <4>1. PICK n \in Nat : n = Len(jobs)
        BY <2>5
      <4> QED
        BY <2>3, <2>5, <4>1 DEF ListsOK
    <3> QED
      BY <2>4, <2>5, <3>1 DEF JobsOK
  <2>7. ASSUME phase = "planned"
        PROVE  Len(jobs) = Len(inputs)
    <3>1. i > Len(out) /\ i \in 1..(Len(out) + 1)
      BY <2>2, <2>3, <2>7 DEF PhaseOK, ReadOK, AtPart
    <3> SUFFICES ASSUME Len(jobs) < Len(inputs)
                 PROVE  FALSE
      BY <2>5
    <3>2. Len(inputs) \in 1..Len(inputs)
      BY <2>5
    <3>3. at[Len(inputs)] \in 1..Len(out)
      BY <2>4, <3>2 DEF Located
    <3>4. at[Len(inputs)] < i
      BY <3>1, <3>3, <2>5
    <3> QED
      BY <2>4, <2>5, <3>2, <3>4 DEF JobsOK
  <2> QED
    BY <2>6, <2>7 DEF PassesAgree
<1> QED
  BY <1>1, PlanInvariant, PTL

----------------------------------------------------------------------------
(* Collisions *)

\* The outputs of the jobs, as plan lists them.
Files == [k \in 1..Len(jobs) |-> FilesOf(jobs[k])]

\* The outputs that Run may write are among those that plan lists, at places of their own.
Places(files, job, place) ==
    /\ place \in [Asked(job) -> 1..Len(files)]
    /\ \A kind \in Asked(job) : files[place[kind]] = Destination(job, kind)
    /\ \A kind, other \in Asked(job) : place[kind] = place[other] => kind = other

\* Two or three lists of one member, one behind the other.
LEMMA FewMembers ==
    ASSUME NEW a, NEW b, NEW c
    PROVE  /\ (<<a>> \o <<>>) \o <<>> = <<a>>
           /\ (<<a>> \o <<b>>) \o <<>> = <<a, b>>
           /\ (<<a>> \o <<>>) \o <<c>> = <<a, c>>
           /\ (<<a>> \o <<b>>) \o <<c>> = <<a, b, c>>
<1>1. PICK S : S = {a, b, c}
  OBVIOUS
<1>2. <<a>> \in Seq(S) /\ <<b>> \in Seq(S) /\ <<c>> \in Seq(S) /\ <<a, b>> \in Seq(S)
  BY <1>1
<1>3. <<a>> \o <<>> = <<a>> /\ <<a, b>> \o <<>> = <<a, b>>
  BY <1>2, ConcatEmptySeq
<1>4. <<a>> \o <<b>> = <<a, b>> /\ <<a>> \o <<c>> = <<a, c>>
  <2> SUFFICES ASSUME NEW x \in S
               PROVE  <<a>> \o <<x>> = <<a, x>>
    BY <1>1
  <2>1. <<a>> \in Seq(S) /\ <<x>> \in Seq(S) /\ <<a, x>> \in Seq(S)
    BY <1>1
  <2>2. /\ <<a>> \o <<x>> \in Seq(S) /\ Len(<<a>> \o <<x>>) = 2
        /\ (<<a>> \o <<x>>)[1] = a /\ (<<a>> \o <<x>>)[2] = x
    BY <2>1, ConcatProperties
  <2>3. \A n \in 1..2 : (<<a>> \o <<x>>)[n] = <<a, x>>[n]
    BY <2>2
  <2> QED
    BY <2>1, <2>2, <2>3, SeqEqual
<1>5. <<a, b>> \o <<c>> = <<a, b, c>>
  <2>1. <<a, b>> \in Seq(S) /\ <<c>> \in Seq(S) /\ <<a, b, c>> \in Seq(S)
    BY <1>1
  <2>2. /\ <<a, b>> \o <<c>> \in Seq(S) /\ Len(<<a, b>> \o <<c>>) = 3
        /\ (<<a, b>> \o <<c>>)[1] = a /\ (<<a, b>> \o <<c>>)[2] = b
        /\ (<<a, b>> \o <<c>>)[3] = c
    BY <2>1, ConcatProperties
  <2>3. \A n \in 1..3 : (<<a, b>> \o <<c>>)[n] = <<a, b, c>>[n]
    BY <2>2
  <2> QED
    BY <2>1, <2>2, <2>3, SeqEqual
<1> QED
  BY <1>3, <1>4, <1>5

\* So they are, although Run and plan make the names at two places of the code.
LEMMA FilesLemma ==
    ASSUME NEW job
    PROVE  /\ Len(FilesOf(job)) \in Nat \ {0}
           /\ \E place : Places(FilesOf(job), job, place)
<1>1. PICK a, b, c : /\ a = Destination(job, "gct")
                     /\ b = Destination(job, "text")
                     /\ c = Destination(job, "log")
  OBVIOUS
<1>2. FilesOf(job) = (<<a>> \o (IF job.flags.text THEN <<b>> ELSE <<>>))
                     \o (IF job.flags.log THEN <<c>> ELSE <<>>)
  BY <1>1, Zenon DEF FilesOf, Destination
<1>3. Asked(job) = {kind \in {"gct", "text", "log"} : kind = "gct" \/ job.flags[kind]}
  BY DEF Asked, Kinds
<1>4. CASE ~job.flags.text /\ ~job.flags.log
  <2>1. FilesOf(job) = <<a>> /\ Asked(job) = {"gct"}
    BY <1>2, <1>3, <1>4, FewMembers
  <2> DEFINE place == [kind \in {"gct"} |-> 1]
  <2>2. Places(<<a>>, job, place)
    BY <1>1, <2>1 DEF Places
  <2> QED
    BY <2>1, <2>2
<1>5. CASE job.flags.text /\ ~job.flags.log
  <2>1. FilesOf(job) = <<a, b>> /\ Asked(job) = {"gct", "text"}
    BY <1>2, <1>3, <1>5, FewMembers
  <2> DEFINE place == [kind \in {"gct", "text"} |-> IF kind = "gct" THEN 1 ELSE 2]
  <2>2. Places(<<a, b>>, job, place)
    BY <1>1, <2>1 DEF Places
  <2> QED
    BY <2>1, <2>2
<1>6. CASE ~job.flags.text /\ job.flags.log
  <2>1. FilesOf(job) = <<a, c>> /\ Asked(job) = {"gct", "log"}
    BY <1>2, <1>3, <1>6, FewMembers
  <2> DEFINE place == [kind \in {"gct", "log"} |-> IF kind = "gct" THEN 1 ELSE 2]
  <2>2. Places(<<a, c>>, job, place)
    BY <1>1, <2>1 DEF Places
  <2> QED
    BY <2>1, <2>2
<1>7. CASE job.flags.text /\ job.flags.log
  <2>1. FilesOf(job) = <<a, b, c>> /\ Asked(job) = {"gct", "text", "log"}
    BY <1>2, <1>3, <1>7, FewMembers
  <2> DEFINE place == [kind \in {"gct", "text", "log"} |->
                          IF kind = "gct" THEN 1 ELSE IF kind = "text" THEN 2 ELSE 3]
  <2>2. Places(<<a, b, c>>, job, place)
    BY <1>1, <2>1 DEF Places
  <2> QED
    BY <2>1, <2>2
<1> QED
  BY <1>4, <1>5, <1>6, <1>7

\* The loop over the outputs has been at output m of job k.
Passed(k, m) == k < which \/ (k = which /\ m < nth)

Clear(file) ==
    /\ path # NoConfig => file # path
    /\ \A k \in 1..Len(jobs) : file # Key[jobs[k].file]

\* The outputs that the loop has passed are destinations, no two of them are the same
\* file, and none of them is an input or the configuration.
ChecksOK ==
    /\ which \in Nat \ {0} /\ nth \in Nat \ {0}
    /\ which <= Len(jobs) => nth \in 1..Len(Files[which])
    /\ \A k \in 1..Len(jobs) : \A m \in 1..Len(Files[k]) :
           Passed(k, m) =>
               /\ Clear(Files[k][m])
               /\ Files[k][m] \in destinations
    /\ \A k, l \in 1..Len(jobs) : \A m \in 1..Len(Files[k]) : \A n \in 1..Len(Files[l]) :
           Passed(k, m) /\ Passed(l, n) /\ Files[k][m] = Files[l][n] => k = l /\ m = n

\* That is so of all outputs.
Apart ==
    /\ \A k \in 1..Len(jobs) : \A m \in 1..Len(Files[k]) : Clear(Files[k][m])
    /\ \A k, l \in 1..Len(jobs) : \A m \in 1..Len(Files[k]) : \A n \in 1..Len(Files[l]) :
           Files[k][m] = Files[l][n] => k = l /\ m = n

\* Run has written outputs that its jobs ask for.
WrittenOK ==
    \A w \in written :
        /\ w.job \in 1..Len(jobs)
        /\ w.kind \in Asked(jobs[w.job])
        /\ w = [job |-> w.job, kind |-> w.kind, file |-> Destination(jobs[w.job], w.kind)]

CollisionInv ==
    /\ phase \in {"select", "rest", "load", "plan"} => which = 1 /\ nth = 1
    /\ phase # "planned" => written = {}
    /\ phase = "check" => ChecksOK
    /\ phase = "planned" => which \in Nat \ {0} /\ Apart /\ WrittenOK

\* The jobs are a list.
LEMMA JobsAreList ==
    ASSUME PlanInv
    PROVE  DOMAIN jobs = 1..Len(jobs) /\ Len(jobs) \in Nat
<1>1. PICK part \in [1..Len(out) -> Parts] : \E at \in [1..Len(inputs) -> 1..Len(out)] : ReadOK(part, at)
  BY DEF PlanInv
<1>2. PICK at \in [1..Len(inputs) -> 1..Len(out)] : ReadOK(part, at)
  BY <1>1
<1>3. jobs \in Seq({jobs[k] : k \in 1..Len(jobs)})
  BY <1>2 DEF ReadOK, JobsOK
<1> QED
  BY <1>3, LenProperties

\* What is said of the outputs stays true while the jobs stay the same.
LEMMA SameFiles ==
    ASSUME UNCHANGED <<jobs, output, path>>
    PROVE  /\ Files' = Files
           /\ Apart => Apart'
           /\ UNCHANGED written /\ WrittenOK => WrittenOK'
<1>1. Files' = Files
  BY DEF Files, FilesOf
<1>2. Apart => Apart'
  BY <1>1 DEF Apart, Clear
<1>3. UNCHANGED written /\ WrittenOK => WrittenOK'
  BY DEF WrittenOK, Asked, Destination
<1> QED
  BY <1>1, <1>2, <1>3

\* At the start of the loop over the outputs none has been passed.
LEMMA ChecksBegin ==
    ASSUME PlanInv, CollisionInv, EndOfPlan
    PROVE  CollisionInv'
<1>1. which = 1 /\ nth = 1 /\ written = {} /\ UNCHANGED <<jobs, which, nth, written>>
  BY DEF CollisionInv, EndOfPlan, Finished, lastLoops, secondPass
<1>2. phase' \in {"check", "failed"}
  BY DEF EndOfPlan
<1>3. ASSUME NEW k \in Nat, NEW m \in Nat, k >= 1, m >= 1
      PROVE  ~(k < which' \/ (k = which' /\ m < nth'))
  BY <1>1, <1>3
<1>4. which' <= Len(jobs') => nth' \in 1..Len(Files'[which'])
  <2> SUFFICES ASSUME 1 <= Len(jobs')
               PROVE  1 \in 1..Len(Files'[1])
    BY <1>1
  <2>1. Len(jobs') \in Nat
    BY <1>1, JobsAreList
  <2>2. 1 \in 1..Len(jobs')
    BY <2>1
  <2>3. Files'[1] = FilesOf(jobs[1])'
    BY <2>2 DEF Files
  <2>4. (Len(FilesOf(jobs[1])) \in Nat \ {0})'
    <3>1. Len(FilesOf(jobs[1])) \in Nat \ {0}
      BY FilesLemma
    <3>2. FilesOf(jobs[1])' = FilesOf(jobs[1])
      BY DEF EndOfPlan, secondPass, FilesOf
    <3> QED
      BY <3>1, <3>2
  <2> QED
    BY <2>3, <2>4
<1>5. ChecksOK'
  <2>1. \A k \in 1..Len(jobs') : \A m \in 1..Len(Files'[k]) : ~Passed(k, m)'
    BY <1>3 DEF Passed
  <2> QED
    BY <1>1, <1>4, <2>1 DEF ChecksOK
<1> QED
  BY <1>1, <1>2, <1>5 DEF CollisionInv

\* One more output has been passed: it collided with none of those before it.
LEMMA ChecksGoOn ==
    ASSUME PlanInv, CollisionInv, CheckOutput
    PROVE  CollisionInv'
<1>1. ChecksOK /\ phase = "check" /\ phase' = "check" /\ written = {} /\ UNCHANGED written
  BY DEF CollisionInv, CheckOutput, Checking
<1>2. UNCHANGED <<jobs, output, path>>
  BY DEF CheckOutput, firstPass, secondPass
<1>3. Files' = Files
  BY <1>2, SameFiles
<1>4. /\ which \in 1..Len(jobs) /\ nth \in 1..Len(Files[which])
      /\ Len(jobs) \in Nat /\ DOMAIN jobs = 1..Len(jobs)
      /\ Files[which] = FilesOf(jobs[which])
  BY <1>1, JobsAreList DEF ChecksOK, CheckOutput, Checking, Files
<1>5. \A k \in 1..Len(jobs) : Len(Files[k]) \in Nat \ {0}
  BY FilesLemma DEF Files
<1>6. PICK new : new = Files[which][nth]
  OBVIOUS
<1>7. Clear(new) /\ new \notin destinations /\ destinations' = destinations \cup {new}
  BY <1>4, <1>6 DEF CheckOutput, Checked, Collides, Clear
<1>8. \/ nth = Len(Files[which]) /\ nth' = 1 /\ which' = which + 1
      \/ nth < Len(Files[which]) /\ nth' = nth + 1 /\ which' = which
  BY <1>4, <1>5 DEF CheckOutput
<1>9. /\ which' \in Nat \ {0} /\ nth' \in Nat \ {0}
      /\ which' <= Len(jobs) => nth' \in 1..Len(Files[which'])
  BY <1>4, <1>5, <1>8
<1>10. ASSUME NEW k \in 1..Len(jobs), NEW m \in 1..Len(Files[k])
       PROVE  Passed(k, m)' <=> Passed(k, m) \/ (k = which /\ m = nth)
  BY <1>4, <1>5, <1>8 DEF Passed
<1>11. ASSUME NEW k \in 1..Len(jobs), NEW m \in 1..Len(Files[k]), Passed(k, m)'
       PROVE  /\ Clear(Files[k][m])
              /\ Files[k][m] \in destinations'
              /\ Passed(k, m) => Files[k][m] \in destinations
  BY <1>1, <1>6, <1>7, <1>10, <1>11 DEF ChecksOK
<1>12. ASSUME NEW k \in 1..Len(jobs), NEW m \in 1..Len(Files[k]), Passed(k, m)',
              NEW l \in 1..Len(jobs), NEW n \in 1..Len(Files[l]), Passed(l, n)',
              Files[k][m] = Files[l][n]
       PROVE  k = l /\ m = n
  <2>1. CASE Passed(k, m) /\ Passed(l, n)
    BY <1>1, <1>12, <2>1 DEF ChecksOK
  <2>2. CASE ~Passed(k, m)
    <3>1. k = which /\ m = nth /\ Files[k][m] = new
      BY <1>6, <1>10, <1>12, <2>2
    <3>2. ~Passed(l, n)
      BY <1>7, <1>11, <1>12, <3>1
    <3> QED
      BY <1>10, <1>12, <3>1, <3>2
  <2>3. CASE ~Passed(l, n)
    <3>1. l = which /\ n = nth /\ Files[l][n] = new
      BY <1>6, <1>10, <1>12, <2>3
    <3>2. ~Passed(k, m)
      BY <1>7, <1>11, <1>12, <3>1
    <3> QED
      BY <1>10, <1>12, <3>1, <3>2
  <2> QED
    BY <2>1, <2>2, <2>3
<1>13. \A file : Clear(file)' <=> Clear(file)
  BY <1>2 DEF Clear
<1>14. jobs' = jobs
  BY <1>2
<1>15. ChecksOK'
  BY <1>3, <1>9, <1>11, <1>12, <1>13, <1>14 DEF ChecksOK
<1> QED
  BY <1>1, <1>15 DEF CollisionInv

\* At the end of the loop all outputs have been passed.
LEMMA ChecksEnd ==
    ASSUME PlanInv, CollisionInv, EndOfChecks
    PROVE  CollisionInv'
<1>1. ChecksOK /\ phase' = "planned" /\ which' = 1 /\ written' = {} /\ which > Len(jobs)
  BY DEF CollisionInv, EndOfChecks
<1>2. Len(jobs) \in Nat /\ which \in Nat
  BY <1>1, JobsAreList DEF ChecksOK
<1>3. \A k \in 1..Len(jobs) : \A m : Passed(k, m)
  BY <1>1, <1>2 DEF Passed
<1>4. Apart
  BY <1>1, <1>3 DEF ChecksOK, Apart
<1>5. UNCHANGED <<jobs, output, path>>
  BY DEF EndOfChecks, firstPass, secondPass
<1>6. Apart'
  BY <1>4, <1>5, SameFiles
<1>7. WrittenOK'
  BY <1>1 DEF WrittenOK
<1> QED
  BY <1>1, <1>6, <1>7 DEF CollisionInv

\* Run writes what the job asks for.
LEMMA RunWrites ==
    ASSUME PlanInv, CollisionInv, NEW done \in SUBSET Kinds, RunJob(done)
    PROVE  CollisionInv'
<1>1. /\ phase = "planned" /\ phase' = "planned" /\ UNCHANGED <<jobs, output, path>>
      /\ Apart /\ WrittenOK /\ which \in Nat \ {0} /\ which' = which + 1
  BY DEF CollisionInv, RunJob, firstPass, secondPass
<1>2. which \in 1..Len(jobs)
  BY <1>1, JobsAreList DEF RunJob
<1>3. Apart'
  BY <1>1, SameFiles
<1>4. \A kind \in done : kind \in Asked(jobs[which])
  BY DEF RunJob
<1>5. ASSUME NEW w \in written'
      PROVE  /\ w.job \in 1..Len(jobs)
             /\ w.kind \in Asked(jobs[w.job])
             /\ w = [job |-> w.job, kind |-> w.kind, file |-> Destination(jobs[w.job], w.kind)]
  <2>1. CASE w \in written
    BY <1>1, <2>1 DEF WrittenOK
  <2>2. CASE \E kind \in done :
                 w = [job |-> which, kind |-> kind, file |-> Destination(jobs[which], kind)]
    <3>1. PICK kind \in done :
              w = [job |-> which, kind |-> kind, file |-> Destination(jobs[which], kind)]
      BY <2>2
    <3>2. w.job = which /\ w.kind = kind
      BY <3>1
    <3> QED
      BY <1>2, <1>4, <3>1, <3>2
  <2>3. written' = written \cup
            {[job |-> which, kind |-> kind, file |-> Destination(jobs[which], kind)] : kind \in done}
    BY Zenon DEF RunJob
  <2> QED
    BY <2>1, <2>2, <2>3
<1>6. \A job, kind : /\ Asked(job)' = Asked(job)
                     /\ Destination(job, kind)' = Destination(job, kind)
  BY <1>1 DEF Asked, Destination
<1>7. WrittenOK'
  BY <1>1, <1>5, <1>6 DEF WrittenOK
<1> QED
  BY <1>1, <1>3, <1>7 DEF CollisionInv

\* Every step keeps what is said of the loops over the jobs.
LEMMA NextKeepsApart ==
    ASSUME PlanInv, CollisionInv, [Next]_vars
    PROVE  CollisionInv'
<1>1. CASE /\ phase' \in {"select", "rest", "load", "plan", "failed", "answered"}
           /\ phase \in {"select", "rest", "load", "plan"} /\ UNCHANGED lastLoops
  BY <1>1 DEF CollisionInv, lastLoops
<1>2. CASE UNCHANGED vars
  <2>1. UNCHANGED <<phase, jobs, output, path, which, nth, destinations, written>>
    BY <1>2 DEF vars
  <2>2. ChecksOK => ChecksOK'
    <3>1. Files' = Files
      BY <2>1, SameFiles
    <3>2. \A k, m : Passed(k, m)' <=> Passed(k, m)
      BY <2>1 DEF Passed
    <3>3. \A file : Clear(file)' <=> Clear(file)
      BY <2>1 DEF Clear
    <3> QED
      BY <2>1, <3>1, <3>2, <3>3 DEF ChecksOK
  <2>3. Apart /\ WrittenOK => Apart' /\ WrittenOK'
    BY <2>1, SameFiles
  <2> QED
    BY <2>1, <2>2, <2>3 DEF CollisionInv
<1>3. CASE \E a \in case.typed : \/ KeepValue(a) \/ KeepOption(a) \/ KeepInput(a) \/ Answer(a)
                                 \/ Select(a) \/ SelectPath(a) \/ RejectSelector(a) \/ KeepRest(a)
  BY <1>1, <1>3 DEF KeepValue, KeepOption, KeepInput, Answer, Select, SelectPath,
     RejectSelector, KeepRest, Type, Fail
<1>4. CASE EndOfArguments \/ LoadConfig \/ LoadFails
  BY <1>1, <1>4 DEF EndOfArguments, LoadConfig, LoadFails, Fail
<1>5. CASE Dashes \/ Output \/ Option \/ Input \/ ArgumentFails
  BY <1>1, <1>5 DEF Dashes, Output, Option, Input, ArgumentFails, More, Fail
<1>6. CASE CollisionFound
  BY <1>6 DEF CollisionInv, CollisionFound, Checking, Fail, lastLoops
<1> QED
  BY <1>2, <1>3, <1>4, <1>5, <1>6, ChecksBegin, ChecksGoOn, ChecksEnd, RunWrites DEF Next

\* Although plan checks one output after the other against those before it, and Run
\* makes the names again: whichever jobs succeed, no file that Run writes is an input
\* of a job, done or to come, the configuration, or written for two jobs or kinds.
THEOREM RunOverwritesNothing == Spec => []NothingIsOverwritten
<1>1. Init => CollisionInv
  BY DEF Init, CollisionInv
<1>2. PlanInv /\ CollisionInv /\ [Next]_vars => CollisionInv'
  BY NextKeepsApart
<1>3. ASSUME PlanInv, CollisionInv
      PROVE  NothingIsOverwritten
  <2>1. CASE phase # "planned"
    BY <1>3, <2>1 DEF CollisionInv, NothingIsOverwritten
  <2>2. CASE phase = "planned"
    <3>1. Apart /\ WrittenOK
      BY <1>3, <2>2 DEF CollisionInv
    <3>2. DOMAIN jobs = 1..Len(jobs)
      BY <1>3, JobsAreList
    <3>3. ASSUME NEW k \in 1..Len(jobs)
          PROVE  \E place : Places(Files[k], jobs[k], place)
      BY FilesLemma DEF Files
    <3>4. ASSUME NEW w \in written
          PROVE  Clear(w.file)
      <4>1. w.job \in 1..Len(jobs) /\ w.kind \in Asked(jobs[w.job])
            /\ w.file = Destination(jobs[w.job], w.kind)
        BY <3>1 DEF WrittenOK
      <4>2. \E m \in 1..Len(Files[w.job]) : Files[w.job][m] = w.file
        BY <3>3, <4>1 DEF Places
      <4> QED
        BY <3>1, <4>1, <4>2 DEF Apart
    <3>5. ASSUME NEW v \in written, NEW w \in written, v.file = w.file
          PROVE  v = w
      <4>1. /\ v.job \in 1..Len(jobs) /\ v.kind \in Asked(jobs[v.job])
            /\ v.file = Destination(jobs[v.job], v.kind)
            /\ v = [job |-> v.job, kind |-> v.kind, file |-> v.file]
        BY <3>1 DEF WrittenOK
      <4>2. /\ w.job \in 1..Len(jobs) /\ w.kind \in Asked(jobs[w.job])
            /\ w.file = Destination(jobs[w.job], w.kind)
            /\ w = [job |-> w.job, kind |-> w.kind, file |-> w.file]
        BY <3>1 DEF WrittenOK
      <4>3. PICK p : Places(Files[v.job], jobs[v.job], p)
        BY <3>3, <4>1
      <4>4. PICK q : Places(Files[w.job], jobs[w.job], q)
        BY <3>3, <4>2
      <4>5. /\ p[v.kind] \in 1..Len(Files[v.job]) /\ Files[v.job][p[v.kind]] = v.file
            /\ q[w.kind] \in 1..Len(Files[w.job]) /\ Files[w.job][q[w.kind]] = w.file
        BY <4>1, <4>2, <4>3, <4>4 DEF Places
      <4>6. v.job = w.job /\ p[v.kind] = q[w.kind]
        BY <3>1, <3>5, <4>1, <4>2, <4>5 DEF Apart
      <4>7. w.kind \in Asked(jobs[v.job]) /\ Files[v.job][p[w.kind]] = w.file
            /\ p[w.kind] \in 1..Len(Files[v.job])
        BY <4>2, <4>3, <4>6 DEF Places
      <4>8. p[v.kind] = p[w.kind]
        BY <3>1, <3>5, <4>1, <4>5, <4>7 DEF Apart
      <4>9. v.kind = w.kind
        BY <4>1, <4>3, <4>7, <4>8 DEF Places
      <4> QED
        BY <3>5, <4>1, <4>2, <4>6, <4>9
    <3> QED
      BY <3>2, <3>4, <3>5 DEF NothingIsOverwritten, Clear
  <2> QED
    BY <2>1, <2>2
<1> QED
  BY <1>1, <1>2, <1>3, PlanInvariant, PTL DEF Spec

----------------------------------------------------------------------------
(* Lists of options *)

IsList(o) == Len(o) \in Nat /\ DOMAIN o = 1..Len(o)

\* f[k] is what the first k options make of the flags.
Applies(f, flags, options) ==
    f = [k \in 0..Len(options) |-> IF k = 0 THEN flags ELSE Apply(f[k - 1], options[k])]

\* There is such a function for every list.
LEMMA AppliesExists ==
    ASSUME NEW flags, NEW options, Len(options) \in Nat
    PROVE  \E f : Applies(f, flags, options)
<1> DEFINE To(n, f) == f = [k \in 0..n |-> IF k = 0 THEN flags ELSE Apply(f[k - 1], options[k])]
           T == {n \in Nat : \E f : To(n, f)}
<1>1. ASSUME NEW n \in Nat, NEW f, To(n, f)
      PROVE  n + 1 \in T
  <2> DEFINE g == [k \in 0..(n + 1) |-> IF k = n + 1 THEN Apply(f[n], options[n + 1]) ELSE f[k]]
  <2>1. ASSUME NEW k \in 0..(n + 1)
        PROVE  g[k] = IF k = 0 THEN flags ELSE Apply(g[k - 1], options[k])
    <3>1. CASE k = n + 1
      <4>1. k # 0 /\ k - 1 = n /\ n \in 0..(n + 1) /\ n # n + 1
        BY <3>1
      <4>2. g[k] = Apply(f[n], options[n + 1]) /\ g[n] = f[n]
        BY <3>1, <4>1
      <4> HIDE DEF g
      <4> QED
        BY <3>1, <4>1, <4>2
    <3>2. CASE k = 0
      <4>1. k \in 0..n /\ k # n + 1
        BY <3>2
      <4>2. g[k] = f[k] /\ f[k] = flags
        BY <1>1, <3>2, <4>1
      <4> HIDE DEF g
      <4> QED
        BY <3>2, <4>2
    <3>3. CASE k \in 1..n
      <4>1. k \in 0..n /\ k # 0 /\ k # n + 1 /\ k - 1 \in 0..(n + 1) /\ k - 1 # n + 1
        BY <3>3
      <4>2. g[k] = f[k] /\ g[k - 1] = f[k - 1]
        BY <4>1
      <4>3. f[k] = Apply(f[k - 1], options[k])
        BY <1>1, <4>1
      <4> HIDE DEF g
      <4> QED
        BY <4>1, <4>2, <4>3
    <3> QED
      BY <3>1, <3>2, <3>3
  <2>2. g = [k \in 0..(n + 1) |-> g[k]]
    OBVIOUS
  <2> HIDE DEF g
  <2>3. To(n + 1, g)
    BY <2>1, <2>2
  <2> HIDE DEF To
  <2> QED
    BY <2>3
<1>2. \E f : To(0, f)
  <2> DEFINE f == [k \in 0..0 |-> flags]
  <2>1. To(0, f)
    OBVIOUS
  <2> HIDE DEF To, f
  <2> QED
    BY <2>1
<1>3. CASE Len(options) = 0
  BY <1>2, <1>3 DEF Applies
<1>4. CASE Len(options) > 0
  <2>1. 1 \in T
    <3>1. PICK f : To(0, f)
      BY <1>2
    <3> HIDE DEF To, T
    <3> QED
      BY <1>1, <3>1
  <2>2. ASSUME NEW n \in 1..(Len(options) - 1), n \in T
        PROVE  n + 1 \in T
    <3>1. PICK f : To(n, f)
      BY <2>2
    <3>2. n \in Nat
      OBVIOUS
    <3> HIDE DEF To, T
    <3> QED
      BY <1>1, <3>1, <3>2
  <2> HIDE DEF T
  <2>3. \A n \in 1..Len(options) : n \in T
    BY <2>1, <2>2, UpTo
  <2>4. Len(options) \in T
    BY <1>4, <2>3
  <2> QED
    BY <2>4 DEF T, Applies
<1> QED
  BY <1>3, <1>4

\* ApplyAll is the last value of that function.
LEMMA ApplyAllIs ==
    ASSUME NEW flags, NEW options, Len(options) \in Nat
    PROVE  \E f : Applies(f, flags, options) /\ ApplyAll(flags, options) = f[Len(options)]
<1> DEFINE f == CHOOSE g : g = [k \in 0..Len(options) |->
                                   IF k = 0 THEN flags ELSE Apply(g[k - 1], options[k])]
<1>1. ApplyAll(flags, options) = f[Len(options)]
  BY DEF ApplyAll
<1>2. Applies(f, flags, options)
  BY AppliesExists DEF Applies
<1> QED
  BY <1>1, <1>2

\* Option m is the last one of the first n that assigns s.
LastOf(options, s, n, m) ==
    /\ m \in 1..n /\ s \in DOMAIN options[m]
    /\ \A k \in 1..n : k > m => s \notin DOMAIN options[k]

NoneOf(options, s, n) == \A k \in 1..n : s \notin DOMAIN options[k]

\* The first n options make of setting s what the last of them that assigns it says.
Decided(f, flags, options, s, n) ==
    \/ NoneOf(options, s, n) /\ f[n][s] = flags[s]
    \/ \E m \in 1..n : LastOf(options, s, n, m) /\ f[n][s] = options[m][s]

\* That holds for all of them.
LEMMA DecidedLemma ==
    ASSUME NEW f, NEW flags, NEW options, Len(options) \in Nat, Applies(f, flags, options),
           NEW s \in Settings
    PROVE  Decided(f, flags, options, s, Len(options))
<1>1. f[0] = flags
  BY DEF Applies
<1>2. ASSUME NEW n \in Nat, n + 1 \in 1..Len(options)
      PROVE  f[n + 1][s] = IF s \in DOMAIN options[n + 1] THEN options[n + 1][s] ELSE f[n][s]
  <2>1. n + 1 \in 0..Len(options) /\ n + 1 # 0 /\ (n + 1) - 1 = n
    BY <1>2
  <2>2. f[n + 1] = Apply(f[n], options[n + 1])
    BY <2>1 DEF Applies
  <2> QED
    BY <2>2 DEF Apply
<1>3. Decided(f, flags, options, s, 0)
  BY <1>1 DEF Decided, NoneOf
<1>4. ASSUME NEW n \in Nat, n + 1 \in 1..Len(options), Decided(f, flags, options, s, n)
      PROVE  Decided(f, flags, options, s, n + 1)
  <2>1. CASE s \in DOMAIN options[n + 1]
    <3>1. LastOf(options, s, n + 1, n + 1)
      BY <2>1 DEF LastOf
    <3>2. n + 1 \in 1..(n + 1) /\ f[n + 1][s] = options[n + 1][s]
      BY <1>2, <1>4, <2>1
    <3> QED
      BY <3>1, <3>2 DEF Decided
  <2>2. CASE s \notin DOMAIN options[n + 1]
    <3>1. f[n + 1][s] = f[n][s]
      BY <1>2, <1>4, <2>2
    <3>2. CASE NoneOf(options, s, n) /\ f[n][s] = flags[s]
      <4>1. NoneOf(options, s, n + 1)
        BY <2>2, <3>2 DEF NoneOf
      <4> QED
        BY <3>1, <3>2, <4>1 DEF Decided
    <3>3. CASE \E m \in 1..n : LastOf(options, s, n, m) /\ f[n][s] = options[m][s]
      <4>1. PICK m \in 1..n : LastOf(options, s, n, m) /\ f[n][s] = options[m][s]
        BY <3>3
      <4>2. m \in 1..(n + 1) /\ LastOf(options, s, n + 1, m)
        BY <2>2, <4>1 DEF LastOf
      <4> QED
        BY <3>1, <4>1, <4>2 DEF Decided
    <3> QED
      BY <1>4, <3>2, <3>3 DEF Decided
  <2> QED
    BY <2>1, <2>2
<1> DEFINE T == {n \in Nat : Decided(f, flags, options, s, n)}
<1>5. Len(options) > 0 => 1 \in T
  <2> SUFFICES ASSUME Len(options) > 0
               PROVE  Decided(f, flags, options, s, 1)
    OBVIOUS
  <2>1. 0 \in Nat /\ 0 + 1 \in 1..Len(options) /\ 0 + 1 = 1
    OBVIOUS
  <2>2. Decided(f, flags, options, s, 0 + 1)
    BY <1>3, <1>4, <2>1
  <2> QED
    BY <2>1, <2>2
<1>6. ASSUME NEW n \in 1..(Len(options) - 1), n \in T
      PROVE  n + 1 \in T
  <2>1. n \in Nat /\ n + 1 \in Nat /\ n + 1 \in 1..Len(options) /\ Decided(f, flags, options, s, n)
    BY <1>6
  <2>2. Decided(f, flags, options, s, n + 1)
    BY <1>4, <2>1
  <2> QED
    BY <2>1, <2>2
<1> HIDE DEF T
<1>7. \A n \in 1..Len(options) : n \in T
  BY <1>5, <1>6, UpTo
<1>8. CASE Len(options) = 0
  BY <1>3, <1>8
<1>9. CASE Len(options) > 0
  <2>1. Len(options) \in T
    BY <1>7, <1>9
  <2> QED
    BY <2>1 DEF T
<1> QED
  BY <1>8, <1>9

\* Given is the value that the last option says, if one assigns the setting.
LEMMA GivenLemma ==
    ASSUME NEW options, IsList(options), NEW s, NEW x
    PROVE  /\ NoneOf(options, s, Len(options)) => Given(options, s, x) = x
           /\ \A m : LastOf(options, s, Len(options), m) => Given(options, s, x) = options[m][s]
<1>1. PICK assigning : assigning = {k \in DOMAIN options : s \in DOMAIN options[k]}
  OBVIOUS
<1>2. PICK n : n = Len(options) /\ n \in Nat /\ DOMAIN options = 1..n
  BY DEF IsList
<1>3. Given(options, s, x) =
          IF assigning = {} THEN x
          ELSE options[CHOOSE k \in assigning : \A l \in assigning : l <= k][s]
  BY <1>1 DEF Given
<1>4. ASSUME NoneOf(options, s, n)
      PROVE  Given(options, s, x) = x
  <2>1. assigning = {}
    BY <1>1, <1>2, <1>4 DEF NoneOf
  <2> QED
    BY <1>3, <2>1
<1>5. ASSUME NEW m, LastOf(options, s, n, m)
      PROVE  Given(options, s, x) = options[m][s]
  <2>1. m \in assigning /\ \A l \in assigning : l <= m
    BY <1>1, <1>2, <1>5 DEF LastOf
  <2>2. assigning \subseteq 1..n
    BY <1>1, <1>2
  <2>3. PICK k : k = CHOOSE j \in assigning : \A l \in assigning : l <= j
    OBVIOUS
  <2>4. k \in assigning /\ \A l \in assigning : l <= k
    BY <2>1, <2>3
  <2>5. k = m
    BY <2>1, <2>2, <2>4
  <2>6. assigning # {}
    BY <2>1
  <2> QED
    BY <1>3, <2>3, <2>5, <2>6
<1> QED
  BY <1>2, <1>4, <1>5

\* Applying options in order gives every setting the last value that they give it.
LEMMA ApplyAllLemma ==
    ASSUME NEW flags, NEW options, IsList(options), NEW s \in Settings
    PROVE  ApplyAll(flags, options)[s] = Given(options, s, flags[s])
<1>1. Len(options) \in Nat
  BY DEF IsList
<1>2. PICK f : Applies(f, flags, options) /\ ApplyAll(flags, options) = f[Len(options)]
  BY <1>1, ApplyAllIs
<1>3. Decided(f, flags, options, s, Len(options))
  BY <1>1, <1>2, DecidedLemma
<1>4. CASE NoneOf(options, s, Len(options)) /\ f[Len(options)][s] = flags[s]
  <2>1. Given(options, s, flags[s]) = flags[s]
    BY <1>4, GivenLemma
  <2> QED
    BY <1>2, <1>4, <2>1
<1>5. ASSUME NEW m, LastOf(options, s, Len(options), m), f[Len(options)][s] = options[m][s]
      PROVE  ApplyAll(flags, options)[s] = Given(options, s, flags[s])
  <2>1. Given(options, s, flags[s]) = options[m][s]
    BY <1>5, GivenLemma
  <2> QED
    BY <1>2, <1>5, <2>1
<1> QED
  BY <1>3, <1>4, <1>5 DEF Decided

\* The options of a list that take effect before the INI line is looked up; the
\* others are passed over.
EarlyOnes(options) ==
    [k \in DOMAIN options |-> IF Early(options[k]) THEN options[k] ELSE Nothing]

\* These say the same of the settings that decide about the line, and nothing of
\* a setting that the list does not assign.
LEMMA EarlyLemma ==
    ASSUME NEW options, IsList(options), NEW s, NEW x
    PROVE  /\ IsList(EarlyOnes(options))
           /\ s \in {"ignore", "exactINI"} =>
                  Given(EarlyOnes(options), s, x) = Given(options, s, x)
           /\ NoneOf(options, s, Len(options)) => Given(EarlyOnes(options), s, x) = x
<1>1. PICK n \in Nat : n = Len(options) /\ DOMAIN options = 1..n
  BY DEF IsList
<1>2. PICK e : e = EarlyOnes(options)
  OBVIOUS
<1>3. /\ e = [k \in 1..n |-> e[k]]
      /\ \A k \in 1..n : e[k] = IF Early(options[k]) THEN options[k] ELSE Nothing
  BY <1>1, <1>2 DEF EarlyOnes
<1>4. Len(e) = n /\ DOMAIN e = 1..n
  <2>1. DOMAIN e = 1..n
    BY <1>3
  <2>2. e \in [1..n -> {e[k] : k \in 1..n}]
    BY <1>3
  <2>3. e \in Seq({e[k] : k \in 1..n})
    <3>1. PICK S : S = {e[k] : k \in 1..n}
      OBVIOUS
    <3>2. e \in [1..n -> S]
      BY <2>2, <3>1
    <3>3. e \in Seq(S)
      BY <3>2, SeqDef
    <3> QED
      BY <3>1, <3>3
  <2> QED
    BY <2>1, <2>3, LenProperties
<1>5. IsList(e)
  BY <1>4 DEF IsList
<1>6. \A k \in 1..n : s \in DOMAIN e[k] => s \in DOMAIN options[k] /\ e[k] = options[k]
  <2>1. DOMAIN Nothing = {}
    BY DEF Nothing
  <2> QED
    BY <1>3, <2>1
<1>7. ASSUME NoneOf(options, s, n)
      PROVE  Given(e, s, x) = x
  <2>1. NoneOf(e, s, Len(e))
    BY <1>4, <1>6, <1>7 DEF NoneOf
  <2> QED
    BY <1>5, <2>1, GivenLemma
<1>8. ASSUME s \in {"ignore", "exactINI"}
      PROVE  Given(e, s, x) = Given(options, s, x)
  <2>1. \A k \in 1..n : s \in DOMAIN options[k] => e[k] = options[k]
    BY <1>3, <1>8 DEF Early
  <2>2. CASE NoneOf(options, s, n)
    <3>1. Given(options, s, x) = x
      BY <1>1, <2>2, GivenLemma
    <3> QED
      BY <1>7, <2>2, <3>1
  <2>3. CASE \E k \in 1..n : s \in DOMAIN options[k]
    <3>1. PICK A : A = {k \in 1..n : s \in DOMAIN options[k]}
      OBVIOUS
    <3>2. A \in SUBSET Nat /\ A # {} /\ \A k \in A : k <= n
      BY <1>1, <2>3, <3>1
    <3>3. PICK m \in A : \A k \in A : k <= m
      BY <1>1, <3>2, Largest
    <3>4. m \in 1..n /\ s \in DOMAIN options[m] /\ e[m] = options[m]
      BY <2>1, <3>1, <3>3
    <3>5. \A k \in 1..n : k > m => k \notin A
      BY <3>3, <3>4
    <3>6. LastOf(options, s, n, m)
      BY <3>1, <3>4, <3>5 DEF LastOf
    <3>7. LastOf(e, s, n, m)
      BY <1>6, <3>1, <3>4, <3>5 DEF LastOf
    <3>8. Given(options, s, x) = options[m][s]
      BY <1>1, <3>6, GivenLemma
    <3>9. Given(e, s, x) = e[m][s]
      BY <1>4, <1>5, <3>7, GivenLemma
    <3> QED
      BY <3>4, <3>8, <3>9
  <2> QED
    BY <2>2, <2>3 DEF NoneOf
<1> QED
  BY <1>1, <1>2, <1>5, <1>7, <1>8

----------------------------------------------------------------------------
(* The INI line *)

\* What an option of an INI line may be.
LineOption == {Invalid} \cup {OptionOf(a) : a \in Args} \cup {BaseOption(a) : a \in Args}

\* The options from value k on, where f[j] are those from value j > k on.
OptionsFrom(values, f, k) ==
    IF k > Len(values) \/ (k <= Len(values) /\ Role[values[k]] = "comment") THEN <<>>
    ELSE IF Role[values[k]] # "base" THEN <<OptionOf(values[k])>> \o f[k + 1]
    ELSE IF k = Len(values) THEN <<Invalid>>
    ELSE <<BaseOption(values[k + 1])>> \o f[k + 2]

ReadsLine(values, f, j) ==
    f = [k \in j..(Len(values) + 2) |-> OptionsFrom(values, f, k)]

\* Only the options behind a value matter.
LEMMA FromBehind ==
    ASSUME NEW values, NEW f, NEW g, NEW k,
           k <= Len(values) => f[k + 1] = g[k + 1] /\ f[k + 2] = g[k + 2],
           k > Len(values) \/ k <= Len(values)
    PROVE  OptionsFrom(values, f, k) = OptionsFrom(values, g, k)
<1>1. CASE k > Len(values)
  BY <1>1 DEF OptionsFrom
<1>2. CASE k <= Len(values)
  <2>1. f[k + 1] = g[k + 1] /\ f[k + 2] = g[k + 2]
    BY <1>2
  <2> QED
    BY <2>1, Zenon DEF OptionsFrom
<1> QED
  BY <1>1, <1>2

\* A line can be read from its end.
LEMMA LineReads ==
    ASSUME NEW values \in Seq(Args)
    PROVE  \E f : ReadsLine(values, f, 1)
<1>1. PICK n \in Nat : n = Len(values)
  BY LenProperties
<1> DEFINE T == {m \in Nat : \E f : ReadsLine(values, f, (n + 3) - m)}
<1>2. 1 \in T
  <2> DEFINE f == [k \in (n + 2)..(n + 2) |-> <<>>]
  <2>1. ASSUME NEW k \in (n + 2)..(n + 2)
        PROVE  f[k] = OptionsFrom(values, f, k)
    <3>1. k > Len(values)
      BY <1>1
    <3> QED
      BY <3>1 DEF OptionsFrom
  <2>2. f = [k \in (n + 2)..(n + 2) |-> f[k]]
    OBVIOUS
  <2> HIDE DEF f
  <2>3. f = [k \in (n + 2)..(n + 2) |-> OptionsFrom(values, f, k)]
    BY <2>1, <2>2
  <2>4. ReadsLine(values, f, n + 2)
    BY <1>1, <2>3 DEF ReadsLine
  <2>5. (n + 3) - 1 = n + 2
    OBVIOUS
  <2> QED
    BY <2>4, <2>5
<1>3. ASSUME NEW m \in 1..((n + 2) - 1), m \in T
      PROVE  m + 1 \in T
  <2>1. PICK f : ReadsLine(values, f, (n + 3) - m)
    BY <1>3
  <2>2. PICK j \in Nat : j = (n + 3) - (m + 1) /\ (n + 3) - m = j + 1 /\ j \in 1..(n + 1)
    OBVIOUS
  <2> DEFINE g == [k \in j..(n + 2) |-> IF k = j THEN OptionsFrom(values, f, j) ELSE f[k]]
  <2>3. ASSUME NEW k \in j..(n + 2)
        PROVE  g[k] = OptionsFrom(values, g, k)
    <3>1. k <= n => f[k + 1] = g[k + 1] /\ f[k + 2] = g[k + 2]
      <4> SUFFICES ASSUME k <= n PROVE f[k + 1] = g[k + 1] /\ f[k + 2] = g[k + 2]
        OBVIOUS
      <4>1. k + 1 \in j..(n + 2) /\ k + 2 \in j..(n + 2) /\ k + 1 # j /\ k + 2 # j
        BY <2>2
      <4> QED
        BY <4>1
    <3>2. k <= Len(values) => f[k + 1] = g[k + 1] /\ f[k + 2] = g[k + 2]
      BY <1>1, <3>1
    <3>3. k > Len(values) \/ k <= Len(values)
      BY <1>1, <2>2
    <3>4. g[k] = IF k = j THEN OptionsFrom(values, f, j) ELSE f[k]
      OBVIOUS
    <3> HIDE DEF g
    <3>5. OptionsFrom(values, f, k) = OptionsFrom(values, g, k)
      BY <3>2, <3>3, FromBehind
    <3>6. CASE k = j
      BY <3>4, <3>5, <3>6
    <3>7. CASE k # j
      <4>1. k \in (j + 1)..(Len(values) + 2)
        BY <1>1, <2>2, <3>7
      <4>2. f[k] = OptionsFrom(values, f, k)
        BY <2>1, <2>2, <4>1 DEF ReadsLine
      <4> QED
        BY <3>4, <3>5, <3>7, <4>2
    <3> QED
      BY <3>6, <3>7
  <2>4. g = [k \in j..(n + 2) |-> g[k]]
    OBVIOUS
  <2> HIDE DEF g
  <2>5. ReadsLine(values, g, j)
    BY <1>1, <2>3, <2>4 DEF ReadsLine
  <2>6. m + 1 \in Nat
    OBVIOUS
  <2> QED
    BY <2>2, <2>5, <2>6
<1> HIDE DEF T
<1>4. \A m \in 1..(n + 2) : m \in T
  <2>1. n + 2 \in Nat
    OBVIOUS
  <2> QED
    BY <1>2, <1>3, <2>1, UpTo
<1>5. n + 2 \in T
  BY <1>4
<1>6. (n + 3) - (n + 2) = 1
  OBVIOUS
<1> QED
  BY <1>5, <1>6 DEF T

\* The options of a line are a list.
LEMMA LineOptionsLemma ==
    ASSUME NEW values \in Seq(Args)
    PROVE  LineOptions(values) \in Seq(LineOption)
<1>1. PICK n \in Nat : n = Len(values) /\ \A k \in 1..n : values[k] \in Args
  BY LenProperties, ElementOfSeq
<1> DEFINE f == CHOOSE g : ReadsLine(values, g, 1)
<1>2. ReadsLine(values, f, 1)
  BY LineReads
<1>3. LineOptions(values) = f[1]
  BY Zenon DEF LineOptions, ReadsLine, OptionsFrom
<1> HIDE DEF f
<1>4. \A k \in 1..(n + 2) : f[k] = OptionsFrom(values, f, k)
  BY <1>1, <1>2 DEF ReadsLine
<1>5. ASSUME NEW k \in 1..(n + 2),
             k <= n => f[k + 1] \in Seq(LineOption) /\ f[k + 2] \in Seq(LineOption)
      PROVE  f[k] \in Seq(LineOption)
  <2>1. <<>> \in Seq(LineOption) /\ <<Invalid>> \in Seq(LineOption)
    BY DEF LineOption
  <2>2. CASE k > n
    <3>1. f[k] = <<>>
      BY <1>1, <1>4, <2>2 DEF OptionsFrom
    <3> QED
      BY <2>1, <3>1
  <2>3. CASE k <= n
    <3>1. values[k] \in Args /\ ~(k > Len(values))
      BY <1>1, <2>3
    <3>2. CASE Role[values[k]] = "comment"
      <4>1. f[k] = <<>>
        BY <1>1, <1>4, <2>3, <3>2 DEF OptionsFrom
      <4> QED
        BY <2>1, <4>1
    <3>3. CASE Role[values[k]] \notin {"comment", "base"}
      <4>1. f[k] = <<OptionOf(values[k])>> \o f[k + 1]
        BY <1>1, <1>4, <3>1, <3>3 DEF OptionsFrom
      <4>2. OptionOf(values[k]) \in LineOption
        BY <3>1 DEF LineOption
      <4>3. <<OptionOf(values[k])>> \in Seq(LineOption)
        BY <4>2
      <4>4. <<OptionOf(values[k])>> \o f[k + 1] \in Seq(LineOption)
        BY <1>5, <2>3, <4>3, ConcatProperties
      <4> QED
        BY <4>1, <4>4
    <3>4. CASE Role[values[k]] = "base" /\ k = n
      <4>1. f[k] = <<Invalid>>
        BY <1>1, <1>4, <3>1, <3>4 DEF OptionsFrom
      <4> QED
        BY <2>1, <4>1
    <3>5. CASE Role[values[k]] = "base" /\ k # n
      <4>1. f[k] = <<BaseOption(values[k + 1])>> \o f[k + 2]
        BY <1>1, <1>4, <3>1, <3>5 DEF OptionsFrom
      <4>2. k + 1 \in 1..n
        BY <2>3, <3>5
      <4>3. BaseOption(values[k + 1]) \in LineOption
        BY <1>1, <4>2 DEF LineOption
      <4>4. <<BaseOption(values[k + 1])>> \in Seq(LineOption)
        BY <4>3
      <4>5. <<BaseOption(values[k + 1])>> \o f[k + 2] \in Seq(LineOption)
        BY <1>5, <2>3, <4>4, ConcatProperties
      <4> QED
        BY <4>1, <4>5
    <3> QED
      BY <3>2, <3>3, <3>4, <3>5
  <2> QED
    BY <2>2, <2>3
<1> DEFINE R(k) == f[k] \in Seq(LineOption)
           T == {m \in Nat : \A k \in 1..(n + 2) : k >= (n + 3) - m => R(k)}
<1>6. 1 \in T
  <2>1. ASSUME NEW k \in 1..(n + 2), k >= (n + 3) - 1
        PROVE  R(k)
    <3>1. ~(k <= n)
      BY <2>1
    <3> QED
      BY <1>5, <3>1
  <2> QED
    BY <2>1
<1>7. ASSUME NEW m \in 1..((n + 2) - 1), m \in T
      PROVE  m + 1 \in T
  <2>1. ASSUME NEW k \in 1..(n + 2), k >= (n + 3) - (m + 1)
        PROVE  R(k)
    <3>1. ASSUME k <= n
          PROVE  R(k + 1) /\ R(k + 2)
      <4>1. /\ k + 1 \in 1..(n + 2) /\ k + 1 >= (n + 3) - m
            /\ k + 2 \in 1..(n + 2) /\ k + 2 >= (n + 3) - m
        BY <2>1, <3>1
      <4> HIDE DEF R
      <4> QED
        BY <1>7, <4>1
    <3> QED
      BY <1>5, <3>1
  <2>2. m + 1 \in Nat
    OBVIOUS
  <2> HIDE DEF R
  <2> QED
    BY <2>1, <2>2
<1> HIDE DEF T
<1>8. \A m \in 1..(n + 2) : m \in T
  <2>1. n + 2 \in Nat
    OBVIOUS
  <2> QED
    BY <1>6, <1>7, <2>1, UpTo
<1>9. f[1] \in Seq(LineOption)
  <2>1. n + 2 \in T /\ 1 \in 1..(n + 2) /\ 1 >= (n + 3) - (n + 2)
    BY <1>8
  <2> HIDE DEF R
  <2>2. R(1)
    BY <2>1 DEF T
  <2> QED
    BY <2>2 DEF R
<1> QED
  BY <1>3, <1>9

\* What IniOptions says of lines, an input and whether it is matched exactly.
IniFor(lines, a, exact) ==
    LET found == {k \in DOMAIN lines : EndsSearch(lines[k], a, exact)}
        line == lines[CHOOSE k \in found : \A l \in found : k <= l]
    IN  IF found = {} THEN <<>>
        ELSE IF line.colon THEN LineOptions(line.values)
        ELSE IF exact THEN <<Invalid>> ELSE <<>>

\* They are a list.
LEMMA IniForLemma ==
    ASSUME NEW lines \in Seq(Line), NEW a, NEW exact
    PROVE  IsList(IniFor(lines, a, exact))
<1> DEFINE found == {k \in DOMAIN lines : EndsSearch(lines[k], a, exact)}
           least == CHOOSE k \in found : \A l \in found : k <= l
           line == lines[least]
<1>1. IniFor(lines, a, exact) =
          IF found = {} THEN <<>>
          ELSE IF line.colon THEN LineOptions(line.values)
          ELSE IF exact THEN <<Invalid>> ELSE <<>>
  BY DEF IniFor
<1>2. found = {k \in DOMAIN lines : EndsSearch(lines[k], a, exact)}
  OBVIOUS
<1>3. least = CHOOSE k \in found : \A l \in found : k <= l
  OBVIOUS
<1> HIDE DEF found, least
<1>4. IsList(<<>>) /\ IsList(<<Invalid>>)
  BY DEF IsList
<1>5. ASSUME found # {}
      PROVE  IsList(LineOptions(line.values))
  <2>1. found \subseteq 1..Len(lines) /\ found \in SUBSET Nat
    BY <1>2, LenProperties
  <2>2. \E m \in found : \A l \in found : m <= l
    BY <1>5, <2>1, Smallest
  <2>3. line \in Line
    <3>1. least \in found
      BY <1>3, <2>2
    <3>2. least \in 1..Len(lines)
      BY <2>1, <3>1
    <3> QED
      BY <3>2, ElementOfSeq
  <2> HIDE DEF line
  <2>4. line.values \in Seq(Args)
    BY <2>3 DEF Line
  <2>5. LineOptions(line.values) \in Seq(LineOption)
    BY <2>4, LineOptionsLemma
  <2> QED
    BY <2>5, LenProperties DEF IsList
<1> QED
  BY <1>1, <1>4, <1>5, Zenon

----------------------------------------------------------------------------
(* Precedence *)

\* The flags before job k: those of the job before it, or of the configuration.
Before(js, flags, k) == IF k = 1 THEN flags ELSE js[k - 1].flags

InheritedFrom(before, s) == IF s \in PerInput THEN Defaults[s] ELSE before[s]

\* The options of the line for input a behind the options.
LineOf(lines, a, options, before) ==
    IF Given(options, "ignore", FALSE) THEN <<>>
    ELSE IniFor(lines, a, Given(options, "exactINI", InheritedFrom(before, "exactINI")))

\* A job has the flags that its options, its line and the flags before it give it.
Follows(job, options, before, lines) ==
    \A s \in Settings :
        job.flags[s] = Given(options, s, Given(LineOf(lines, job.file, options, before), s,
                                               InheritedFrom(before, s)))

\* The options in front of the next input are applied to the flags of the last job;
\* every job follows from its own options.
FlagsInv ==
    /\ jobs \in Seq({jobs[k] : k \in 1..Len(jobs)})
    /\ given \in Seq({given[k] : k \in 1..Len(given)})
    /\ pending \in Seq({pending[k] : k \in 1..Len(pending)})
    /\ Len(given) = Len(jobs)
    /\ DOMAIN sticky = Settings
    /\ sticky = Before(jobs, config, Len(jobs) + 1)
    /\ ini \in Seq(Line)
    /\ \A k \in 1..Len(jobs) : Follows(jobs[k], given[k], Before(jobs, config, k), ini)

\* In a list, a setting is assigned by no option, or by a last one.
LEMMA LastExists ==
    ASSUME NEW options, IsList(options), NEW s
    PROVE  NoneOf(options, s, Len(options)) \/ \E m : LastOf(options, s, Len(options), m)
<1>1. PICK n \in Nat : n = Len(options)
  BY DEF IsList
<1>2. PICK A : A = {k \in 1..n : s \in DOMAIN options[k]}
  OBVIOUS
<1> SUFFICES ASSUME A # {}
             PROVE  \E m : LastOf(options, s, n, m)
  BY <1>1, <1>2 DEF NoneOf
<1>3. A \in SUBSET Nat /\ \A k \in A : k <= n
  BY <1>2
<1>4. PICK m \in A : \A k \in A : k <= m
  BY <1>3, Largest
<1>5. LastOf(options, s, n, m)
  BY <1>2, <1>4 DEF LastOf
<1> QED
  BY <1>5

\* What the loop of plan makes of the pending options and the line of an input is
\* what they say in order of precedence.
LEMMA JobFollows ==
    ASSUME FlagsInv, NEW job, job = [file |-> Arg, flags |-> JobFlags]
    PROVE  Follows(job, pending, sticky, ini)
<1>1. IsList(pending) /\ DOMAIN sticky = Settings /\ ini \in Seq(Line)
  BY LenProperties DEF FlagsInv, IsList
<1>2. BeforeIni = ApplyAll(Fresh, EarlyOnes(pending))
  BY DEF BeforeIni, EarlyOnes
<1>3. \A s \in Settings : Fresh[s] = InheritedFrom(sticky, s)
  BY <1>1 DEF Fresh, InheritedFrom, PerInput, Defaults, BugFixes, Settings
<1>4. ASSUME NEW s \in Settings
      PROVE  BeforeIni[s] = Given(EarlyOnes(pending), s, Fresh[s])
  <2>1. IsList(EarlyOnes(pending))
    BY <1>1, EarlyLemma
  <2> QED
    BY <1>2, <2>1, ApplyAllLemma
<1>5. "ignore" \in Settings /\ "exactINI" \in Settings
  BY DEF Settings, PerInput
<1>6. PICK no : no = FALSE
  OBVIOUS
<1>7. BeforeIni["ignore"] = Given(pending, "ignore", no)
  <2>1. Fresh["ignore"] = no
    <3>1. InheritedFrom(sticky, "ignore") = Defaults["ignore"]
      BY DEF InheritedFrom, PerInput
    <3>2. Defaults["ignore"] = FALSE
      BY <1>5 DEF Defaults, BugFixes
    <3> QED
      BY <1>3, <1>5, <1>6, <3>1, <3>2, Zenon
  <2>2. Given(EarlyOnes(pending), "ignore", Fresh["ignore"]) = Given(pending, "ignore", Fresh["ignore"])
    BY <1>1, EarlyLemma
  <2> QED
    BY <1>4, <1>5, <2>1, <2>2, Zenon
<1>8. BeforeIni["exactINI"] = Given(pending, "exactINI", InheritedFrom(sticky, "exactINI"))
  <2>1. Fresh["exactINI"] = InheritedFrom(sticky, "exactINI")
    BY <1>3, <1>5
  <2>2. Given(EarlyOnes(pending), "exactINI", Fresh["exactINI"])
            = Given(pending, "exactINI", Fresh["exactINI"])
    BY <1>1, EarlyLemma
  <2> QED
    BY <1>4, <1>5, <2>1, <2>2, Zenon
<1>9. PICK line : line = LineOf(ini, Arg, pending, sticky)
  OBVIOUS
<1>10. IniOfInput = line
  <2>1. \A a, exact : IniOptions(a, exact) = IniFor(ini, a, exact)
    BY Zenon DEF IniOptions, IniFor
  <2>2. IniOfInput = IF BeforeIni["ignore"] THEN <<>> ELSE IniOptions(Arg, BeforeIni["exactINI"])
    BY Zenon DEF IniOfInput, IniOf
  <2>3. IniOfInput = IF Given(pending, "ignore", no) THEN <<>>
                     ELSE IniFor(ini, Arg, BeforeIni["exactINI"])
    BY <1>7, <2>1, <2>2, Zenon
  <2>4. IniOfInput = IF Given(pending, "ignore", no) THEN <<>>
                     ELSE IniFor(ini, Arg, Given(pending, "exactINI", InheritedFrom(sticky, "exactINI")))
    BY <1>8, <2>3, Zenon
  <2>5. line = IF Given(pending, "ignore", no) THEN <<>>
               ELSE IniFor(ini, Arg, Given(pending, "exactINI", InheritedFrom(sticky, "exactINI")))
    BY <1>6, <1>9, Zenon DEF LineOf
  <2> QED
    BY <2>4, <2>5, Zenon
<1>11. IsList(line)
  <2>1. PICK x : x = IniFor(ini, Arg, Given(pending, "exactINI", InheritedFrom(sticky, "exactINI")))
    OBVIOUS
  <2>2. IsList(x)
    BY <1>1, <2>1, IniForLemma
  <2>3. IsList(<<>>)
    BY DEF IsList
  <2>4. line = <<>> \/ line = x
    BY <1>9, <2>1, Zenon DEF LineOf
  <2> QED
    BY <2>2, <2>3, <2>4, Zenon
<1>12. ASSUME NEW s \in Settings
       PROVE  JobFlags[s] = Given(pending, s, Given(line, s, InheritedFrom(sticky, s)))
  <2>1. PICK b : b = BeforeIni
    OBVIOUS
  <2>2. PICK c : c = ApplyAll(b, line)
    OBVIOUS
  <2>3. JobFlags = ApplyAll(c, pending)
    BY <1>10, <2>1, <2>2, Zenon DEF JobFlags
  <2>4. JobFlags[s] = Given(pending, s, c[s])
    BY <1>1, <2>3, ApplyAllLemma
  <2>5. c[s] = Given(line, s, b[s])
    BY <1>11, <2>2, ApplyAllLemma
  <2>6. CASE NoneOf(pending, s, Len(pending))
    <3>1. Given(EarlyOnes(pending), s, Fresh[s]) = Fresh[s]
      BY <1>1, <2>6, EarlyLemma
    <3>2. b[s] = InheritedFrom(sticky, s)
      BY <1>3, <1>4, <2>1, <3>1
    <3> QED
      BY <2>4, <2>5, <3>2, Zenon
  <2>7. ASSUME NEW m, LastOf(pending, s, Len(pending), m)
        PROVE  JobFlags[s] = Given(pending, s, Given(line, s, InheritedFrom(sticky, s)))
    <3>1. \A x : Given(pending, s, x) = pending[m][s]
      BY <1>1, <2>7, GivenLemma
    <3> QED
      BY <2>4, <3>1, Zenon
  <2> QED
    BY <1>1, <2>6, <2>7, LastExists
<1>13. job.file = Arg /\ job.flags = JobFlags
  OBVIOUS
<1> QED
  BY <1>9, <1>12, <1>13, Zenon DEF Follows

\* Applying options keeps flags for all settings.
LEMMA ApplyAllDomain ==
    ASSUME NEW flags, NEW options, IsList(options), DOMAIN flags = Settings
    PROVE  DOMAIN ApplyAll(flags, options) = Settings
<1>1. PICK n \in Nat : n = Len(options)
  BY DEF IsList
<1>2. PICK f : Applies(f, flags, options) /\ ApplyAll(flags, options) = f[n]
  BY <1>1, ApplyAllIs
<1>3. f[n] = IF n = 0 THEN flags ELSE Apply(f[n - 1], options[n])
  <2>1. n \in 0..Len(options)
    BY <1>1
  <2> QED
    BY <1>2, <2>1 DEF Applies
<1>4. CASE n = 0
  BY <1>2, <1>3, <1>4
<1>5. CASE n # 0
  <2>1. f[n] = Apply(f[n - 1], options[n])
    BY <1>3, <1>5
  <2> QED
    BY <1>2, <2>1 DEF Apply
<1> QED
  BY <1>4, <1>5

\* A job has flags for all settings.
LEMMA JobDomain ==
    ASSUME FlagsInv
    PROVE  DOMAIN JobFlags = Settings
<1>1. IsList(pending) /\ DOMAIN sticky = Settings /\ ini \in Seq(Line)
  BY LenProperties DEF FlagsInv, IsList
<1>2. DOMAIN Fresh = Settings
  BY <1>1 DEF Fresh
<1>3. DOMAIN BeforeIni = Settings
  <2>1. BeforeIni = ApplyAll(Fresh, EarlyOnes(pending)) /\ IsList(EarlyOnes(pending))
    BY <1>1, EarlyLemma DEF BeforeIni, EarlyOnes
  <2> QED
    BY <1>2, <2>1, ApplyAllDomain
<1>4. IsList(IniOfInput)
  <2>1. PICK x : x = IniFor(ini, Arg, BeforeIni["exactINI"])
    OBVIOUS
  <2>2. IsList(x) /\ IsList(<<>>)
    BY <1>1, <2>1, IniForLemma DEF IsList
  <2>3. x = IniOptions(Arg, BeforeIni["exactINI"])
    BY <2>1, Zenon DEF IniOptions, IniFor
  <2>4. IniOfInput = <<>> \/ IniOfInput = x
    BY <2>3, Zenon DEF IniOfInput, IniOf
  <2> QED
    BY <2>2, <2>4, Zenon
<1>5. PICK c : c = ApplyAll(BeforeIni, IniOfInput) /\ DOMAIN c = Settings
  BY <1>3, <1>4, ApplyAllDomain
<1> QED
  BY <1>1, <1>5, ApplyAllDomain DEF JobFlags

\* The input starts from the flags of the job before it, and the next one from its.
LEMMA InputFollows ==
    ASSUME FlagsInv, Input
    PROVE  FlagsInv'
<1>1. PICK job : job = [file |-> Arg, flags |-> JobFlags]
  OBVIOUS
<1>2. /\ jobs' = Append(jobs, job) /\ given' = Append(given, pending)
      /\ sticky' = job.flags /\ pending' = <<>> /\ UNCHANGED <<config, ini>>
  BY <1>1 DEF Input
<1>3. Follows(job, pending, sticky, ini)
  BY <1>1, JobFollows
<1>4. PICK n \in Nat : n = Len(jobs) /\ n = Len(given)
  BY LenProperties DEF FlagsInv
<1>5. /\ jobs' \in Seq({jobs'[k] : k \in 1..Len(jobs')})
      /\ Len(jobs') = n + 1 /\ jobs'[n + 1] = job /\ \A k \in 1..n : jobs'[k] = jobs[k]
  <2>1. jobs \in Seq({jobs[k] : k \in 1..Len(jobs)}) /\ jobs' = Append(jobs, job)
    BY <1>2 DEF FlagsInv
  <2> HIDE <1>1
  <2>2. PICK t : t = Append(jobs, job)
    OBVIOUS
  <2>3. /\ t \in Seq({t[k] : k \in 1..Len(t)})
        /\ Len(t) = Len(jobs) + 1 /\ t[Len(jobs) + 1] = job
        /\ \A k \in 1..Len(jobs) : t[k] = jobs[k]
    BY <2>1, <2>2, LongerList
  <2> QED
    BY <1>4, <2>1, <2>2, <2>3
<1>6. /\ given' \in Seq({given'[k] : k \in 1..Len(given')})
      /\ Len(given') = n + 1 /\ given'[n + 1] = pending /\ \A k \in 1..n : given'[k] = given[k]
  <2>1. given \in Seq({given[k] : k \in 1..Len(given)})
    BY DEF FlagsInv
  <2> QED
    BY <1>2, <1>4, <2>1, LongerList
<1>7. pending' \in Seq({pending'[k] : k \in 1..Len(pending')})
  BY <1>2, EmptySeq
<1>8. DOMAIN sticky' = Settings
  <2>1. DOMAIN JobFlags = Settings
    BY JobDomain
  <2> QED
    BY <1>1, <1>2, <2>1
<1>9. sticky' = Before(jobs', config', Len(jobs') + 1)
  <2>1. (n + 1) + 1 # 1 /\ ((n + 1) + 1) - 1 = n + 1
    OBVIOUS
  <2> QED
    BY <1>2, <1>5, <2>1 DEF Before
<1>10. ASSUME NEW k \in 1..(n + 1)
       PROVE  Before(jobs', config', k) = Before(jobs, config, k)
  <2>1. k # 1 => k - 1 \in 1..n
    BY <1>4
  <2> QED
    BY <1>2, <1>5, <2>1 DEF Before
<1>11. ASSUME NEW k \in 1..(n + 1)
       PROVE  Follows(jobs'[k], given'[k], Before(jobs', config', k), ini')
  <2>1. CASE k \in 1..n
    <3>1. Follows(jobs[k], given[k], Before(jobs, config, k), ini)
      BY <1>4, <2>1 DEF FlagsInv
    <3> QED
      BY <1>2, <1>5, <1>6, <1>10, <2>1, <3>1
  <2>2. CASE k = n + 1
    <3>1. Before(jobs, config, k) = sticky
      BY <1>4, <2>2 DEF FlagsInv
    <3> QED
      BY <1>2, <1>3, <1>5, <1>6, <1>10, <2>2, <3>1
  <2> QED
    BY <2>1, <2>2
<1>12. ini' \in Seq(Line) /\ Len(given') = Len(jobs')
  BY <1>2, <1>5, <1>6 DEF FlagsInv
<1> QED
  BY <1>5, <1>6, <1>7, <1>8, <1>9, <1>11, <1>12 DEF FlagsInv

\* The configuration, which is read before the first job, is what that job starts from.
LEMMA LoadFollows ==
    ASSUME PlanInv, FlagsInv, LoadConfig
    PROVE  FlagsInv'
<1>1. Len(jobs) = 0
  BY DEF PlanInv, PhaseOK, LoadConfig
<1>2. UNCHANGED <<jobs, given, pending, ini>> /\ config' = sticky'
  BY DEF LoadConfig
<1>3. DOMAIN sticky' = Settings
  BY DEF LoadConfig, Apply, Defaults
<1>4. sticky' = Before(jobs', config', Len(jobs') + 1)
  BY <1>1, <1>2 DEF Before
<1> QED
  BY <1>1, <1>2, <1>3, <1>4 DEF FlagsInv

\* An option is put behind the pending ones.
LEMMA OptionFollows ==
    ASSUME FlagsInv, Option
    PROVE  FlagsInv'
<1>1. PICK option : pending' = Append(pending, option)
  BY DEF Option
<1>2. UNCHANGED <<jobs, given, sticky, config, ini>>
  BY DEF Option
<1>3. pending' \in Seq({pending'[k] : k \in 1..Len(pending')})
  <2>1. pending \in Seq({pending[k] : k \in 1..Len(pending)})
    BY DEF FlagsInv
  <2> QED
    BY <1>1, <2>1, LongerList
<1> QED
  BY <1>2, <1>3 DEF FlagsInv

\* The flags follow in every state.
LEMMA NextFollows == PlanInv /\ FlagsInv /\ [Next]_vars => FlagsInv'
<1> SUFFICES ASSUME PlanInv, FlagsInv, [Next]_vars
             PROVE  FlagsInv'
  OBVIOUS
<1>1. ASSUME UNCHANGED <<jobs, given, pending, sticky, config, ini>>
      PROVE  FlagsInv'
  BY <1>1 DEF FlagsInv
<1>2. CASE \E a \in case.typed : \/ KeepValue(a) \/ KeepOption(a) \/ KeepInput(a) \/ Answer(a)
                                 \/ Select(a) \/ SelectPath(a) \/ RejectSelector(a) \/ KeepRest(a)
  BY <1>1, <1>2 DEF KeepValue, KeepOption, KeepInput, Answer, Select, SelectPath,
     RejectSelector, KeepRest, Type, Fail, secondPass
<1>3. CASE EndOfArguments \/ LoadFails \/ Dashes \/ Output \/ ArgumentFails \/ EndOfPlan
  BY <1>1, <1>3 DEF EndOfArguments, LoadFails, Dashes, Output, ArgumentFails, EndOfPlan,
     Fail, secondPass
<1>5. CASE \/ CheckOutput \/ CollisionFound \/ EndOfChecks
           \/ \E done \in SUBSET Kinds : RunJob(done)
  BY <1>1, <1>5 DEF CheckOutput, CollisionFound, EndOfChecks, RunJob, Fail, secondPass
<1>4. CASE UNCHANGED vars
  BY <1>1, <1>4 DEF vars
<1> QED
  BY <1>2, <1>3, <1>4, <1>5, LoadFollows, OptionFollows, InputFollows DEF Next

\* Every flag of every job has the value that the options in front of its input, its
\* INI line, the job before it and the configuration give it, in this precedence,
\* although plan applies some of the options twice and carries flags from job to job.
THEOREM FlagsHavePrecedence == Spec => []PrecedenceHolds
<1>1. Init => FlagsInv
  <2> SUFFICES ASSUME Init PROVE FlagsInv
    OBVIOUS
  <2>1. jobs = <<>> /\ given = <<>> /\ pending = <<>> /\ sticky = Defaults /\ config = Defaults
    BY DEF Init
  <2>2. Len(jobs) = 0 /\ Len(given) = 0
    BY <2>1
  <2>3. ini \in Seq(Line)
    BY PlanAssumption DEF Init
  <2>4. \A S : <<>> \in Seq(S)
    OBVIOUS
  <2>5. DOMAIN sticky = Settings /\ sticky = Before(jobs, config, Len(jobs) + 1)
    BY <2>1, <2>2 DEF Defaults, Before
  <2> QED
    BY <2>1, <2>2, <2>3, <2>4, <2>5 DEF FlagsInv
<1>2. ASSUME FlagsInv
      PROVE  PrecedenceHolds
  <2>1. DOMAIN jobs = 1..Len(jobs)
    BY <1>2, LenProperties DEF FlagsInv
  <2> SUFFICES ASSUME NEW k \in 1..Len(jobs), NEW s \in Settings
               PROVE  jobs[k].flags[s] = Given(given[k], s, Given(LineFor(k), s, Inherited(k, s)))
    BY <2>1 DEF PrecedenceHolds
  <2>2. PICK before : before = Before(jobs, config, k)
    OBVIOUS
  <2>3. Follows(jobs[k], given[k], before, ini)
    BY <1>2, <2>2 DEF FlagsInv
  <2>4. \A t : Inherited(k, t) = InheritedFrom(before, t)
    BY <2>2, Zenon DEF Inherited, InheritedFrom, Before
  <2>5. LineFor(k) = LineOf(ini, jobs[k].file, given[k], before)
    <3>1. \A a, exact : IniOptions(a, exact) = IniFor(ini, a, exact)
      BY Zenon DEF IniOptions, IniFor
    <3>2. Inherited(k, "exactINI") = InheritedFrom(before, "exactINI")
      BY <2>4, Zenon
    <3> QED
      BY <3>1, <3>2, Zenon DEF LineFor, LineOf
  <2> QED
    BY <2>3, <2>4, <2>5, Zenon DEF Follows
<1> QED
  BY <1>1, <1>2, NextFollows, PlanInvariant, PTL DEF Spec

=============================================================================
