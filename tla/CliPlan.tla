------------------------------ MODULE CliPlan ------------------------------
(***************************************************************************)
(* plan (internal/cli/cli.go, config.go): from the arguments, the TOML and *)
(* the INI file to the jobs.  Two passes go over the arguments: the first  *)
(* one, configArguments, takes out the selection of the configuration, the *)
(* second one collects options and gives them to the inputs they precede.  *)
(* The arguments are typed while the first pass reads them, so that every  *)
(* command line is considered.  A loop over the outputs looks for          *)
(* collisions, and the loop of Run, which makes their names again, writes  *)
(* those of the jobs that succeed (CliRun has its calls, one by one).      *)
(***************************************************************************)
EXTENDS Integers, Sequences, FiniteSets, SequencesExt

CONSTANTS
    Args,        \* arguments, of the command line or of an INI line
    Role,        \* what an argument is where it is not a value
    Assigns,     \* the settings an option assigns, with their values
    Address,     \* the value of an argument of -b, or NoBase
    NoBase,
    Key,         \* cleaned absolute path of an argument, in lower case
    OutputKey,   \* those of the files beside an input, by kind
    AutoConfig,  \* <executable>.toml
    NoConfig,
    Cases        \* bounds: the arguments that may be typed, and how many; the
                 \* TOML files, as their assignments by path, and <executable>.ini

Roles == {"dashes", "help", "version", "output", "base", "no_config", "config",
          "config=", "option", "unknown", "comment", "input"}
BugFixes == {"fixes", "additionalConsoleInstructions"}
PerInput == {"base", "inline", "ignore"}

\* A flag for fixes stands for one of the corrections, choice for one of the
\* settings of the other sections.
Settings == BugFixes \cup PerInput \cup
            {"choice", "exactINI", "text", "stars", "convert", "log", "repair"}
Kinds == {"gct", "text", "log"}

\* What an option assigns. Invalid is an option that apply rejects, Nothing one
\* that is passed over.
Invalid == [s \in {"invalid"} |-> TRUE]
Nothing == [s \in {} |-> TRUE]
\* A line of the INI file: the inputs whose name begins the line as it stands,
\* and those that equal the name before the colon.
Line == [begins : SUBSET Args, names : SUBSET Args, comment : BOOLEAN,
         colon : BOOLEAN, values : Seq(Args)]

ASSUME PlanAssumption ==
    /\ Role \in [Args -> Roles]
    /\ \A a \in Args : DOMAIN Assigns[a] \subseteq Settings
    /\ DOMAIN Key = Args /\ DOMAIN OutputKey = Args \X Kinds
    /\ \A c \in Cases : c.typed \subseteq Args /\ c.length \in Nat /\ c.inis \subseteq Seq(Line)

VARIABLES
    case,        \* one of Cases
    toml, ini,   \* its files
    phase,       \* "select", "rest", "load", "plan", "check", "planned", "failed" or
                 \* "answered"
    value,       \* what the next argument is the value of: "", "-o", "-b" or "--config"
    out,         \* the arguments configArguments keeps
    path,        \* of the configuration
    selected,    \* a selector was seen
    explicit,    \* the configuration must exist
    seenInput,   \* an input was seen
    i,           \* the next argument of out
    sticky,      \* the flags the next input starts from
    pending,     \* the options for the next input
    output,      \* the argument of -o, if any
    literal,     \* "--" was seen
    jobs,
    which,       \* the job that the loop over the jobs is at
    nth,         \* the output of that job which is checked next
    destinations, \* the outputs that have been checked
    typed,       \* history: number of arguments
    inputs,      \* history: the inputs configArguments sees
    given,       \* history: the options in front of each job
    config,      \* history: the flags of the configuration
    written      \* history: the outputs that Run has put in place

vars == <<case, toml, ini, phase, value, out, path, selected, explicit, seenInput, i,
          sticky, pending, output, literal, jobs, which, nth, destinations, typed, inputs,
          given, config, written>>
firstPass == <<value, out, path, selected, explicit, seenInput, typed, inputs>>
secondPass == <<i, sticky, pending, output, literal, jobs, given>>
lastLoops == <<which, nth, destinations, written>>

----------------------------------------------------------------------------
(* Flags *)

Defaults == [s \in Settings |->
    IF s \in BugFixes THEN TRUE ELSE IF s = "base" THEN NoBase ELSE FALSE]

\* apply and setChoice: an option assigns some of the flags.
Apply(flags, option) ==
    [s \in Settings |-> IF s \in DOMAIN option THEN option[s] ELSE flags[s]]
ApplyAll(flags, options) ==
    LET First[k \in 0..Len(options)] ==
            IF k = 0 THEN flags ELSE Apply(First[k - 1], options[k])
    IN  First[Len(options)]

\* -b with its value, which has to be an aligned hexadecimal address.
BaseOption(a) == IF Address[a] = NoBase THEN Invalid ELSE [s \in {"base"} |-> Address[a]]
OptionOf(a) == IF Role[a] = "option" THEN Assigns[a] ELSE Invalid

\* iniOptions. The first line that matches ends the search; without exact
\* matching a line without colon ends it with no options.
EndsSearch(line, a, exact) ==
    /\ ~line.comment
    /\ IF exact THEN line.colon => a \in line.names ELSE a \in line.begins

LineOptions(values) ==
    LET n == Len(values)
        From[k \in 1..(n + 2)] ==
            IF k > n \/ (k <= n /\ Role[values[k]] = "comment") THEN <<>>
            ELSE IF Role[values[k]] # "base" THEN <<OptionOf(values[k])>> \o From[k + 1]
            ELSE IF k = n THEN <<Invalid>>
            ELSE <<BaseOption(values[k + 1])>> \o From[k + 2]
    IN  From[1]

IniOptions(a, exact) ==
    LET found == {k \in DOMAIN ini : EndsSearch(ini[k], a, exact)}
        line == ini[CHOOSE k \in found : \A l \in found : k <= l]
    IN  IF found = {} THEN <<>>
        ELSE IF line.colon THEN LineOptions(line.values)
        ELSE IF exact THEN <<Invalid>> ELSE <<>>

----------------------------------------------------------------------------
(* configArguments *)

Init ==
    /\ case \in Cases
    /\ toml \in case.tomls
    /\ ini \in case.inis
    /\ phase = "select"
    /\ value = ""
    /\ out = <<>>
    /\ path = AutoConfig
    /\ selected = FALSE
    /\ explicit = FALSE
    /\ seenInput = FALSE
    /\ i = 1
    /\ sticky = Defaults
    /\ pending = <<>>
    /\ output = <<>>
    /\ literal = FALSE
    /\ jobs = <<>>
    /\ typed = 0
    /\ inputs = <<>>
    /\ given = <<>>
    /\ config = Defaults
    /\ which = 1
    /\ nth = 1
    /\ destinations = {}
    /\ written = {}

Type ==
    /\ typed < case.length
    /\ typed' = typed + 1
    /\ UNCHANGED <<case, toml, ini, secondPass, config, lastLoops>>

Fail ==
    /\ phase' = "failed"
    /\ UNCHANGED <<case, toml, ini, firstPass, secondPass, config, lastLoops>>

\* -o and -b keep their value, whatever it looks like.
KeepValue(a) ==
    /\ phase = "select" /\ value \in {"-o", "-b"}
    /\ Type
    /\ out' = Append(out, a)
    /\ value' = ""
    /\ UNCHANGED <<phase, path, selected, explicit, seenInput, inputs>>

\* Mutated form: the value of an option is read like any other argument.
KeepOptionOnly(a) ==
    /\ phase = "select" /\ value = ""
    /\ Role[a] \in {"output", "base", "option", "unknown"}
    /\ Type
    /\ out' = Append(out, a)
    /\ UNCHANGED <<phase, value, path, selected, explicit, seenInput, inputs>>

KeepOption(a) ==
    /\ phase = "select" /\ value = ""
    /\ Role[a] \in {"output", "base", "option", "unknown"}
    /\ Type
    /\ out' = Append(out, a)
    /\ value' = IF Role[a] = "output" THEN "-o" ELSE IF Role[a] = "base" THEN "-b" ELSE ""
    /\ UNCHANGED <<phase, path, selected, explicit, seenInput, inputs>>

KeepInput(a) ==
    /\ phase = "select" /\ value = ""
    /\ Role[a] \in {"input", "comment"}
    /\ Type
    /\ out' = Append(out, a)
    /\ seenInput' = TRUE
    /\ inputs' = Append(inputs, a)
    /\ UNCHANGED <<phase, value, path, selected, explicit>>

\* --help and --version, which no configuration or error after them prevents.
Answer(a) ==
    /\ phase = "select" /\ value = ""
    /\ Role[a] \in {"help", "version"}
    /\ Type
    /\ phase' = "answered"
    /\ UNCHANGED <<value, out, path, selected, explicit, seenInput, inputs>>

\* --config, --config= and --no-config.
Select(a) ==
    /\ phase = "select" /\ value = ""
    /\ Role[a] \in {"no_config", "config", "config="}
    /\ ~seenInput /\ ~selected
    /\ Type
    /\ selected' = TRUE
    /\ explicit' = (Role[a] # "no_config")
    /\ path' = CASE Role[a] = "no_config" -> NoConfig
                 [] Role[a] = "config=" -> Key[a]
                 [] OTHER -> path
    /\ value' = IF Role[a] = "config" THEN "--config" ELSE ""
    /\ UNCHANGED <<phase, out, seenInput, inputs>>

SelectPath(a) ==
    /\ phase = "select" /\ value = "--config"
    /\ Type
    /\ path' = Key[a]
    /\ value' = ""
    /\ UNCHANGED <<phase, out, selected, explicit, seenInput, inputs>>

\* A second selector, or one behind an input.
RejectSelector(a) ==
    /\ phase = "select" /\ value = ""
    /\ Role[a] \in {"no_config", "config", "config="}
    /\ seenInput \/ selected
    /\ typed < case.length
    /\ Fail

\* "--" and everything behind it.
KeepRest(a) ==
    /\ \/ phase = "select" /\ value = "" /\ Role[a] = "dashes" /\ UNCHANGED inputs
       \/ phase = "rest" /\ inputs' = Append(inputs, a)
    /\ Type
    /\ out' = Append(out, a)
    /\ phase' = "rest"
    /\ UNCHANGED <<value, path, selected, explicit, seenInput>>

EndOfArguments ==
    /\ phase \in {"select", "rest"}
    /\ typed > 0
    /\ phase' = IF value = "--config" THEN "failed" ELSE "load"
    /\ UNCHANGED <<case, toml, ini, firstPass, secondPass, config, lastLoops>>

\* loadConfig and decodeConfig: an absent file is no error unless selected; the
\* keys of a file are independent of each other.
LoadConfig ==
    /\ phase = "load"
    /\ path \in DOMAIN toml => toml[path] # Invalid
    /\ explicit => path \in DOMAIN toml
    /\ phase' = "plan"
    /\ sticky' = IF path \in DOMAIN toml THEN Apply(Defaults, toml[path]) ELSE Defaults
    /\ config' = sticky'
    /\ UNCHANGED <<case, toml, ini, firstPass, i, pending, output, literal, jobs, given, lastLoops>>

LoadFails ==
    /\ phase = "load"
    /\ IF path \in DOMAIN toml THEN toml[path] = Invalid ELSE explicit
    /\ Fail

----------------------------------------------------------------------------
(* The loop of plan *)

More == phase = "plan" /\ i <= Len(out)
Arg == out[i]
IsOption == ~literal /\ Role[Arg] \notin {"input", "comment"}

Dashes ==
    /\ More
    /\ ~literal /\ Role[Arg] = "dashes"
    /\ literal' = TRUE
    /\ i' = i + 1
    /\ UNCHANGED <<case, toml, ini, phase, firstPass, sticky, pending, output, jobs, given, config, lastLoops>>

Output ==
    /\ More
    /\ IsOption /\ Role[Arg] = "output" /\ i < Len(out)
    /\ output' = <<out[i + 1]>>
    /\ i' = i + 2
    /\ UNCHANGED <<case, toml, ini, phase, firstPass, sticky, pending, literal, jobs, given, config, lastLoops>>

\* The option at i, with its value.
PendingOption ==
    IF Role[Arg] # "base" THEN OptionOf(Arg)
    ELSE IF i = Len(out) THEN Invalid ELSE BaseOption(out[i + 1])

\* An option is checked at once and kept for the next input.
Option ==
    /\ More
    /\ IsOption /\ Role[Arg] \notin {"dashes", "output"}
    /\ PendingOption # Invalid
    /\ pending' = Append(pending, PendingOption)
    /\ i' = i + (IF Role[Arg] = "base" THEN 2 ELSE 1)
    /\ UNCHANGED <<case, toml, ini, phase, firstPass, sticky, output, literal, jobs, given, config, lastLoops>>

\* The flags an input starts from.
Fresh == [sticky EXCEPT !.base = NoBase, !.inline = FALSE, !.ignore = FALSE]

\* -i and exact_ini_matching take effect before the INI line is looked up.
Early(option) == DOMAIN option \cap {"ignore", "exactINI"} # {}
BeforeIni ==
    ApplyAll(Fresh, [k \in DOMAIN pending |-> IF Early(pending[k]) THEN pending[k] ELSE Nothing])
IniOf(flags) == IF flags.ignore THEN <<>> ELSE IniOptions(Arg, flags.exactINI)
IniOfInput == IniOf(BeforeIni)

\* Mutated form: the INI line is applied last.
JobFlagsIniLast == ApplyAll(ApplyAll(BeforeIni, pending), IniOfInput)

JobFlags == ApplyAll(ApplyAll(BeforeIni, IniOfInput), pending)

Input ==
    /\ More
    /\ ~IsOption
    /\ \A k \in DOMAIN IniOfInput : IniOfInput[k] # Invalid
    /\ jobs' = Append(jobs, [file |-> Arg, flags |-> JobFlags])
    /\ sticky' = JobFlags
    /\ pending' = <<>>
    /\ given' = Append(given, pending)
    /\ i' = i + 1
    /\ UNCHANGED <<case, toml, ini, phase, firstPass, output, literal, config, lastLoops>>

\* A missing or bad value, an unknown option, or a bad INI line.
ArgumentFails ==
    /\ More
    /\ \/ IsOption /\ Role[Arg] = "output" /\ i = Len(out)
       \/ IsOption /\ Role[Arg] \notin {"dashes", "output"} /\ PendingOption = Invalid
       \/ ~IsOption /\ \E k \in DOMAIN IniOfInput : IniOfInput[k] = Invalid
    /\ Fail

----------------------------------------------------------------------------
(* Collisions *)

\* The files of a job, in the order of their names in the code.
FilesOf(job) ==
    <<IF output # <<>> THEN Key[output[1]] ELSE OutputKey[job.file, "gct"]>>
    \o (IF job.flags.text THEN <<OutputKey[job.file, "text"]>> ELSE <<>>)
    \o (IF job.flags.log THEN <<OutputKey[job.file, "log"]>> ELSE <<>>)

Finished == phase = "plan" /\ i > Len(out)
Complete ==
    /\ pending = <<>>
    /\ jobs # <<>>
    /\ output # <<>> => Len(jobs) = 1

EndOfPlan ==
    /\ Finished
    /\ phase' = IF Complete THEN "check" ELSE "failed"
    /\ UNCHANGED <<case, toml, ini, firstPass, secondPass, config, lastLoops>>

Checking == phase = "check" /\ which <= Len(jobs)
Checked == FilesOf(jobs[which])[nth]

\* The configuration, an input of any job, or an output that was checked before.
Collides(file) ==
    \/ path # NoConfig /\ file = path
    \/ \E k \in DOMAIN jobs : file = Key[jobs[k].file]
    \/ file \in destinations

\* Mutated form: the outputs of a job are forgotten with the job.
CheckOutputForgetting ==
    LET isLast == nth = Len(FilesOf(jobs[which]))
    IN  /\ Checking
        /\ ~Collides(Checked)
        /\ destinations' = IF isLast THEN {} ELSE destinations \cup {Checked}
        /\ nth' = IF isLast THEN 1 ELSE nth + 1
        /\ which' = IF isLast THEN which + 1 ELSE which
        /\ UNCHANGED <<case, toml, ini, phase, firstPass, secondPass, config, written>>

\* One output after the other, of one job after the other.
CheckOutput ==
    LET isLast == nth = Len(FilesOf(jobs[which]))
    IN  /\ Checking
        /\ ~Collides(Checked)
        /\ destinations' = destinations \cup {Checked}
        /\ nth' = IF isLast THEN 1 ELSE nth + 1
        /\ which' = IF isLast THEN which + 1 ELSE which
        /\ UNCHANGED <<case, toml, ini, phase, firstPass, secondPass, config, written>>

CollisionFound ==
    /\ Checking
    /\ Collides(Checked)
    /\ Fail

EndOfChecks ==
    /\ phase = "check" /\ which > Len(jobs)
    /\ phase' = "planned"
    /\ which' = 1
    /\ UNCHANGED <<case, toml, ini, firstPass, secondPass, config, nth, destinations, written>>

----------------------------------------------------------------------------
(* The names in the loop of Run *)

Asked(job) == {kind \in Kinds : kind = "gct" \/ job.flags[kind]}
Destination(job, kind) ==
    IF kind = "gct" /\ output # <<>> THEN Key[output[1]] ELSE OutputKey[job.file, kind]

\* done are the outputs of a job that Run writes: none where it cannot be compiled
\* or would be written to its source, and only with the GCT any other one.
RunJob(done) ==
    /\ phase = "planned" /\ which <= Len(jobs)
    /\ LET job == jobs[which]
       IN  /\ done \subseteq Asked(job)
           /\ done # {} => "gct" \in done /\ Destination(job, "gct") # Key[job.file]
           /\ written' = written \cup
                  {[job |-> which, kind |-> kind, file |-> Destination(job, kind)] : kind \in done}
    /\ which' = which + 1
    /\ UNCHANGED <<case, toml, ini, phase, firstPass, secondPass, config, nth, destinations>>

Next ==
    \/ \E a \in case.typed : KeepValue(a)
    \/ \E a \in case.typed : KeepOption(a)
    \/ \E a \in case.typed : KeepInput(a)
    \/ \E a \in case.typed : Answer(a)
    \/ \E a \in case.typed : Select(a)
    \/ \E a \in case.typed : SelectPath(a)
    \/ \E a \in case.typed : RejectSelector(a)
    \/ \E a \in case.typed : KeepRest(a)
    \/ EndOfArguments
    \/ LoadConfig
    \/ LoadFails
    \/ Dashes
    \/ Output
    \/ Option
    \/ Input
    \/ ArgumentFails
    \/ EndOfPlan
    \/ CheckOutput
    \/ CollisionFound
    \/ EndOfChecks
    \/ \E done \in SUBSET Kinds : RunJob(done)

Spec == Init /\ [][Next]_vars

----------------------------------------------------------------------------

\* The value a list of options gives to a setting, or another one.
Given(options, s, otherwise) ==
    LET assigning == {k \in DOMAIN options : s \in DOMAIN options[k]}
    IN  IF assigning = {} THEN otherwise
        ELSE options[CHOOSE k \in assigning : \A l \in assigning : l <= k][s]

\* What a job inherits: the flags of the job before it or of the configuration,
\* but for the options that apply to one input.
Inherited(k, s) ==
    IF s \in PerInput THEN Defaults[s]
    ELSE IF k = 1 THEN config[s] ELSE jobs[k - 1].flags[s]

LineFor(k) ==
    IF Given(given[k], "ignore", FALSE) THEN <<>>
    ELSE IniOptions(jobs[k].file, Given(given[k], "exactINI", Inherited(k, "exactINI")))

\* Every flag of every job has the last value that the options in front of its
\* input give it, else the one that its INI line gives it, else the one it
\* inherits; and whether and how the line is looked up follows the same rule.
PrecedenceHolds ==
    \A k \in DOMAIN jobs : \A s \in Settings :
        jobs[k].flags[s] = Given(given[k], s, Given(LineFor(k), s, Inherited(k, s)))

\* What configArguments takes for inputs, when it decides that a selector comes
\* too late, is what plan takes for inputs.
PassesAgree ==
    /\ [k \in DOMAIN jobs |-> jobs[k].file] = SubSeq(inputs, 1, Len(jobs))
    /\ phase = "planned" => Len(jobs) = Len(inputs)

\* Run overwrites nothing that the command reads or has written: none of the files
\* that it writes is an input of any job, done or to come, or the configuration, and
\* it writes none of them for two jobs or kinds.
NothingIsOverwritten ==
    \A w \in written :
        /\ path # NoConfig => w.file # path
        /\ \A k \in DOMAIN jobs : w.file # Key[jobs[k].file]
        /\ \A v \in written : v.file = w.file => v = w
=============================================================================
