----------------------------- MODULE MCCliPlan -----------------------------
(* CliPlan for TLC, with two sets of arguments: one for the precedence of    *)
(* settings, one for the passes over the arguments and the collisions.       *)
EXTENDS CliPlan, TLC

CONSTANTS Aligned, Absent  \* an address and none

Sets(settings, to) == [s \in settings |-> to]

SettingArgs == {"-i", "-t", "-t:0", "-a", "-G", "--set=cli.exact_ini_matching=true",
                "--bug-fixes=false", "--set=bug_fixes.lha=true", "one.asm", "two.asm"}
CollisionArgs == {"--", "-h", "-o", "-b", "--no-config", "--config", "--config=one.gct",
                  "-g", "80001000", "one.asm", "One.s", "one.gct"}
\* Arguments of INI lines only.
LineArgs == {"-b", "80001000", "80001001", "#", "-a", "-t:0", "-c", "-x",
             "--set=bug_fixes.lha=true", "--set=cli.exact_ini_matching=true", "-l", "-*", "-r",
             "--set=extensions.dot_op=true"}
MCArgs == SettingArgs \cup CollisionArgs \cup LineArgs

RoleOf(a) ==
    CASE a = "--" -> "dashes"
      [] a = "-h" -> "help"
      [] a = "-o" -> "output"
      [] a = "-b" -> "base"
      [] a = "--no-config" -> "no_config"
      [] a = "--config" -> "config"
      [] a = "--config=one.gct" -> "config="
      [] a = "-x" -> "unknown"
      [] a = "#" -> "comment"
      [] a \in {"80001000", "80001001", "one.asm", "two.asm", "One.s", "one.gct"} -> "input"
      [] OTHER -> "option"

AssignsOf(a) ==
    CASE a = "-i" -> Sets({"ignore"}, TRUE)
      [] a = "-t" -> Sets({"text"}, TRUE)
      [] a = "-t:0" -> Sets({"text"}, FALSE)
      [] a = "-a" -> Sets({"inline"}, TRUE)
      [] a = "-l" -> Sets({"log"}, TRUE)
      [] a = "-r" -> Sets({"repair"}, TRUE)
      [] a = "-*" -> Sets({"stars", "text"}, TRUE)
      [] a \in {"-g", "-G"} -> Sets({"convert", "stars", "text"}, TRUE)
      [] a = "--set=cli.exact_ini_matching=true" -> Sets({"exactINI"}, TRUE)
      [] a = "--set=extensions.dot_op=true" -> Sets({"choice"}, TRUE)
      [] a = "--set=bug_fixes.lha=true" -> Sets({"fixes"}, TRUE)
      [] a = "--bug-fixes=false" -> Sets(BugFixes, FALSE)
      [] OTHER -> Sets({}, TRUE)

KeyOf(a) == CASE a = "One.s" -> "one.s" [] a = "--config=one.gct" -> "one.gct" [] OTHER -> a
OutputKeyOf(a, kind) ==
    LET stem == IF a = "two.asm" THEN "two"
                ELSE IF a \in {"one.asm", "One.s", "one.gct"} THEN "one" ELSE "other"
    IN  CASE kind = "gct" -> (IF stem = "one" THEN "one.gct" ELSE stem \o "/gct")
          [] kind = "text" -> stem \o "_codeset.txt"
          [] kind = "log" -> stem \o "_log.txt"

RoleTable == [a \in Args |-> RoleOf(a)]
AssignsTable == [a \in Args |-> AssignsOf(a)]
AddressTable == [a \in Args |-> IF a = "80001000" THEN Aligned ELSE Absent]
KeyTable == [a \in Args |-> KeyOf(a)]
OutputKeyTable == [o \in Args \X Kinds |-> OutputKeyOf(o[1], o[2])]

LineOf(begins, names, values) ==
    [begins |-> begins, names |-> names, comment |-> FALSE, colon |-> TRUE, values |-> values]

\* "one.asm.bak : ..." begins with the name of an input that it does not equal;
\* "one.asm" without colon; a bad option; a line for each input.
Prefix(values) == LineOf({"one.asm"}, {}, values)
SettingInis == {
    <<>>,
    << [LineOf({}, {}, <<>>) EXCEPT !.comment = TRUE],
       Prefix(<<"-t:0", "-b", "80001000", "#", "-x">>),
       LineOf({"one.asm"}, {"one.asm"}, <<"-a", "--set=bug_fixes.lha=true">>) >>,
    << LineOf({"one.asm"}, {"one.asm"}, <<"--set=cli.exact_ini_matching=true", "-l", "-*", "-r">>),
       LineOf({"two.asm"}, {}, <<"-t:0">>),
       LineOf({}, {"two.asm"}, <<"-b", "80001000", "--set=extensions.dot_op=true">>) >>,
    << [LineOf({"two.asm"}, {}, <<>>) EXCEPT !.colon = FALSE],
       LineOf({"two.asm"}, {"two.asm"}, <<"-c", "-b">>) >>,
    << LineOf({"one.asm"}, {"one.asm"}, <<"-b", "80001001">>) >> }
SettingTomls == { [p \in {"gctrm.toml"} |-> Sets({"fixes"}, FALSE)],
                  [p \in {"gctrm.toml"} |-> Sets({"exactINI"}, TRUE)] }
CollisionTomls == { [p \in {} |-> Invalid],
                    [p \in {"gctrm.toml"} |-> Invalid],
                    [p \in {"one.gct"} |-> Sets({"choice"}, TRUE)] }
MCCases ==
    { [typed |-> SettingArgs, length |-> 4, tomls |-> SettingTomls, inis |-> SettingInis],
      [typed |-> CollisionArgs, length |-> 5, tomls |-> CollisionTomls, inis |-> {<<>>}] }
=============================================================================
