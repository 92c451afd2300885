---------------------------- MODULE MCCommandTable ----------------------------
(* Instance of CommandTable for TLC: two nodes, an open and a trusted        *)
(* capability, and beacons that agree, disagree or break one rule.           *)
EXTENDS CommandTable

MCPrintable == 32..126
MCEncodedLen(d) == 20 + Len(d.summary) + 12 * Len(d.args)

MCRegistry ==
    [math |-> [tools |-> <<"solve">>, admission |-> "open",
               codes |-> (<<77, 65>> :> <<101>>)],
     ocr |-> [tools |-> <<"read", "scan">>, admission |-> "trusted",
              codes |-> (<<79, 67>> :> <<101>>)]]

Arg == [name |-> <<120>>, description |-> <<>>, type |-> "string", required |-> TRUE,
        rest |-> TRUE, maxLength |-> 200, allowed |-> <<40, 41, 43, 49>>,
        nesting |-> 32, values |-> <<>>]
Flag == [Arg EXCEPT !.name = <<121>>, !.type = "boolean", !.required = FALSE,
                    !.rest = FALSE, !.maxLength = 0, !.allowed = <<>>, !.nesting = 0]
Calc == [name |-> <<99, 97>>, capability |-> "math", tool |-> "solve", summary |-> <<97>>,
         args |-> <<Arg>>, result |-> [type |-> "number", maxChars |-> 64]]
Scan == [Calc EXCEPT !.name = <<115, 99>>, !.capability = "ocr", !.tool = "scan"]

Declares(commands) ==
    [version |-> <<0, 2>>, capabilities |-> {"math", "ocr"}, commands |-> commands]

MCBeacons ==
    {Declares(<<>>), [Declares(<<Calc>>) EXCEPT !.version = <<0, 1>>],
     Declares(<<Calc>>),
     Declares(<<[Calc EXCEPT !.summary = <<98>>], Scan>>),
     Declares(<<[Calc EXCEPT !.args[1].maxLength = 9]>>),
     Declares(<<[Calc EXCEPT !.args = <<Flag, Arg>>], Scan>>)}

MCPolicies == {[open |-> {1, 2}, trusted |-> {}],
               [open |-> {2}, trusted |-> {1}],
               [open |-> {1}, trusted |-> {}]}
MCPolicy == [open |-> {1}, trusted |-> {}]
=============================================================================
