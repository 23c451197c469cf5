-------------------------------- MODULE MCPages --------------------------------
(* Small instances of FileBrowser, EmailCodes and Factors, which share no    *)
(* state: subject says which of them a behaviour is about                    *)
EXTENDS FileBrowser, EmailCodes, Factors, TLC

CONSTANTS root, docs, old, note

VARIABLE subject

(* A folder in a folder, and a file, in the order they are shown *)
Folders == (docs :> root) @@ (old :> docs) @@ (note :> root)
Rows == {<<docs, old>>, <<docs, note>>, <<old, note>>}

(* Four of the five operations, news and navigations in one behaviour; four *)
(* calls about one code, or three about several                             *)
Brief ==
    /\ budget.asked + budget.news + budget.visits > 0
    /\ asked = MaxCalls => made <= 1

PagesInit ==
    /\ BrowserInit /\ CodesInit /\ FactorsInit
    /\ subject \in {"browser", "codes", "factors"}
    /\ subject # "codes" => form = [f \in Forms |-> Fresh("login")]
PagesNext ==
    /\ UNCHANGED subject
    /\ \/ subject = "browser" /\ BrowserNext /\ UNCHANGED <<codesVars, factorsVars>>
       \/ subject = "codes" /\ CodesNext /\ UNCHANGED <<browserVars, factorsVars>>
       \/ subject = "factors" /\ FactorsNext /\ UNCHANGED <<browserVars, codesVars>>
PagesSpec == PagesInit /\ [][PagesNext]_<<browserVars, codesVars, factorsVars, subject>>
=============================================================================
