----------------------------- MODULE VerifyDeploy -----------------------------
(***************************************************************************)
(* cmd/verify-deploy with the checks of pkg/validate, run beside the       *)
(* scripts of ExtensionSetup: it reads the chain, the .env settings, the   *)
(* proxies and the file given with --config one after the other, while     *)
(* the other tools go on.                                                  *)
(*                                                                         *)
(* The checks that read the chain for an extension are a step each.  Those *)
(* of the other groups are one step per group.                             *)
(***************************************************************************)
EXTENDS ExtensionSetup

CONSTANTS
  Settings,   \* what the .env and the addresses file may say
  OtherFiles  \* contents of other files that --config may name

VARIABLES
  setting,    \* the .env and the addresses file
  up,         \* what answers: the extension's port, the two proxies
  verify,     \* the tool: what it was asked, where it is, what it holds
  report      \* Report.Results

verifyVars == <<setting, up, verify, report>>
allVars == <<setupVars, verifyVars>>

Malformed == -1              \* a value that the format check refuses
FirstPublicExtensionId == 65536

nextPublicExtensionId == FirstPublicExtensionId + Len(extensions)

Groups == {"deploy", "register", "services", "tee-version", "tee-machine",
           "test"}

noVerify == [step |-> "all", config |-> "none", other |-> noEnv, pc |-> "idle",
             parsed |-> noEnv, counter |-> 0, missed |-> {}, filter |-> {},
             exit |-> 0]

VerifyInit ==
  /\ SetupInit
  /\ setting \in Settings
  /\ up = {}
  /\ verify = noVerify
  /\ report = {}

result(id, status) == [id |-> id, status |-> status]

passIf(condition, otherwise) == IF condition THEN "PASS" ELSE otherwise

(* The file as it is now, and what parseExtensionEnv makes of it: a key    *)
(* that is not there is 0, and so are both when there is no file.          *)
fileExists ==
  \/ verify.config = "extension.env" /\ env # noEnv
  \/ verify.config = "other"

parseExtensionEnv == IF verify.config = "other" THEN verify.other ELSE env

isLocal == setting.localMode \in {"true", ""}

(* The verdict on a key of the file.                                       *)
keyVerdict(value) == passIf(value \notin {0, Malformed}, "FAIL")

CheckDeployerKeySource ==
  result("D5", passIf(setting.deployKey \/ isLocal, "WARN"))

CheckExtensionEnvFormat ==
  IF fileExists
    THEN {result("D7", keyVerdict(parseExtensionEnv.sender)),
          result("D7", keyVerdict(parseExtensionEnv.id))}
    ELSE {result("D7", "SKIP")}

(* The code at an address, the balance and the chain id are queried; lost  *)
(* is the query that fails.                                                *)
RegisterDeployChecks(lost) ==
  {result("D3", passIf(setting.manager # "zero", "FAIL"))}
    \cup (IF setting.manager = "zero" THEN {}
          ELSE {result("D1", passIf(setting.manager = "contract"
                                      /\ lost # "code", "FAIL"))})
    \cup {CheckDeployerKeySource,
          result("D5", passIf(setting.funded /\ lost # "balance",
                              "FAIL")),
          result("D6", passIf(lost # "chainId", "FAIL"))}
    \cup (IF verify.config = "none" THEN {} ELSE CheckExtensionEnvFormat)

(* GET /info of a proxy whose URL is configured.                           *)
reachable(id, configured, proxy) ==
  result(id, IF configured THEN passIf(proxy \in up, "WARN") ELSE "SKIP")

RegisterServicesChecks ==
  {result("S2", IF verify.config = "none" THEN "SKIP"
                ELSE keyVerdict(parseExtensionEnv.id)),
   result("S5", passIf("extension" \notin up, "WARN")),
   result("S7", "PASS"),
   reachable("S9", setting.extProxyUrl, "extProxy"),
   result("S10", passIf(setting.localMode # "false" \/ setting.proxyKey,
                        "WARN"))}

RegisterTeeVersionChecks ==
  {result("V2", passIf(setting.ownerKey \/ setting.deployKey \/ isLocal,
                       "WARN")),
   result("V4", IF verify.config = "none" \/ ~fileExists THEN "SKIP"
                ELSE keyVerdict(parseExtensionEnv.id)),
   reachable("V6", setting.extProxyUrl, "extProxy")}

RegisterTeeMachineChecks ==
  {result("T1", passIf(~(setting.simulated /\ setting.localMode = "false"),
                       "WARN")),
   reachable("T5", setting.normalProxyUrl, "normalProxy"),
   reachable("T10", setting.extProxyUrl, "extProxy")}

RegisterTestChecks ==
  {result("E1", IF verify.config = "none" \/ ~fileExists THEN "SKIP"
                ELSE keyVerdict(parseExtensionEnv.sender)),
   reachable("E3", setting.extProxyUrl, "extProxy"),
   result("E6", "PASS")}

(* The groups in their order; a step other than "all" ends with its group. *)
afterGroup(group) ==
  IF verify.step # "all" THEN "exit"
  ELSE CASE group = "deploy" -> "register"
         [] group = "register" -> "services"
         [] group = "services" -> "tee-version"
         [] group = "tee-version" -> "tee-machine"
         [] group = "tee-machine" -> "test"
         [] group = "test" -> "exit"

nextCheck(pc) ==
  CASE pc = "register" -> "R1"
    [] pc = "R1" -> "R2"
    [] pc = "R2" -> "R3"
    [] pc = "R3" -> "R4"
    [] pc = "R4" -> "R7"
    [] pc = "R7" -> afterGroup("register")

(* Results are added, and the tool goes on to a check.                     *)
add(results, pc) ==
  /\ report' = report \cup results
  /\ verify' = [verify EXCEPT !.pc = pc]
  /\ UNCHANGED <<setupVars, setting, up>>

(* The same by a check that could not make a query of the chain.           *)
addUnasked(id, results, pc) ==
  /\ mishap
  /\ report' = report \cup results
  /\ verify' = [verify EXCEPT !.pc = pc, !.missed = @ \cup {id}]
  /\ UNCHANGED <<chainVars, mempool, run, env, tee, tested, setting, up>>

(* A check passes on its condition and fails with its query.               *)
check(id, condition) ==
  \/ add({result(id, passIf(condition, "FAIL"))}, nextCheck(id))
  \/ addUnasked(id, {result(id, "FAIL")}, nextCheck(id))

verifyDeploy ==
  /\ verify.pc = "idle"
  /\ \E step \in Groups \cup {"all"},
        config \in {"none", "extension.env", "other"},
        other \in OtherFiles, filter \in {{}, {"D5", "R2"}} :
       /\ config # "other" => other = CHOOSE f \in OtherFiles : TRUE
       /\ filter # {} => step = "all"
       /\ verify' = [verify EXCEPT
                       !.step = step, !.config = config, !.other = other,
                       !.filter = filter,
                       !.pc = IF step = "all" THEN "deploy" ELSE step]
  /\ UNCHANGED <<setupVars, setting, up, report>>

checkDeploy ==
  /\ verify.pc = "deploy"
  /\ \/ add(RegisterDeployChecks("none"), afterGroup("deploy"))
     \/ \E lost \in {"code", "balance", "chainId"} :
          addUnasked("deploy", RegisterDeployChecks(lost), afterGroup("deploy"))

(* RegisterRegistrationChecks parses the file once, before it queries.     *)
checkRegistration ==
  /\ verify.pc = "register"
  /\ IF verify.config = "none" \/ parseExtensionEnv = noEnv
       THEN add({result("R1-R7", "SKIP")}, afterGroup("register"))
       ELSE /\ verify' = [verify EXCEPT !.parsed = parseExtensionEnv,
                                       !.pc = nextCheck("register")]
            /\ UNCHANGED <<setupVars, setting, up, report>>

(* A malformed id ends the group.                                          *)
checkCounter ==
  LET malformed == verify.parsed.id \in {0, Malformed}
      pc == IF malformed THEN afterGroup("register") ELSE nextCheck("R1")
      idResult == IF malformed THEN {result("R2", "FAIL")} ELSE {}
  IN  /\ verify.pc = "R1"
      /\ \/ /\ verify' = [verify EXCEPT !.counter = nextPublicExtensionId,
                                        !.pc = pc]
            /\ report' = report \cup {result("R1", "PASS")} \cup idResult
            /\ UNCHANGED <<setupVars, setting, up>>
         \/ addUnasked("R1", {result("R1", "FAIL")} \cup idResult, pc)

senderMatches ==
  verify.parsed.id \in Ids
    /\ extensions[verify.parsed.id].sender = verify.parsed.sender

checkSender ==
  /\ verify.pc = "R2"
  /\ IF verify.parsed.sender \in {0, Malformed}
       THEN add({}, nextCheck("R2"))
       ELSE check("R2", senderMatches)

isAllowed(field) ==
  verify.parsed.id \in Ids /\ extensions[verify.parsed.id][field]

checkMachineOwner == verify.pc = "R3" /\ check("R3", isAllowed("machineOwner"))

checkKeyType == verify.pc = "R4" /\ check("R4", isAllowed("keyType"))

(* Mutant: one match in front of the extension itself is let through.      *)
isUniqueOffByOne(matches) == Cardinality(matches) <= 2

isUnique(matches) == Cardinality(matches) <= 1

(* The loop asks for the sender of every id below the counter, and passes  *)
(* over an id whose query fails.                                           *)
checkUnique ==
  /\ verify.pc = "R7"
  /\ IF verify.counter = 0 \/ verify.parsed.sender \in {0, Malformed}
       THEN add({}, nextCheck("R7"))
       ELSE LET below == {i \in idsOf(verify.parsed.sender) :
                            FirstPublicExtensionId + i - 1 < verify.counter}
                verdict(seen) == {result("R7", passIf(isUnique(seen), "WARN"))}
            IN  \/ add(verdict(below), nextCheck("R7"))
                \/ \E id \in below :
                     addUnasked("R7", verdict(below \ {id}), nextCheck("R7"))

checkServices ==
  /\ verify.pc = "services"
  /\ add(RegisterServicesChecks, afterGroup("services"))

checkTeeVersion ==
  /\ verify.pc = "tee-version"
  /\ add(RegisterTeeVersionChecks, afterGroup("tee-version"))

checkTeeMachine ==
  /\ verify.pc = "tee-machine"
  /\ add(RegisterTeeMachineChecks, afterGroup("tee-machine"))

checkTest ==
  /\ verify.pc = "test"
  /\ add(RegisterTestChecks, afterGroup("test"))

(* --checks drops the other results before HasFailures decides.            *)
HasFailures(results) == \E r \in results : r.status = "FAIL"

exit ==
  /\ verify.pc = "exit"
  /\ report' = IF verify.filter = {} THEN report
               ELSE {r \in report : r.id \in verify.filter}
  /\ verify' = [verify EXCEPT !.pc = "done",
                              !.exit = IF HasFailures(report') THEN 1 ELSE 0]
  /\ UNCHANGED <<setupVars, setting, up>>

(* start-services.sh, of which the extension's port is on the host only    *)
(* with --local; and any of it going down.                                 *)
servicesUp == {"extProxy", "normalProxy"}
                \cup (IF setting.local THEN {"extension"} ELSE {})

setupStep ==
  /\ SetupNext
  /\ up' = IF tee' # tee THEN servicesUp ELSE up
  /\ UNCHANGED <<setting, verify, report>>

serviceDown ==
  /\ mishap
  /\ \E service \in up : up' = up \ {service}
  /\ UNCHANGED <<chainVars, mempool, run, env, tee, tested, setting, verify,
                 report>>

Checks ==
  \/ checkDeploy
  \/ checkRegistration
  \/ checkCounter
  \/ checkSender
  \/ checkMachineOwner
  \/ checkKeyType
  \/ checkUnique
  \/ checkServices
  \/ checkTeeVersion
  \/ checkTeeMachine
  \/ checkTest
  \/ exit

VerifyNext ==
  \/ verifyDeploy
  \/ Checks
  \/ setupStep
  \/ serviceDown

VerifySpec == VerifyInit /\ [][VerifyNext]_allVars
-----------------------------------------------------------------------------
has(id, status) == result(id, status) \in report

(* When R2 and R7 pass on the file of pre-build.sh, its sender binds       *)
(* itself to its id and to no other, whatever is registered while the      *)
(* checks run and after them (checks.go 372-403 and 471-501 against        *)
(* setExtensionId).  The order of R1 after the file is read matters: R7    *)
(* looks below the counter.  For a file with an id that is registered      *)
(* later, by chance, the claim would be false, and so it would if a query  *)
(* of the loop failed, which R7 passes over (checks.go 477).               *)
CleanReportBinds ==
  verify.config = "extension.env" /\ has("R2", "PASS") /\ has("R7", "PASS")
    /\ "R7" \notin verify.missed =>
    /\ bound[verify.parsed.sender] \in {0, verify.parsed.id}
    /\ idFound(verify.parsed.sender) = verify.parsed.id

(* edgecase-scenarios.md 44 ("Expected: PASSes"): no check of the          *)
(* registration fails on a file that pre-build.sh has written, even while  *)
(* it is run again, unless its own query failed; and the tool, asked for   *)
(* that group of checks, succeeds when no query failed.                    *)
VerifyAfterPreBuild ==
  verify.config = "extension.env" =>
    /\ \A r \in report : r.id \in {"R1", "R2", "R3", "R4"} \ verify.missed =>
         r.status = "PASS"
    /\ verify.step = "register" /\ verify.missed = {} => verify.exit = 0
=============================================================================
