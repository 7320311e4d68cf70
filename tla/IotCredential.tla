--------------------------- MODULE IotCredential ---------------------------
(***************************************************************************)
(* scripts/create-iot-credential.sh: make a certificate, find or make a    *)
(* thing and a policy, link the three, store the result as a secret.  Each *)
(* step is a call of a remote service that may fail; the script may be     *)
(* interrupted between two calls; it may be run again, for the same names  *)
(* and with other options, over what earlier runs left behind.             *)
(***************************************************************************)
EXTENDS Naturals, Sequences, FiniteSets

CONSTANT MaxRuns    \* bound: number of runs of the script

ASSUME MaxRunsAssumption == MaxRuns \in Nat \ {0}

VARIABLES
    pc,               \* the step of the current run
    opt,              \* its options FORCE and SECRET_UPDATE
    code,             \* its exit code, 0 while it runs
    CERTIFICATE_ARN,  \* the certificate it made: that of run n is n, 0 is none
    THING_ARN, POLICY_ARN,
    files,            \* the certificate in the local files, 0 is none
    run,              \* history: how many runs have begun
    clean,            \* history: no call of this run has failed for itself
    thing, policy,    \* do they exist in the service?
    certificates,     \* the certificates in the service
    policyOn,         \* those with the policy attached
    thingOn,          \* those attached to the thing
    secret            \* the secret's fields, or NoSecret

local   == <<opt, code, CERTIFICATE_ARN, THING_ARN, POLICY_ARN,
             files, run, clean>>
service == <<thing, policy, certificates, policyOn, thingOn, secret>>
vars    == <<pc, local, service>>

NoSecret == [run |-> 0]

\* What a variable holds when the call that should give its value has failed.
Empty == ""

Go(from, to) == pc = from /\ pc' = to

Exit(n) == pc' = "exited" /\ code' = n
------------------------------------------------------------------------------
\* create_certificate_devmode; nobody looks whether it failed.
CreateCertificate ==
    /\ Go("certificate", IF opt.FORCE THEN "createThing" ELSE "findThing")
    /\ \/ /\ CERTIFICATE_ARN' = run
          /\ files' = run
          /\ certificates' = certificates \cup {run}
          /\ UNCHANGED clean
       \/ /\ CERTIFICATE_ARN' = 0
          /\ clean' = FALSE
          /\ UNCHANGED <<files, certificates>>
    /\ UNCHANGED <<opt, code, THING_ARN, POLICY_ARN, run, thing, policy,
                   policyOn, thingOn, secret>>

\* thing_exists and policy_exists: a call that fails finds nothing.
Find(what, exists, yes, no) ==
    /\ pc = what
    /\ \/ pc' = (IF exists THEN yes ELSE no) /\ UNCHANGED clean
       \/ pc' = no /\ clean' = FALSE
    /\ UNCHANGED <<opt, code, CERTIFICATE_ARN, THING_ARN, POLICY_ARN,
                   files, run, service>>

FindThing  == Find("findThing", thing, "getThing", "createThing")
FindPolicy == Find("findPolicy", policy, "getPolicy", "createPolicy")

AfterThing == IF opt.FORCE THEN "createPolicy" ELSE "findPolicy"

\* get_thing_arn looks for a list "policies" among the things: the query finds
\* nothing and prints None.
GetThingArn ==
    /\ pc = "getThing"
    /\ \/ pc' = AfterThing /\ THING_ARN' = "None" /\ UNCHANGED <<code, clean>>
       \/ Exit(1) /\ THING_ARN' = Empty /\ clean' = FALSE
    /\ UNCHANGED <<opt, CERTIFICATE_ARN, POLICY_ARN, files, run, service>>

CreateThingUnchecked ==
    /\ pc = "createThing"
    /\ pc' = AfterThing
    /\ \/ thing' = TRUE /\ THING_ARN' = "arn" /\ UNCHANGED clean
       \/ THING_ARN' = Empty /\ clean' = FALSE /\ UNCHANGED thing
    /\ UNCHANGED <<opt, code, CERTIFICATE_ARN, POLICY_ARN, files, run,
                   policy, certificates, policyOn, thingOn, secret>>

\* create-thing gives the thing that exists already, as it has no attributes.
CreateThing ==
    /\ pc = "createThing"
    /\ \/ /\ pc' = AfterThing
          /\ thing' = TRUE /\ THING_ARN' = "arn"
          /\ UNCHANGED <<code, clean>>
       \/ Exit(1) /\ THING_ARN' = Empty /\ clean' = FALSE /\ UNCHANGED thing
    /\ UNCHANGED <<opt, CERTIFICATE_ARN, POLICY_ARN, files, run,
                   policy, certificates, policyOn, thingOn, secret>>

GetPolicyArn ==
    /\ pc = "getPolicy"
    /\ \/ pc' = "linkPolicy" /\ POLICY_ARN' = "arn" /\ UNCHANGED <<code, clean>>
       \/ Exit(1) /\ POLICY_ARN' = Empty /\ clean' = FALSE
    /\ UNCHANGED <<opt, CERTIFICATE_ARN, THING_ARN, files, run, service>>

PolicyFailureAlwaysExits == Exit(1)

\* "since you are running force, we assume that you want to reuse an existing
\* policy": only without -F is this the end.
PolicyFailed == IF opt.FORCE THEN pc' = "linkPolicy" /\ UNCHANGED code
                             ELSE Exit(1)

\* create-policy fails, too, when the policy exists.
CreatePolicy ==
    /\ pc = "createPolicy"
    /\ \/ /\ ~policy
          /\ policy' = TRUE /\ POLICY_ARN' = "arn"
          /\ pc' = "linkPolicy"
          /\ UNCHANGED <<code, clean>>
       \/ /\ POLICY_ARN' = Empty
          /\ PolicyFailed
          /\ clean' = (clean /\ policy)
          /\ UNCHANGED policy
    /\ UNCHANGED <<opt, CERTIFICATE_ARN, THING_ARN, files, run,
                   thing, certificates, policyOn, thingOn, secret>>
------------------------------------------------------------------------------
LinkPolicyNoReturn ==
    /\ Go("linkPolicy", "linkThing")
    /\ \/ /\ policy /\ CERTIFICATE_ARN # 0
          /\ policyOn' = policyOn \cup {CERTIFICATE_ARN}
          /\ UNCHANGED clean
       \/ clean' = FALSE /\ UNCHANGED policyOn
    /\ UNCHANGED <<opt, code, CERTIFICATE_ARN, THING_ARN, POLICY_ARN,
                   files, run, thing, policy, certificates, thingOn,
                   secret>>

\* link_objects, first call: after a failure it returns, and the script goes on.
LinkPolicy ==
    /\ pc = "linkPolicy"
    /\ \/ /\ policy /\ CERTIFICATE_ARN # 0
          /\ policyOn' = policyOn \cup {CERTIFICATE_ARN}
          /\ pc' = "linkThing"
          /\ UNCHANGED clean
       \/ pc' = "secret" /\ clean' = FALSE /\ UNCHANGED policyOn
    /\ UNCHANGED <<opt, code, CERTIFICATE_ARN, THING_ARN, POLICY_ARN,
                   files, run, thing, policy, certificates, thingOn,
                   secret>>

LinkThingFailureExits ==
    /\ pc = "linkThing"
    /\ \/ /\ thing /\ CERTIFICATE_ARN # 0
          /\ thingOn' = thingOn \cup {CERTIFICATE_ARN}
          /\ pc' = "secret" /\ UNCHANGED <<code, clean>>
       \/ Exit(1) /\ clean' = FALSE /\ UNCHANGED thingOn
    /\ UNCHANGED <<opt, CERTIFICATE_ARN, THING_ARN, POLICY_ARN, files, run,
                   thing, policy, certificates, policyOn, secret>>

\* Second call; its failure goes unnoticed.
LinkThing ==
    /\ Go("linkThing", "secret")
    /\ \/ /\ thing /\ CERTIFICATE_ARN # 0
          /\ thingOn' = thingOn \cup {CERTIFICATE_ARN}
          /\ UNCHANGED clean
       \/ clean' = FALSE /\ UNCHANGED thingOn
    /\ UNCHANGED <<opt, code, CERTIFICATE_ARN, THING_ARN, POLICY_ARN, files, run,
                   thing, policy, certificates, policyOn, secret>>
------------------------------------------------------------------------------
\* The arguments of store_secret, as they stand in its call; CERTIFICATE_ARN is
\* empty when there is no certificate.
StoreArguments(endpoint) ==
    <<"thingName", THING_ARN, IF CERTIFICATE_ARN = 0 THEN Empty ELSE "certificateArn",
      "crt.pem", "key.prv.pem", endpoint>>

\* base64 of a local file.
Content(file) == CASE files = 0            -> Empty
                   [] file = "crt.pem"     -> "certificate"
                   [] file = "key.prv.pem" -> "privateKey"
                   [] OTHER                -> Empty

\* Unquoted words that are empty do not count: the arguments behind one move up.
IsArgument(words, i, k) ==
    words[k] # Empty /\ Cardinality({j \in 1 .. k : words[j] # Empty}) = i

Argument(words, i) ==
    IF \E k \in DOMAIN words : IsArgument(words, i, k)
    THEN words[CHOOSE k \in DOMAIN words : IsArgument(words, i, k)] ELSE Empty

SecretString(endpoint) ==
    LET arg(i) == Argument(StoreArguments(endpoint), i)
    IN  [thing_arn |-> arg(2), certificate_arn |-> arg(3),
         certificate |-> Content(arg(4)), privatekey |-> Content(arg(5)),
         endpoint |-> arg(6), run |-> run, keysOf |-> files]

\* describe-endpoint, then create-secret or, with -S, update-secret, which
\* expects the secret to exist.
StoreSecret ==
    /\ Go("secret", "exports")
    /\ \E endpoint \in {"endpoint", Empty} :
          \/ /\ opt.SECRET_UPDATE <=> secret # NoSecret
             /\ secret' = SecretString(endpoint)
             /\ clean' = (clean /\ endpoint # Empty)
          \/ clean' = FALSE /\ UNCHANGED secret
    /\ UNCHANGED <<opt, code, CERTIFICATE_ARN, THING_ARN, POLICY_ARN, files, run,
                   thing, policy, certificates, policyOn, thingOn>>

\* The exports file is written and the script ends well, whatever failed.
WriteExports ==
    /\ pc = "exports"
    /\ Exit(0)
    /\ UNCHANGED <<opt, CERTIFICATE_ARN, THING_ARN, POLICY_ARN, files, run, clean,
                   service>>

\* The user interrupts the script between two calls.
Interrupt ==
    /\ pc # "exited"
    /\ Exit(130)
    /\ clean' = FALSE
    /\ UNCHANGED <<opt, CERTIFICATE_ARN, THING_ARN, POLICY_ARN, files, run, service>>

Options == [FORCE : BOOLEAN, SECRET_UPDATE : BOOLEAN]

Begin(n) ==
    /\ pc' = "certificate" /\ opt' \in Options /\ code' = 0
    /\ CERTIFICATE_ARN' = 0 /\ THING_ARN' = Empty /\ POLICY_ARN' = Empty
    /\ run' = n /\ clean' = TRUE

RunAgain ==
    /\ pc = "exited" /\ run < MaxRuns
    /\ Begin(run + 1)
    /\ UNCHANGED <<files, service>>

Init ==
    /\ pc = "certificate" /\ opt \in Options /\ code = 0
    /\ CERTIFICATE_ARN = 0 /\ THING_ARN = Empty /\ POLICY_ARN = Empty
    /\ files = 0 /\ run = 1 /\ clean = TRUE
    /\ thing \in BOOLEAN /\ policy \in BOOLEAN
    /\ certificates = {} /\ policyOn = {} /\ thingOn = {}
    /\ secret = NoSecret

Script == \/ CreateCertificate \/ FindThing \/ GetThingArn \/ CreateThing
          \/ FindPolicy \/ GetPolicyArn \/ CreatePolicy
          \/ LinkPolicy \/ LinkThing \/ StoreSecret \/ WriteExports

Next == Script \/ Interrupt \/ RunAgain

Spec == Init /\ [][Next]_vars
------------------------------------------------------------------------------
Linked == /\ thing /\ policy
          /\ CERTIFICATE_ARN \in certificates \cap policyOn \cap thingOn

\* A run in which no call fails ends with code 0 and the linked tuple, over
\* whatever earlier runs have left, and with -F over an existing policy.
CleanRunMakesTuple == pc = "exited" /\ clean => code = 0 /\ Linked

\* Whatever else fails, a run that has its certificate stores the certificate's
\* ARN under that name: no word in front of it (line 301) is empty.  And a secret
\* with such an ARN, of this run or an earlier one, holds the certificate and the
\* key of the run that stored it, never those of another run nor one for the other.
SecretMatches ==
    /\ secret.run = run /\ CERTIFICATE_ARN # 0 =>
          secret.certificate_arn = "certificateArn"
    /\ secret # NoSecret /\ secret.certificate_arn = "certificateArn" =>
          /\ secret.keysOf = secret.run
          /\ secret.certificate = "certificate" /\ secret.privatekey = "privateKey"

\* A thing never gets a certificate that has no policy, even when a call of
\* link_objects fails or the script is interrupted between the two.
ThingHasPolicy == thingOn \subseteq policyOn

\* A run that ends with an error has linked nothing; what it leaves behind is
\* one certificate that nothing uses.
ErrorLinksNothing ==
    code = 1 => CERTIFICATE_ARN \notin policyOn \cup thingOn

\* "Add an AWS Secrets Manager item with this info" (line 18): the item's
\* thing_arn is that of the thing when no call has failed.
SecretHoldsThingArn == clean /\ secret.run = run => secret.thing_arn = "arn"
==============================================================================
