------------------------ MODULE IotCredentialProofs ------------------------
(***************************************************************************)
(* Theorems about IotCredential, for any number of runs: what is linked to *)
(* a thing, what a failing run leaves, and what a clean run makes.         *)
(***************************************************************************)
EXTENDS IotCredential, FiniteSetTheorems, TLAPS

\* The steps up to each of the two calls of link_objects.
ToThing  == {"certificate", "findThing", "getThing", "createThing"}
ToPolicy == ToThing \cup {"findPolicy", "getPolicy", "createPolicy", "linkPolicy"}
Steps    == ToPolicy \cup {"linkThing", "secret", "exports", "exited"}

\* The certificate of a run bears its number, so that a new run finds it unused.
Numbers ==
    /\ run \in Nat \ {0}
    /\ CERTIFICATE_ARN \in {0, run}
    /\ policyOn \subseteq 1 .. run
    /\ opt \in Options
    /\ pc \in Steps
    /\ clean \in BOOLEAN /\ thing \in BOOLEAN /\ policy \in BOOLEAN

\* The policy is attached before the thing is, and nothing is before an error.
LinkOrder ==
    /\ pc \in ToPolicy => run \notin policyOn
    /\ pc = "linkThing" => CERTIFICATE_ARN \in policyOn
    /\ pc # "exited" => code = 0
    /\ code = 1 => run \notin policyOn
    /\ thingOn \subseteq policyOn

\* What each step of a clean run finds.
CleanSoFar ==
    /\ pc = "getThing" => thing
    /\ pc = "getPolicy" => policy
    /\ clean =>
        /\ pc # "certificate" => CERTIFICATE_ARN = run /\ run \in certificates
        /\ pc \notin ToThing => thing
        /\ pc = "createPolicy" /\ ~opt.FORCE => ~policy
        /\ pc \notin ToPolicy => policy /\ run \in policyOn
        /\ pc = "linkPolicy" => policy
        /\ pc \in {"secret", "exports", "exited"} => run \in thingOn
        /\ code = 0

IInv == Numbers /\ LinkOrder /\ CleanSoFar

LEMMA Initially == Init => IInv
<1> SUFFICES ASSUME Init PROVE IInv
    OBVIOUS
<1> USE DEF Init
<1>1. Numbers
    BY DEF Numbers, Steps, ToPolicy, ToThing
<1>2. LinkOrder
    BY DEF LinkOrder, ToPolicy, ToThing
<1>3. CleanSoFar
    BY DEF CleanSoFar, ToPolicy, ToThing
<1> QED
    BY <1>1, <1>2, <1>3 DEF IInv

\* The steps up to the links attach nothing.
LEMMA PreparingSteps ==
    ASSUME IInv,
           \/ CreateCertificate \/ FindThing \/ GetThingArn \/ CreateThing \/ FindPolicy \/ GetPolicyArn \/ CreatePolicy
    PROVE  IInv'
<1>1. CASE CreateCertificate
  <2> USE <1>1 DEF CreateCertificate, Go, IInv, Numbers
  <2>1. Numbers'
      BY DEF Steps, ToPolicy, ToThing
  <2>2. LinkOrder'
      BY DEF LinkOrder, ToPolicy, ToThing
  <2>3. CleanSoFar'
      BY DEF CleanSoFar, LinkOrder, ToPolicy, ToThing
  <2> QED
      BY <2>1, <2>2, <2>3
<1>2. CASE FindThing
  <2> USE <1>2 DEF FindThing, Find, service, IInv, Numbers
  <2>1. Numbers'
      BY DEF Steps, ToPolicy, ToThing
  <2>2. LinkOrder'
      BY DEF LinkOrder, ToPolicy, ToThing
  <2>3. CleanSoFar'
      BY DEF CleanSoFar, LinkOrder, ToPolicy, ToThing
  <2> QED
      BY <2>1, <2>2, <2>3
<1>3. CASE GetThingArn
  <2> USE <1>3 DEF GetThingArn, AfterThing, Exit, service, IInv, Numbers
  <2>1. Numbers'
      BY DEF Steps, ToPolicy, ToThing
  <2>2. LinkOrder'
      BY DEF LinkOrder, ToPolicy, ToThing
  <2>3. CleanSoFar'
      BY DEF CleanSoFar, LinkOrder, ToPolicy, ToThing
  <2> QED
      BY <2>1, <2>2, <2>3
<1>4. CASE CreateThing
  <2> USE <1>4 DEF CreateThing, AfterThing, Exit, IInv, Numbers
  <2>1. Numbers'
      BY DEF Steps, ToPolicy, ToThing
  <2>2. LinkOrder'
      BY DEF LinkOrder, ToPolicy, ToThing
  <2>3. CleanSoFar'
      BY DEF CleanSoFar, LinkOrder, ToPolicy, ToThing
  <2> QED
      BY <2>1, <2>2, <2>3
<1>5. CASE FindPolicy
  <2> USE <1>5 DEF FindPolicy, Find, service, IInv, Numbers
  <2>1. Numbers'
      BY DEF Steps, ToPolicy, ToThing
  <2>2. LinkOrder'
      BY DEF LinkOrder, ToPolicy, ToThing
  <2>3. CleanSoFar'
      BY DEF CleanSoFar, LinkOrder, ToPolicy, ToThing
  <2> QED
      BY <2>1, <2>2, <2>3
<1>6. CASE GetPolicyArn
  <2> USE <1>6 DEF GetPolicyArn, Exit, service, IInv, Numbers
  <2>1. Numbers'
      BY DEF Steps, ToPolicy, ToThing
  <2>2. LinkOrder'
      BY DEF LinkOrder, ToPolicy, ToThing
  <2>3. CleanSoFar'
      BY DEF CleanSoFar, LinkOrder, ToPolicy, ToThing
  <2> QED
      BY <2>1, <2>2, <2>3
<1>7. CASE CreatePolicy
  <2> USE <1>7 DEF CreatePolicy, PolicyFailed, Exit, IInv, Numbers
  <2>1. Numbers'
      BY DEF Steps, ToPolicy, ToThing
  <2>2. LinkOrder'
      BY DEF LinkOrder, ToPolicy, ToThing
  <2>3. CleanSoFar'
      BY DEF CleanSoFar, LinkOrder, ToPolicy, ToThing
  <2> QED
      BY <2>1, <2>2, <2>3
<1> QED
    BY <1>1, <1>2, <1>3, <1>4, <1>5, <1>6, <1>7

\* Only the links attach the certificate, first the policy.
LEMMA LinkingSteps ==
    ASSUME IInv,
           \/ LinkPolicy \/ LinkThing \/ StoreSecret \/ WriteExports
    PROVE  IInv'
<1>1. CASE LinkPolicy
  <2> USE <1>1 DEF LinkPolicy, IInv, Numbers
  <2>1. Numbers'
    <3>1. run \in 1 .. run
        OBVIOUS
    <3>2. policyOn' \subseteq 1 .. run
        BY <3>1
    <3> QED
        BY <3>2 DEF Steps, ToPolicy, ToThing
  <2>2. LinkOrder'
      BY DEF LinkOrder, ToPolicy, ToThing
  <2>3. CleanSoFar'
      BY DEF CleanSoFar, LinkOrder, ToPolicy, ToThing
  <2> QED
      BY <2>1, <2>2, <2>3
<1>2. CASE LinkThing
  <2> USE <1>2 DEF LinkThing, Go, IInv, Numbers
  <2>1. Numbers'
      BY DEF Steps, ToPolicy, ToThing
  <2>2. LinkOrder'
      BY DEF LinkOrder, ToPolicy, ToThing
  <2>3. CleanSoFar'
      BY DEF CleanSoFar, LinkOrder, ToPolicy, ToThing
  <2> QED
      BY <2>1, <2>2, <2>3
<1>3. CASE StoreSecret
  <2> USE <1>3 DEF StoreSecret, Go, IInv, Numbers
  <2>1. Numbers'
      BY DEF Steps, ToPolicy, ToThing
  <2>2. LinkOrder'
      BY DEF LinkOrder, ToPolicy, ToThing
  <2>3. CleanSoFar'
      BY DEF CleanSoFar, LinkOrder, ToPolicy, ToThing
  <2> QED
      BY <2>1, <2>2, <2>3
<1>4. CASE WriteExports
  <2> USE <1>4 DEF WriteExports, Exit, service, IInv, Numbers
  <2>1. Numbers'
      BY DEF Steps, ToPolicy, ToThing
  <2>2. LinkOrder'
      BY DEF LinkOrder, ToPolicy, ToThing
  <2>3. CleanSoFar'
      BY DEF CleanSoFar, LinkOrder, ToPolicy, ToThing
  <2> QED
      BY <2>1, <2>2, <2>3
<1> QED
    BY <1>1, <1>2, <1>3, <1>4

LEMMA Boundaries ==
    ASSUME IInv, Interrupt \/ RunAgain \/ UNCHANGED vars
    PROVE  IInv'
<1> USE DEF IInv, Numbers, LinkOrder, CleanSoFar, Steps, ToPolicy, ToThing
<1>1. CASE Interrupt
  <2> USE <1>1 DEF Interrupt, Exit, service
  <2>1. Numbers'
      OBVIOUS
  <2>2. LinkOrder'
      OBVIOUS
  <2>3. CleanSoFar'
      OBVIOUS
  <2> QED
      BY <2>1, <2>2, <2>3
<1>2. CASE RunAgain
  <2>1. run' = run + 1 /\ run' \in Nat \ {0} /\ run' \notin policyOn'
        /\ policyOn' \subseteq 1 .. run'
      BY <1>2 DEF RunAgain, Begin, service
  <2> QED
      BY <1>2, <2>1 DEF RunAgain, Begin, service
<1>3. CASE UNCHANGED vars
    BY <1>3 DEF vars, local, service
<1> QED
    BY <1>1, <1>2, <1>3

THEOREM Invariance == Spec => []IInv
<1>1. IInv /\ [Next]_vars => IInv'
    BY PreparingSteps, LinkingSteps, Boundaries DEF Next, Script
<1> QED
    BY Initially, <1>1, PTL DEF Spec

\* A thing never has a certificate without a policy, whichever call of
\* link_objects failed and wherever the script was interrupted.
THEOREM PolicyBeforeThing == Spec => []ThingHasPolicy
<1>1. IInv => ThingHasPolicy
    BY DEF IInv, LinkOrder, ThingHasPolicy
<1> QED
    BY Invariance, <1>1, PTL

\* A run that ends with exit code 1 has attached its certificate to nothing.
THEOREM ErrorLeavesUnlinked == Spec => []ErrorLinksNothing
<1>1. IInv => ErrorLinksNothing
  <2> SUFFICES ASSUME IInv, code = 1 PROVE CERTIFICATE_ARN \notin policyOn \cup thingOn
      BY DEF ErrorLinksNothing
  <2>1. CERTIFICATE_ARN \notin policyOn
    <3>1. 0 \notin policyOn
      BY DEF IInv, Numbers
    <3> QED
      BY <3>1 DEF IInv, Numbers, LinkOrder
  <2> QED
      BY <2>1 DEF IInv, LinkOrder
<1> QED
    BY Invariance, <1>1, PTL

\* A run without a failing call ends well and links certificate, policy and
\* thing, over whatever the runs before it have left in the service.
THEOREM CleanRunLinks == Spec => []CleanRunMakesTuple
<1>1. IInv => CleanRunMakesTuple
    BY DEF IInv, CleanSoFar, CleanRunMakesTuple, Linked, ToThing, ToPolicy
<1> QED
    BY Invariance, <1>1, PTL
-----------------------------------------------------------------------------
(* The secret *)

\* A run stores the secret once, at its end, with the files and the ARNs it has by then.
SecretSoFar ==
    /\ secret.run \in 0 .. run
    /\ secret = NoSecret <=> secret.run = 0
    /\ pc \notin {"exports", "exited"} => secret.run # run
    /\ CERTIFICATE_ARN # 0 => files = run
    /\ pc \notin ToThing \cup {"exited"} => THING_ARN \in {"None", "arn"}
    /\ SecretMatches

\* When no word but the last may be empty, each is the argument at its own place.
LEMMA ArgumentsInPlace ==
    ASSUME NEW n \in Nat, NEW words, DOMAIN words = 1 .. n,
           NEW i \in 1 .. n - 1, \A k \in 1 .. n - 1 : words[k] # Empty
    PROVE  Argument(words, i) = words[i]
<1>1. ASSUME NEW k \in 1 .. n
      PROVE  IsArgument(words, i, k) <=> k = i
  <2>1. CASE words[k] # Empty
    <3>1. {j \in 1 .. k : words[j] # Empty} = 1 .. k
      BY <2>1
    <3>2. Cardinality(1 .. k) = k
      BY FS_Interval
    <3> QED
      BY <2>1, <3>1, <3>2 DEF IsArgument
  <2>2. CASE words[k] = Empty
    BY <2>2 DEF IsArgument
  <2> QED
    BY <2>1, <2>2
<1> QED
  BY <1>1 DEF Argument

\* An argument is one of the words, or empty.
LEMMA ArgumentIsWord ==
    ASSUME NEW words, NEW i, Argument(words, i) # Empty
    PROVE  \E k \in DOMAIN words : Argument(words, i) = words[k]
  BY DEF Argument

\* The secret of a run that has its certificate, its files and an ARN of the thing.
LEMMA StoredSecret ==
    ASSUME NEW endpoint, run \in Nat \ {0},
           CERTIFICATE_ARN = run, files = run, THING_ARN \in {"None", "arn"}
    PROVE  /\ SecretString(endpoint).certificate_arn = "certificateArn"
           /\ SecretString(endpoint).certificate = "certificate"
           /\ SecretString(endpoint).privatekey = "privateKey"
           /\ SecretString(endpoint).keysOf = run
<1> DEFINE words == StoreArguments(endpoint)
<1>1. words = <<"thingName", THING_ARN, "certificateArn", "crt.pem", "key.prv.pem", endpoint>>
  BY DEF StoreArguments
<1> HIDE DEF words
<1>2. DOMAIN words = 1 .. 6
  BY <1>1
<1>3. \A k \in 1 .. 6 - 1 : words[k] # Empty
  <2>1. words[1] # Empty /\ words[2] # Empty /\ words[3] # Empty /\ words[4] # Empty /\ words[5] # Empty
    BY <1>1 DEF Empty
  <2> QED
    BY <2>1
<1>4. \A i \in 1 .. 6 - 1 : Argument(words, i) = words[i]
  BY <1>2, <1>3, ArgumentsInPlace
<1>5. words[3] = "certificateArn" /\ words[4] = "crt.pem" /\ words[5] = "key.prv.pem"
  BY <1>1
<1>6. Content("crt.pem") = "certificate" /\ Content("key.prv.pem") = "privateKey"
  BY DEF Content
<1>7. /\ Argument(words, 3) = "certificateArn"
      /\ Argument(words, 4) = "crt.pem" /\ Argument(words, 5) = "key.prv.pem"
  BY <1>4, <1>5
<1> QED
  BY <1>6, <1>7 DEF SecretString, words

\* The secret of a run without a certificate: its words have moved up, and none of
\* them is an ARN of a certificate.
LEMMA MovedSecret ==
    ASSUME NEW endpoint \in {"endpoint", Empty},
           CERTIFICATE_ARN = 0, THING_ARN \in {"None", "arn"}
    PROVE  SecretString(endpoint).certificate_arn # "certificateArn"
<1> DEFINE words == StoreArguments(endpoint)
<1>1. words = <<"thingName", THING_ARN, Empty, "crt.pem", "key.prv.pem", endpoint>>
  BY DEF StoreArguments
<1> HIDE DEF words
<1>2. \A k \in DOMAIN words : words[k] # "certificateArn"
  <2>1. DOMAIN words = 1 .. 6
    BY <1>1
  <2>2. /\ words[1] # "certificateArn" /\ words[2] # "certificateArn" /\ words[3] # "certificateArn"
        /\ words[4] # "certificateArn" /\ words[5] # "certificateArn" /\ words[6] # "certificateArn"
    BY <1>1 DEF Empty
  <2> QED
    BY <2>1, <2>2
<1>3. Argument(words, 3) # "certificateArn"
  <2>1. Empty # "certificateArn"
    BY DEF Empty
  <2> QED
    BY <1>2, <2>1, ArgumentIsWord
<1> QED
  BY <1>3 DEF SecretString, words

LEMMA SecretSteps ==
    ASSUME IInv, SecretSoFar, [Next]_vars
    PROVE  SecretSoFar'
<1> USE DEF SecretSoFar, SecretMatches
<1>0. run \in Nat \ {0} /\ CERTIFICATE_ARN \in {0, run}
  BY DEF IInv, Numbers
<1>1. CASE CreateCertificate
  BY <1>0, <1>1 DEF CreateCertificate, Go, ToThing
<1>2. CASE FindThing \/ GetThingArn \/ CreateThing
  BY <1>0, <1>2 DEF FindThing, GetThingArn, CreateThing, Find, AfterThing, Exit, ToThing, service
<1>3. CASE FindPolicy \/ GetPolicyArn \/ CreatePolicy \/ LinkPolicy \/ LinkThing
  <2>1. UNCHANGED <<run, files, secret, CERTIFICATE_ARN, THING_ARN>>
    BY <1>3 DEF FindPolicy, GetPolicyArn, CreatePolicy, LinkPolicy, LinkThing, Find, service
  <2>2. pc \notin ToThing \cup {"exports", "exited"} /\ pc' \notin ToThing \cup {"exports"}
    BY <1>3 DEF FindPolicy, GetPolicyArn, CreatePolicy, PolicyFailed, LinkPolicy,
                LinkThing, Find, Go, Exit, ToThing
  <2> QED
    BY <1>0, <2>1, <2>2
<1>4. CASE StoreSecret
  <2>1. PICK endpoint \in {"endpoint", Empty} : secret' \in {SecretString(endpoint), secret}
    BY <1>4 DEF StoreSecret
  <2>2. pc = "secret" /\ pc' = "exports" /\ UNCHANGED <<THING_ARN, files, run, CERTIFICATE_ARN>>
    BY <1>4 DEF StoreSecret, Go
  <2>3. THING_ARN \in {"None", "arn"} /\ secret.run # run
    BY <2>2 DEF ToThing
  <2>4. CASE secret' = SecretString(endpoint)
    <3>1. secret'.run = run /\ secret' # NoSecret
      <4>1. secret'.run = run
        BY <2>4 DEF SecretString
      <4>2. NoSecret.run = 0
        BY DEF NoSecret
      <4> QED
        BY <1>0, <4>1, <4>2
    <3>2. CASE CERTIFICATE_ARN # 0
      <4>1. CERTIFICATE_ARN = run /\ files = run
        BY <1>0, <3>2
      <4>2. /\ secret'.certificate_arn = "certificateArn" /\ secret'.keysOf = run
            /\ secret'.certificate = "certificate" /\ secret'.privatekey = "privateKey"
        BY <1>0, <2>3, <2>4, <4>1, StoredSecret
      <4> QED
        BY <1>0, <2>2, <2>3, <3>1, <4>1, <4>2
    <3>3. CASE CERTIFICATE_ARN = 0
      <4>1. secret'.certificate_arn # "certificateArn"
        BY <2>3, <2>4, <3>3, MovedSecret
      <4> QED
        BY <1>0, <2>2, <2>3, <3>1, <3>3, <4>1
    <3> QED
      BY <3>2, <3>3
  <2>5. CASE secret' = secret
    BY <1>0, <2>2, <2>3, <2>5
  <2> QED
    BY <2>1, <2>4, <2>5
<1>5. CASE WriteExports \/ Interrupt
  BY <1>0, <1>5 DEF WriteExports, Interrupt, Exit, service
<1>6. CASE RunAgain
  <2>1. /\ run' = run + 1 /\ secret' = secret /\ pc' = "certificate"
        /\ CERTIFICATE_ARN' = 0 /\ files' = files
    BY <1>6 DEF RunAgain, Begin, service
  <2>2. secret'.run \in 0 .. run' /\ secret'.run # run'
    BY <1>0, <2>1
  <2> QED
    BY <2>1, <2>2 DEF ToThing
<1>7. CASE UNCHANGED vars
  BY <1>7 DEF vars, local, service
<1> QED
  BY <1>1, <1>2, <1>3, <1>4, <1>5, <1>6, <1>7 DEF Next, Script

\* The secret of a run that has its certificate bears the ARN of that certificate, and a
\* secret with such an ARN holds that run's certificate and key, whatever calls failed in
\* this run or an earlier one: no argument moves to another's place.
THEOREM SecretIsOwn == Spec => []SecretMatches
<1>1. Init => SecretSoFar
  BY DEF Init, SecretSoFar, SecretMatches, NoSecret, ToThing
<1>2. IInv /\ SecretSoFar /\ [Next]_vars => SecretSoFar'
  BY SecretSteps
<1>3. SecretSoFar => SecretMatches
  BY DEF SecretSoFar
<1> QED
  BY Invariance, <1>1, <1>2, <1>3, PTL DEF Spec
=============================================================================
