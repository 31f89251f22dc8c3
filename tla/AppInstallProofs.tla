-------------------------- MODULE AppInstallProofs --------------------------
(***************************************************************************)
(* For any scenarios, retries and faults: an installer outlives its request *)
(* only in a test that fails; the verdicts of the tests say what is true of *)
(* the guest; find_traces finds what is there.                              *)
(***************************************************************************)
EXTENDS AppInstall, TLAPS

\* Zenon proves most steps; the others name the prover they need.
USE ZenonT(20)

-----------------------------------------------------------------------------
(* The inductive invariant.                                                 *)

TestName == scn.tests[turn]

\* Step n of the current test has been done.
Past(n) == pc > n \/ (pc = 0 /\ verdicts[turn] = "pass")

Place ==
  /\ scn \in Scenarios /\ turn \in 1..Len(scn.tests) /\ pc \in 0..Len(Script)
  /\ verdicts \in [1..Len(scn.tests) -> {"none", "pass", "fail"}]
  /\ call \in {"none", "wait", "ok", "error"}
  /\ daemon \in {"down", "starting", "up"} /\ devices \in BOOLEAN /\ reason \in BOOLEAN
  /\ setup \subseteq {"cert", "env", "level"}
  /\ call # "none" => pc > 0 /\ Script[pc].do \in {"install", "uninstall"}

\* An installer that has come to attempt k and to w.
Job(p, k, w, c) ==
  [turn |-> p.turn, op |-> p.op, version |-> p.version, attempt |-> k, at |-> w, child |-> c]

\* Whose the installers are that are at work.
Mine(p) ==
  /\ p = Job(p, p.attempt, p.at, p.child) /\ p.turn \in 1..turn
  /\ verdicts[p.turn] = "fail" \/ (p.turn = turn /\ call \in {"wait", "error"})
  /\ began # "busy" => p.turn = turn
Owned ==
  /\ \A t \in 1..Len(scn.tests) : t > turn \/ (t = turn /\ pc > 0) => verdicts[t] = "none"
  /\ \A p \in procs : Mine(p)
  /\ \A p, q \in procs : p.turn = q.turn => p = q

Excused == reason \/ scn.os = "arch" \/ began # Needed
Excuses == FailsForAReason /\ (call = "error" => Excused)

\* No installer but the one the test waits for is at work in the guest.
Steady == began # "busy" /\ call # "error" /\ (pc = 0 => verdicts[turn] = "pass")

\* A daemon that runs has its program, if it had it when the test began.
Disk == daemon # "down" /\ began # "broken" => Files \ {"socket"} \subseteq files

\* What an installer has done when it has come to where p is.
Installed(v) == version = v /\ daemon # "down"
Removed == daemon = "down" /\ (reason \/ (~devices /\ files = {}))
Works(p) ==
  /\ p.turn = turn /\ p.op = Script[pc].do /\ p.version = Arg
  /\ p.attempt \in 1..MaxInstallAttempts /\ p.at \in {"start", "middle", "exit"}
  /\ p.at \in {"middle", "exit"} /\ p.op = "uninstall" => daemon = "down" /\ (reason \/ ~devices)
  /\ p.at = "exit" => IF p.op = "install" THEN Installed(Arg) ELSE Removed

Request ==
  /\ \A p \in procs : Works(p)
  /\ call = "ok" /\ Script[pc].do = "install" => Installed(Arg) /\ (scn.prompt => daemon = "up")
  /\ call = "ok" /\ Script[pc].do = "uninstall" => Removed

\* The daemon is as it was when the test began, until the test has looked at it.
Begun == pc = 1 /\ began \in {"up", "down"} => daemon = began

\* How far each test has come.
Clean == Past(1) => began # "up"
Running(n, v) == Past(n) => Installed(v) /\ (scn.prompt => daemon = "up")
InPrevious ==
  /\ turn = 1 /\ setup \subseteq {"cert", "env"} /\ Clean /\ Running(2, "old")
  /\ Past(3) => daemon = "up"
  /\ Past(4) => "cert" \in setup
  /\ Past(5) => "env" \in setup
InUpgrade == Running(3, "new") /\ (Past(5) => daemon = "up")
InUninstall ==
  /\ pc \in {2, 3} /\ call = "none" => daemon = "up"
  /\ Past(3) => Removed
  /\ Past(4) => files \cap Range(TraceList) = {}
  /\ Past(6) => ~devices
InNew ==
  /\ Clean /\ Running(2, "new")
  /\ Past(3) => daemon = "up"
  /\ Past(4) => "level" \in setup
  /\ Past(5) => "cert" \in setup
  /\ Past(6) => "env" \in setup
Progress ==
  CASE TestName = "previous" -> InPrevious
    [] TestName = "upgrade" -> InUpgrade
    [] TestName = "uninstall" -> InUninstall
    [] TestName = "new" -> InNew

Guest == Disk /\ Request /\ Begun /\ Progress

IInv == Place /\ Owned /\ Excuses /\ (Steady => Guest)

Distinct(s) == \A i, j \in 1..Len(s) : s[i] = s[j] => i = j

-----------------------------------------------------------------------------
(* find_traces: filter_non_existent_paths keeps the paths that exist.       *)

\* What is left of the paths after the loop has looked at the last i of them:
\* those before are in their places, those behind exist, none that exists is lost.
Kept(paths, i, s) ==
  /\ s \in Seq(Files) /\ Distinct(s) /\ Len(s) >= Len(paths) - i
  /\ \A j \in 1..Len(paths) - i : s[j] = paths[j]
  /\ \A j \in Len(paths) - i + 1..Len(s) : s[j] \in files
  /\ Range(s) \subseteq Range(paths)
  /\ \A x \in Range(paths) \cap files : x \in Range(s)

Look(paths, i, s) ==
  LET k == Len(paths) - i + 1 IN IF s[k] \in files THEN s ELSE SwapRemove(s, k)

(* Removing by swapping removes one element and keeps the others. *)
LEMMA SwapRemoveFacts ==
  ASSUME NEW s \in Seq(Files), Distinct(s), NEW k \in 1..Len(s)
  PROVE  /\ SwapRemove(s, k) \in Seq(Files) /\ Len(SwapRemove(s, k)) = Len(s) - 1
         /\ Distinct(SwapRemove(s, k))
         /\ \A j \in 1..k - 1 : SwapRemove(s, k)[j] = s[j]
         /\ \A j \in k..Len(s) - 1 : \E m \in k + 1..Len(s) : SwapRemove(s, k)[j] = s[m]
         /\ Range(SwapRemove(s, k)) = Range(s) \ {s[k]}
<1> DEFINE n == Len(s)
           t == SwapRemove(s, k)
<1>1. n \in Nat /\ k \in 1..n /\ \A j \in 1..n : s[j] \in Files
  BY SMT
<1>2. DOMAIN s = 1..n
  BY SMT
<1> HIDE DEF n
<1>3. t = [j \in 1..n - 1 |-> IF j = k THEN s[n] ELSE s[j]]
  BY DEF SwapRemove, n
<1> HIDE DEF t
<1>4. \A j \in 1..n - 1 : t[j] = (IF j = k THEN s[n] ELSE s[j]) /\ t[j] \in Files
  BY SMT, <1>1, <1>3
<1>5. t \in [1..n - 1 -> Files] /\ n - 1 \in Nat
  BY SMT, <1>1, <1>3
<1>6. t \in Seq(Files) /\ Len(t) = n - 1 /\ DOMAIN t = 1..n - 1
  BY SMT, <1>5
<1>7. Distinct(t)
  <2>1. \A i, j \in 1..n : s[i] = s[j] => i = j
    BY DEF Distinct, n
  <2>2. \A i, j \in 1..n - 1 : t[i] = t[j] => i = j
    BY SMT, <1>1, <1>4, <2>1
  <2>3. QED
    BY <1>6, <2>2 DEF Distinct
<1>8. \A j \in 1..k - 1 : t[j] = s[j]
  BY SMT, <1>1, <1>4
<1>9. \A j \in k..n - 1 : \E m \in k + 1..n : t[j] = s[m]
  <2>1. TAKE j \in k..n - 1
  <2>2. CASE j = k
    BY SMT, <1>1, <1>4, <2>2
  <2>3. CASE j # k
    <3>1. j \in k + 1..n /\ t[j] = s[j]
      BY SMT, <1>1, <1>4, <2>3
    <3>2. QED
      BY <3>1
  <2>4. QED
    BY <2>2, <2>3
<1>10. Range(t) = Range(s) \ {s[k]}
  <2>1. ASSUME NEW j \in 1..n - 1
        PROVE  t[j] \in Range(s) \ {s[k]}
    <3>1. PICK m \in 1..n : m # k /\ t[j] = s[m]
      BY SMT, <1>1, <1>4
    <3>2. s[m] # s[k]
      BY <1>1, <3>1 DEF Distinct, n
    <3>3. QED
      BY <1>2, <3>1, <3>2 DEF Range
  <2>2. ASSUME NEW m \in 1..n, s[m] # s[k]
        PROVE  s[m] \in Range(t)
    <3>1. PICK j \in 1..n - 1 : t[j] = s[m]
      <4>1. CASE m = n
        <5>1. k \in 1..n - 1 /\ t[k] = s[m]
          BY SMT, <1>1, <1>4, <2>2, <4>1
        <5>2. QED
          BY <5>1
      <4>2. CASE m # n
        <5>1. m \in 1..n - 1 /\ t[m] = s[m]
          BY SMT, <1>1, <1>4, <2>2, <4>2
        <5>2. QED
          BY <5>1
      <4>3. QED
        BY <4>1, <4>2
    <3>2. QED
      BY <1>6, <3>1 DEF Range
  <2>3. QED
    BY <1>2, <1>6, <2>1, <2>2 DEF Range
<1>11. QED
  BY <1>6, <1>7, <1>8, <1>9, <1>10 DEF t, n

LEMMA LookKeeps ==
  ASSUME NEW paths \in Seq(Files), NEW i \in 1..Len(paths), NEW s, Kept(paths, i - 1, s)
  PROVE  Kept(paths, i, Look(paths, i, s))
<1> DEFINE n == Len(paths)
           k == n - i + 1
           t == Look(paths, i, s)
<1>1. n \in Nat /\ i \in 1..n /\ k \in 1..n /\ n - (i - 1) = k /\ n - i = k - 1 /\ n - i + 1 = k
  BY SMT
<1>2. /\ s \in Seq(Files) /\ Distinct(s) /\ Len(s) \in Nat /\ Len(s) >= k
      /\ \A j \in 1..k : s[j] = paths[j]
      /\ \A j \in k + 1..Len(s) : s[j] \in files
      /\ Range(s) \subseteq Range(paths)
      /\ \A x \in Range(paths) \cap files : x \in Range(s)
  BY SMT, <1>1 DEF Kept
<1>3. SUFFICES /\ t \in Seq(Files) /\ Distinct(t) /\ Len(t) >= k - 1
               /\ \A j \in 1..k - 1 : t[j] = paths[j]
               /\ \A j \in k..Len(t) : t[j] \in files
               /\ Range(t) \subseteq Range(paths)
               /\ \A x \in Range(paths) \cap files : x \in Range(t)
  BY <1>1 DEF Kept
<1> HIDE DEF n
<1>4. CASE s[k] \in files
  <2>1. t = s
    BY <1>4 DEF Look, n
  <2>2. \A j \in k..Len(s) : s[j] \in files
    BY SMT, <1>1, <1>2, <1>4
  <2>3. QED
    BY SMT, <1>1, <1>2, <2>1, <2>2
<1>5. CASE s[k] \notin files
  <2>1. t = SwapRemove(s, k)
    BY <1>5 DEF Look, n
  <2>2. k \in 1..Len(s)
    BY SMT, <1>1, <1>2
  <2> HIDE DEF t, k
  <2>3. /\ t \in Seq(Files) /\ Len(t) = Len(s) - 1 /\ Distinct(t)
        /\ \A j \in 1..k - 1 : t[j] = s[j]
        /\ \A j \in k..Len(s) - 1 : \E m \in k + 1..Len(s) : t[j] = s[m]
        /\ Range(t) = Range(s) \ {s[k]}
    <3>1. s \in Seq(Files) /\ Distinct(s)
      BY <1>2
    <3>2. /\ SwapRemove(s, k) \in Seq(Files) /\ Len(SwapRemove(s, k)) = Len(s) - 1
          /\ Distinct(SwapRemove(s, k))
          /\ \A j \in 1..k - 1 : SwapRemove(s, k)[j] = s[j]
          /\ \A j \in k..Len(s) - 1 : \E m \in k + 1..Len(s) : SwapRemove(s, k)[j] = s[m]
          /\ Range(SwapRemove(s, k)) = Range(s) \ {s[k]}
      BY <2>2, <3>1, SwapRemoveFacts
    <3>3. QED
      BY <2>1, <3>2
  <2>4. Len(t) >= k - 1 /\ \A j \in 1..k - 1 : t[j] = paths[j]
    BY SMT, <1>1, <1>2, <2>2, <2>3
  <2>5. \A j \in k..Len(t) : t[j] \in files
    BY <1>2, <2>2, <2>3
  <2>6. Range(t) \subseteq Range(paths) /\ \A x \in Range(paths) \cap files : x \in Range(t)
    BY <1>2, <1>5, <2>3
  <2>7. QED
    BY <2>3, <2>4, <2>5, <2>6
<1>6. QED
  BY <1>4, <1>5

(* The loop, for the lists of paths there are: none is longer than five. *)
LEMMA FilterExact ==
  ASSUME NEW paths \in Seq(Files), Len(paths) \in 0..5, Distinct(paths)
  PROVE  LET left == FilterNonExistentPaths(paths) IN
           left \in Seq(Files) /\ Distinct(left) /\ Range(left) = files \cap Range(paths)
<1> DEFINE n == Len(paths)
           Loop(g) == [i \in 0..n |-> IF i = 0 THEN paths
                                      ELSE IF g[i - 1][n - i + 1] \in files THEN g[i - 1]
                                      ELSE SwapRemove(g[i - 1], n - i + 1)]
           f == CHOOSE g : g = Loop(g)
           s1 == Look(paths, 1, paths)
           s2 == Look(paths, 2, s1)
           s3 == Look(paths, 3, s2)
           s4 == Look(paths, 4, s3)
           s5 == Look(paths, 5, s4)
           h == [i \in 0..n |-> IF i = 0 THEN paths ELSE IF i = 1 THEN s1 ELSE IF i = 2 THEN s2
                                ELSE IF i = 3 THEN s3 ELSE IF i = 4 THEN s4 ELSE s5]
<1>1. FilterNonExistentPaths(paths) = f[n]
  BY DEF FilterNonExistentPaths
<1>2. n \in 0..5
  OBVIOUS
<1>3. \A g, i : i \in 0..n => Loop(g)[i] = IF i = 0 THEN paths ELSE Look(paths, i, g[i - 1])
  BY DEF Look
<1>4. h = Loop(h)
  <2> HIDE DEF n, s1, s2, s3, s4, s5
  <2>1. ASSUME NEW i \in 0..n
        PROVE  h[i] = Loop(h)[i]
    <3>1. Loop(h)[i] = IF i = 0 THEN paths ELSE Look(paths, i, h[i - 1])
      BY <1>3
    <3>2. i = 0 \/ i = 1 \/ i = 2 \/ i = 3 \/ i = 4 \/ i = 5
      BY SMT, <1>2
    <3>3. i # 0 => i - 1 \in 0..n
      BY SMT, <1>2
    <3>4. i = 0 => h[i] = paths
      OBVIOUS
    <3>5. i = 1 => h[i] = s1 /\ h[i - 1] = paths
      BY SMT, <3>3
    <3>6. i = 2 => h[i] = s2 /\ h[i - 1] = s1
      BY SMT, <3>3
    <3>7. i = 3 => h[i] = s3 /\ h[i - 1] = s2
      BY SMT, <3>3
    <3>8. i = 4 => h[i] = s4 /\ h[i - 1] = s3
      BY SMT, <3>3
    <3>9. i = 5 => h[i] = s5 /\ h[i - 1] = s4
      BY SMT, <3>3
    <3> HIDE DEF h, Loop
    <3>10. QED
      BY <3>1, <3>2, <3>4, <3>5, <3>6, <3>7, <3>8, <3>9 DEF s1, s2, s3, s4, s5
  <2>2. DOMAIN h = 0..n /\ DOMAIN Loop(h) = 0..n /\ h = [i \in 0..n |-> h[i]]
        /\ Loop(h) = [i \in 0..n |-> Loop(h)[i]]
    BY SMT
  <2> HIDE DEF h, Loop
  <2>3. QED
    BY <2>1, <2>2
<1>5. f = Loop(f)
  <2> HIDE DEF h, Loop
  <2>1. \E g : g = Loop(g)
    BY <1>4
  <2>2. QED
    BY <2>1
<1> HIDE DEF f, Loop, h
<1>6. f[0] = paths /\ \A i \in 1..n : f[i] = Look(paths, i, f[i - 1])
  BY SMT, <1>2, <1>3, <1>5
<1>7. Kept(paths, 0, f[0])
  <2>1. n - 0 = n /\ n \in Nat
    BY SMT, <1>2
  <2>2. QED
    BY SMT, <1>6, <2>1 DEF Kept
<1>8. ASSUME NEW i \in 1..n, Kept(paths, i - 1, f[i - 1])
      PROVE  Kept(paths, i, f[i])
  BY <1>6, <1>8, LookKeeps
<1> HIDE DEF n
<1>9. n >= 1 => Kept(paths, 1, f[1])
  BY SMT, <1>2, <1>7, <1>8
<1>10. n >= 2 => Kept(paths, 2, f[2])
  BY SMT, <1>2, <1>9, <1>8
<1>11. n >= 3 => Kept(paths, 3, f[3])
  BY SMT, <1>2, <1>10, <1>8
<1>12. n >= 4 => Kept(paths, 4, f[4])
  BY SMT, <1>2, <1>11, <1>8
<1>13. n >= 5 => Kept(paths, 5, f[5])
  BY SMT, <1>2, <1>12, <1>8
<1>14. Kept(paths, n, f[n])
  <2>1. n = 0 \/ n = 1 \/ n = 2 \/ n = 3 \/ n = 4 \/ n = 5
    BY SMT, <1>2
  <2>2. QED
    BY SMT, <2>1, <1>7, <1>9, <1>10, <1>11, <1>12, <1>13
<1>15. /\ f[n] \in Seq(Files) /\ Distinct(f[n])
       /\ \A j \in 1..Len(f[n]) : f[n][j] \in files
       /\ Range(f[n]) \subseteq Range(paths)
       /\ \A x \in Range(paths) \cap files : x \in Range(f[n])
  BY SMT, <1>2, <1>14 DEF Kept, n
<1>16. Range(f[n]) \subseteq files
  BY SMT, <1>15 DEF Range
<1>17. QED
  BY <1>1, <1>15, <1>16

LEMMA TracePaths ==
  TraceList \in Seq(Files) /\ Len(TraceList) \in 0..5 /\ Distinct(TraceList)
<1>1. \/ TraceList = <<"program", "log", "settings">>
      \/ TraceList = <<"program", "log", "socket", "unit">>
      \/ TraceList = <<"settings", "log", "program", "socket", "unit">>
  BY DEF TraceList
<1>2. CASE TraceList = <<"program", "log", "settings">>
  BY SMT, <1>2 DEF Files, Distinct
<1>3. CASE TraceList = <<"program", "log", "socket", "unit">>
  BY SMT, <1>3 DEF Files, Distinct
<1>4. CASE TraceList = <<"settings", "log", "program", "socket", "unit">>
  BY SMT, <1>4 DEF Files, Distinct
<1>5. QED
  BY <1>1, <1>2, <1>3, <1>4

-----------------------------------------------------------------------------
(* The scripts.                                                             *)

LEMMA Names ==
  ASSUME scn \in Scenarios, turn \in 1..Len(scn.tests)
  PROVE  TestName \in {"previous", "upgrade", "uninstall", "new"}
BY SMT, ScenarioAssumption DEF TestName

Step(n, d, a) == pc = n /\ Script[pc].do = d /\ Arg = a

\* The step that a test is at.
AtStep ==
  /\ TestName = "previous" => /\ Len(Script) = 5
                              /\ \/ Step(1, "status", "down") \/ Step(2, "install", "old")
                                 \/ Step(3, "status", "up") \/ Step(4, "set_up", "cert")
                                 \/ Step(5, "set_up", "env")
  /\ TestName = "upgrade" => /\ Len(Script) = 7
                             /\ \/ Step(1, "status", "up") \/ Step(2, "block", "none")
                                \/ Step(3, "install", "new") \/ Step(4, "sleep", "none")
                                \/ Step(5, "status", "up") \/ Step(6, "leaks", "none")
                                \/ Step(7, "settings", "none")
  /\ TestName = "uninstall" => /\ Len(Script) = 6
                               /\ \/ Step(1, "status", "up") \/ Step(2, "login", "none")
                                  \/ Step(3, "uninstall", "none") \/ Step(4, "traces", "none")
                                  \/ Step(5, "status", "down") \/ Step(6, "devices", "none")
  /\ TestName = "new" => /\ Len(Script) = 6
                         /\ \/ Step(1, "status", "down") \/ Step(2, "install", "new")
                            \/ Step(3, "status", "up") \/ Step(4, "set_up", "level")
                            \/ Step(5, "set_up", "cert") \/ Step(6, "set_up", "env")

LEMMA ScriptLength ==
  ASSUME scn \in Scenarios, turn \in 1..Len(scn.tests)
  PROVE  /\ Len(Script) \in {5, 6, 7}
         /\ TestName = "previous" => Len(Script) = 5
         /\ TestName = "upgrade" => Len(Script) = 7
         /\ TestName \in {"uninstall", "new"} => Len(Script) = 6
<1>1. TestName = "previous" => Script = InstallPreviousApp
  BY DEF Script, TestName
<1>2. TestName = "upgrade" => Script = UpgradeApp
  BY DEF Script, TestName
<1>3. TestName = "uninstall" => Script = UninstallApp
  BY DEF Script, TestName
<1>4. TestName = "new" => Script = InstallNewApp
  BY DEF Script, TestName
<1>5. /\ Len(InstallPreviousApp) = 5 /\ Len(UpgradeApp) = 7
      /\ Len(UninstallApp) = 6 /\ Len(InstallNewApp) = 6
  BY DEF InstallPreviousApp, UpgradeApp, UninstallApp, InstallNewApp
<1>6. QED
  BY <1>1, <1>2, <1>3, <1>4, <1>5, Names

LEMMA Long == \A n \in {5, 6, 7} : 0 \in 0..n /\ 1 \in 0..n /\ 2 < n /\ 3 < n
BY SMT

LEMMA Where ==
  ASSUME Place, pc > 0
  PROVE  AtStep
<1>0. pc \in 1..Len(Script) /\ TestName \in {"previous", "upgrade", "uninstall", "new"}
  BY SMT, Names, ScriptLength DEF Place
<1>1. CASE TestName = "previous"
  <2>1. Script = InstallPreviousApp
    BY <1>1 DEF Script, TestName
  <2>2. QED
    BY SMT, <1>0, <1>1, <2>1 DEF InstallPreviousApp, AtStep, Step, Arg, Status, Install, SetUp
<1>2. CASE TestName = "upgrade"
  <2>1. Script = UpgradeApp
    BY <1>2 DEF Script, TestName
  <2>2. QED
    BY SMT, <1>0, <1>2, <2>1 DEF UpgradeApp, AtStep, Step, Arg, Status, Install, Do
<1>3. CASE TestName = "uninstall"
  <2>1. Script = UninstallApp
    BY <1>3 DEF Script, TestName
  <2>2. QED
    BY SMT, <1>0, <1>3, <2>1 DEF UninstallApp, AtStep, Step, Arg, Status, Do
<1>4. CASE TestName = "new"
  <2>1. Script = InstallNewApp
    BY <1>4 DEF Script, TestName
  <2>2. QED
    BY SMT, <1>0, <1>4, <2>1 DEF InstallNewApp, AtStep, Step, Arg, Status, Install, SetUp
<1>5. QED
  BY <1>0, <1>1, <1>2, <1>3, <1>4

(* The steps in which the guest is installed or removed. *)
LEMMA WhereInstaller ==
  ASSUME Place, pc > 0, Script[pc].do \in {"install", "uninstall"}
  PROVE  \/ TestName = "previous" /\ Step(2, "install", "old")
         \/ TestName = "new" /\ Step(2, "install", "new")
         \/ TestName = "upgrade" /\ Step(3, "install", "new")
         \/ TestName = "uninstall" /\ Step(3, "uninstall", "none")
<1>1. AtStep /\ TestName \in {"previous", "upgrade", "uninstall", "new"}
  BY Where, Names DEF Place
<1>2. QED
  BY <1>1 DEF AtStep, Step

LEMMA SameTest ==
  ASSUME UNCHANGED <<scn, turn>>
  PROVE  Script' = Script /\ TestName' = TestName /\ TraceList' = TraceList
BY DEF Script, TestName, TraceList

(* A step that is done; the last one is the verdict. *)
LEMMA ProceedFacts ==
  ASSUME Place, pc > 0, Proceed, UNCHANGED <<scn, turn>>
  PROVE  /\ pc' \in 0..Len(Script) /\ pc' # 1 /\ (pc' > 0 => pc' = pc + 1)
         /\ verdicts' \in [1..Len(scn.tests) -> {"none", "pass", "fail"}]
         /\ FailsForAReason'
         /\ \A n \in 1..Len(Script) : Past(n)' <=> n <= pc
<1>0. pc \in 1..Len(Script) /\ Len(Script) \in {5, 6, 7}
  BY SMT, ScriptLength DEF Place
<1>1. CASE pc < Len(Script)
  <2>1. pc' = pc + 1 /\ verdicts' = verdicts
    BY <1>1 DEF Proceed
  <2>2. /\ pc' \in 0..Len(Script) /\ pc' # 1 /\ pc' # 0
        /\ \A n \in 1..Len(Script) : pc' > n <=> n <= pc
    BY SMT, <1>0, <1>1, <2>1
  <2>3. QED
    BY <2>1, <2>2 DEF Place, FailsForAReason, Past
<1>2. CASE ~(pc < Len(Script))
  <2>1. pc = Len(Script)
    BY SMT, <1>0, <1>2
  <2>2. pc' = 0 /\ verdicts' = [verdicts EXCEPT ![turn] = "pass"]
    BY <1>2 DEF Proceed
  <2>3. verdicts'[turn'] = "pass"
    BY <2>2 DEF Place
  <2>4. verdicts' \in [1..Len(scn.tests) -> {"none", "pass", "fail"}]
    BY <2>2 DEF Place
  <2>5. \A n \in 1..Len(Script) : Past(n)' /\ n <= pc
    BY SMT, <1>0, <2>1, <2>2, <2>3 DEF Past
  <2>6. QED
    BY SMT, <1>0, <2>2, <2>3, <2>4, <2>5 DEF FailsForAReason
<1>3. QED
  BY <1>1, <1>2

LEMMA FailsFacts ==
  ASSUME Place, Fails, UNCHANGED <<scn, turn>>
  PROVE  /\ pc' = 0 /\ pc' \in 0..Len(Script) /\ verdicts'[turn'] = "fail" /\ ~Steady'
         /\ verdicts' \in [1..Len(scn.tests) -> {"none", "pass", "fail"}]
<1>1. pc' = 0 /\ verdicts'[turn'] = "fail"
  BY DEF Place, Fails
<1>2. verdicts' \in [1..Len(scn.tests) -> {"none", "pass", "fail"}]
  BY DEF Place, Fails
<1>3. 0 \in 0..Len(Script)
  BY ScriptLength, Long DEF Place
<1>4. QED
  BY <1>1, <1>2, <1>3 DEF Steady

LEMMA PastFacts ==
  ASSUME Place, pc > 0, NEW n \in 1..7
  PROVE  Past(n) <=> pc > n
BY SMT, ScriptLength DEF Place, Past

-----------------------------------------------------------------------------
-----------------------------------------------------------------------------
(* Whose the installers are.                                                *)

LEMMA JobFacts ==
  ASSUME NEW p, p = Job(p, p.attempt, p.at, p.child)
  PROVE  /\ \A w : [p EXCEPT !.at = w] = Job(p, p.attempt, w, p.child)
         /\ \A k : [p EXCEPT !.attempt = k] = Job(p, k, p.at, p.child)
         /\ \A c : [p EXCEPT !.child = c] = Job(p, p.attempt, p.at, c)
<1> DEFINE r == Job(p, p.attempt, p.at, p.child)
<1>1. /\ \A w : [r EXCEPT !.at = w] = Job(p, p.attempt, w, p.child)
      /\ \A k : [r EXCEPT !.attempt = k] = Job(p, k, p.at, p.child)
      /\ \A c : [r EXCEPT !.child = c] = Job(p, p.attempt, p.at, c)
  BY SMT DEF Job
<1>2. p = r
  OBVIOUS
<1> HIDE DEF r
<1>3. QED
  BY <1>1, <1>2

(* An installer goes on. *)
LEMMA OwnedOn ==
  ASSUME Owned, NEW p \in procs, NEW k, NEW w, NEW c, Becomes(p, Job(p, k, w, c)),
         UNCHANGED <<scn, turn, pc, verdicts, call, began>>
  PROVE  Owned'
<1> DEFINE q == Job(p, k, w, c)
<1>1. q.turn = p.turn /\ q.attempt = k /\ q.at = w /\ q.child = c /\ Job(q, k, w, c) = q
  BY SMT DEF Job
<1>2. procs' = (procs \ {p}) \cup {q}
  BY DEF Becomes
<1>3. \A r \in procs : p.turn = r.turn => p = r
  BY DEF Owned
<1> HIDE DEF q
<1>4. \A r \in procs' : r = q \/ (r \in procs /\ r.turn # p.turn)
  BY <1>2, <1>3
<1>5. \A r, o \in procs' : r.turn = o.turn => r = o
  <2>1. ASSUME NEW r \in procs', NEW o \in procs', r.turn = o.turn PROVE r = o
    BY <1>1, <1>4, <2>1 DEF Owned
  <2>2. QED
    BY <2>1
<1>6. ASSUME NEW r \in procs' PROVE Mine(r)'
  <2>1. Mine(p) /\ (r \in procs => Mine(r))
    BY DEF Owned
  <2>2. CASE r = q
    BY <1>1, <2>1, <2>2 DEF Mine
  <2>3. CASE r # q
    <3>1. Mine(r)
      BY <1>4, <2>1, <2>3
    <3>2. QED
      BY <3>1 DEF Mine
  <2>4. QED
    BY <2>2, <2>3
<1>7. QED
  BY <1>5, <1>6 DEF Owned

(* An installer is gone; its request may have its answer. *)
LEMMA OwnedGone ==
  ASSUME Owned, NEW p \in procs, procs' = procs \ {p}, call' = call \/ p.turn = turn,
         UNCHANGED <<scn, turn, pc, verdicts, began>>
  PROVE  Owned'
<1>1. \A r \in procs' : r \in procs /\ r.turn # p.turn
  BY DEF Owned
<1>2. ASSUME NEW r \in procs' PROVE Mine(r)'
  <2>1. Mine(r) /\ r.turn # p.turn
    BY <1>1 DEF Owned
  <2>2. QED
    BY <2>1 DEF Mine
<1>3. QED
  BY <1>1, <1>2 DEF Owned

(* A test goes on or ends. *)
LEMMA OwnedTest ==
  ASSUME Place, Owned, pc > 0, Proceed \/ Fails, UNCHANGED <<scn, turn, procs, began>>,
         \/ UNCHANGED call
         \/ call' = "none" /\ (call = "error" => Fails) /\ (call = "ok" \/ call = "error")
  PROVE  Owned'
<1>1. turn \in 1..Len(scn.tests) /\ verdicts \in [1..Len(scn.tests) -> {"none", "pass", "fail"}]
      /\ Len(scn.tests) \in Nat /\ verdicts[turn] = "none"
  <2>1. turn \in 1..Len(scn.tests) /\ scn.tests \in Seq({"previous", "upgrade", "uninstall", "new"})
    BY ScenarioAssumption DEF Place
  <2>2. Len(scn.tests) \in Nat
    BY SMT, <2>1
  <2>3. QED
    BY <2>1, <2>2 DEF Place, Owned
<1>2. \A t \in 1..Len(scn.tests) : t # turn => verdicts'[t] = verdicts[t]
  BY <1>1 DEF Proceed, Fails
<1>3. (pc' > 0 => verdicts' = verdicts) /\ (Fails => verdicts'[turn] = "fail")
  BY SMT, <1>1 DEF Proceed, Fails
<1>4. \A t \in 1..Len(scn.tests) : t > turn \/ (t = turn /\ pc' > 0) => verdicts'[t] = "none"
  <2>1. \A t \in 1..Len(scn.tests) : t > turn => t # turn
    BY SMT, <1>1
  <2>2. QED
    BY <1>1, <1>2, <1>3, <2>1 DEF Owned
<1>5. ASSUME NEW p \in procs PROVE Mine(p)'
  <2>1. Mine(p)
    BY DEF Owned
  <2>2. p.turn \in 1..Len(scn.tests)
    <3>1. p.turn \in 1..turn
      BY <2>1 DEF Mine
    <3>2. QED
      BY SMT, <1>1, <3>1
  <2>3. verdicts'[p.turn] = "fail" \/ (p.turn = turn /\ call' \in {"wait", "error"})
    BY <1>1, <1>2, <1>3, <2>1, <2>2 DEF Mine
  <2>4. QED
    BY <2>1, <2>3 DEF Mine
<1>6. QED
  BY <1>4, <1>5 DEF Owned

-----------------------------------------------------------------------------
(* The steps of a test that start no installer.                             *)

LEMMA NoRequest ==
  ASSUME Place, pc > 0, Script[pc].do \notin {"install", "uninstall"}
  PROVE  call = "none"
BY DEF Place

LEMMA NeededFacts == Needed \in {"down", "up"}
BY DEF Needed

(* A step of a test that has the guest for itself. *)
LEMMA Calm ==
  ASSUME IInv, pc > 0, Script[pc].do \notin {"install", "uninstall"}, began # "busy"
  PROVE  Guest /\ call = "none" /\ procs = {}
<1>1. call = "none" /\ pc # 0
  BY SMT, NoRequest DEF IInv
<1>2. Guest
  BY <1>1 DEF IInv, Steady
<1>3. ASSUME NEW p \in procs PROVE FALSE
  <2>1. Mine(p) /\ turn \in 1..Len(scn.tests)
    BY DEF IInv, Owned, Place
  <2>2. verdicts[turn] = "none"
    BY <2>1 DEF IInv, Owned
  <2>3. QED
    BY <1>1, <2>1, <2>2 DEF Mine
<1>4. QED
  BY <1>1, <1>2, <1>3

LEMMA SimpleStep ==
  ASSUME IInv, pc > 0, Script[pc].do \notin {"install", "uninstall"},
         UNCHANGED <<scn, turn, version, files, daemon, call, procs, began>>,
         setup' \subseteq {"cert", "env", "level"}, devices' \in BOOLEAN, reason' \in BOOLEAN,
         \/ Proceed /\ (began # "busy" => Progress')
         \/ Fails /\ (scn.prompt /\ scn.os # "arch" => reason' \/ began # Needed)
  PROVE  IInv'
<1>1. call = "none" /\ Place /\ Owned
  BY NoRequest DEF IInv
<1>2. Script' = Script /\ Needed' = Needed
  BY SameTest DEF Needed
<1>3. /\ pc' \in 0..Len(Script) /\ FailsForAReason' /\ (Steady' => Proceed /\ pc' # 1)
      /\ verdicts' \in [1..Len(scn.tests) -> {"none", "pass", "fail"}]
  <2>1. CASE Proceed
    BY <1>1, <2>1, ProceedFacts
  <2>2. CASE Fails /\ (scn.prompt /\ scn.os # "arch" => reason' \/ began # Needed)
    <3>1. FailsForAReason'
      BY <1>2, <2>2 DEF FailsForAReason
    <3>2. QED
      BY <1>1, <2>2, <3>1, FailsFacts
  <2>3. QED
    BY <2>1, <2>2
<1>4. Place'
  BY <1>1, <1>2, <1>3 DEF Place
<1>5. Owned' /\ Excuses'
  BY <1>1, <1>3, OwnedTest DEF Excuses
<1>6. ASSUME Steady' PROVE Guest'
  <2>1. began # "busy" /\ Proceed /\ pc' # 1 /\ ~Fails
    BY <1>1, <1>3, <1>6, FailsFacts DEF Steady
  <2>2. Guest /\ procs = {} /\ Progress'
    BY <2>1, Calm
  <2>3. Disk' /\ Request' /\ Begun'
    BY <1>1, <2>1, <2>2 DEF Guest, Disk, Request, Begun
  <2>4. QED
    BY <2>2, <2>3 DEF Guest
<1>7. QED
  BY <1>4, <1>5, <1>6 DEF IInv

(* A step of a test that began while an installer was at work. *)
LEMMA BusyTest ==
  IInv /\ began = "busy"
  /\ (CheckStatus \/ SetUpApp \/ Block \/ Sleep \/ CheckLeaks \/ CheckSettings \/ Login
      \/ FindTraces \/ CheckDevices)
  => IInv'
<1> SUFFICES ASSUME IInv, began = "busy",
                    \/ CheckStatus \/ SetUpApp \/ Block \/ Sleep \/ CheckLeaks \/ CheckSettings
                    \/ Login \/ FindTraces \/ CheckDevices
             PROVE  IInv'
  OBVIOUS
<1>1. pc > 0 /\ Script[pc].do \notin {"install", "uninstall"} /\ (Proceed \/ Fails)
  BY DEF CheckStatus, SetUpApp, Block, Sleep, CheckLeaks, CheckSettings, Login, FindTraces,
     CheckDevices, Doing
<1>2. UNCHANGED <<scn, turn, version, files, daemon, call, procs, began>>
  BY DEF CheckStatus, SetUpApp, Block, Sleep, CheckLeaks, CheckSettings, Login, FindTraces,
     CheckDevices, guest
<1>3. setup \subseteq {"cert", "env", "level"} /\ devices \in BOOLEAN /\ reason \in BOOLEAN
  BY DEF IInv, Place
<1>4. devices' \in BOOLEAN
  BY <1>3 DEF CheckStatus, SetUpApp, Block, Sleep, CheckLeaks, CheckSettings, Login, FindTraces,
     CheckDevices, guest
<1>5. reason' \in BOOLEAN
  BY <1>3 DEF CheckStatus, SetUpApp, Block, Sleep, CheckLeaks, CheckSettings, Login, FindTraces,
     CheckDevices, Fault, NoFault
<1>6. setup' \subseteq {"cert", "env", "level"}
  <2>1. CASE SetUpApp
    <3>1. Place /\ AtStep /\ TestName \in {"previous", "upgrade", "uninstall", "new"}
      BY <1>1, Where, Names DEF IInv, Place
    <3>2. Arg \in {"cert", "env", "level"}
      BY <2>1, <3>1 DEF SetUpApp, Doing, AtStep, Step
    <3>3. QED
      BY <1>3, <2>1, <3>2 DEF SetUpApp
  <2>2. CASE ~SetUpApp
    BY <1>3, <2>2 DEF CheckStatus, Block, Sleep, CheckLeaks, CheckSettings, Login, FindTraces,
       CheckDevices, guest
  <2>3. QED
    BY <2>1, <2>2
<1>7. began # Needed
  BY NeededFacts
<1>8. QED
  BY <1>1, <1>2, <1>4, <1>5, <1>6, <1>7, SimpleStep

(* A test that goes on has come as far as before, and one step further. *)
LEMMA FurtherPast ==
  ASSUME Place, pc > 0, Proceed, UNCHANGED <<scn, turn>>, NEW n \in 1..Len(Script)
  PROVE  Past(n)' <=> Past(n) \/ pc = n
<1>a. pc \in 0..Len(Script) /\ Len(Script) \in {5, 6, 7}
  BY ScriptLength DEF Place
<1>1. pc \in 1..7 /\ n \in 1..7
  <2> DEFINE m == Len(Script)
  <2>1. m \in {5, 6, 7} /\ pc \in 0..m /\ n \in 1..m
    BY <1>a
  <2> HIDE DEF m
  <2>2. QED
    BY SMT, <2>1
<1>2. Past(n)' <=> n <= pc
  BY ProceedFacts
<1>3. Past(n) <=> pc > n
  BY <1>1, PastFacts
<1>4. QED
  BY SMT, <1>1, <1>2, <1>3

LEMMA GoesOn ==
  ASSUME Place, pc > 0, Proceed, UNCHANGED <<scn, turn, version, daemon, began, call>>,
         setup \subseteq setup', TestName = "previous" => setup' \subseteq {"cert", "env"},
         Progress,
         TestName \in {"previous", "new"} /\ pc = 1 => began # "up",
         TestName \in {"previous", "new"} => pc # 2, TestName = "upgrade" => pc # 3,
         TestName \in {"previous", "new"} /\ pc = 3 => daemon = "up",
         TestName = "upgrade" /\ pc = 5 => daemon = "up",
         TestName \in {"previous", "new"} /\ pc > 3 => Arg \in setup',
         TestName = "uninstall" =>
           /\ UNCHANGED files /\ pc # 3
           /\ pc = 1 => daemon = "up"
           /\ pc # 2 => UNCHANGED <<devices, reason>>
           /\ pc = 4 => files \cap Range(TraceList) = {}
           /\ pc = 6 => ~devices
  PROVE  Progress'
<1>1. AtStep /\ TestName \in {"previous", "upgrade", "uninstall", "new"}
  BY Where, Names DEF Place
<1>2. TestName' = TestName /\ TraceList' = TraceList /\ Len(Script) \in {5, 6, 7}
  BY SameTest, ScriptLength DEF Place
<1>3. /\ Past(1)' <=> Past(1) \/ pc = 1
      /\ Past(2)' <=> Past(2) \/ pc = 2
      /\ Past(3)' <=> Past(3) \/ pc = 3
      /\ Past(4)' <=> Past(4) \/ pc = 4
      /\ Past(5)' <=> Past(5) \/ pc = 5
  <2>1. 1 \in 1..Len(Script) /\ 2 \in 1..Len(Script) /\ 3 \in 1..Len(Script)
        /\ 4 \in 1..Len(Script) /\ 5 \in 1..Len(Script)
    <3> DEFINE m == Len(Script)
    <3>1. m \in {5, 6, 7}
      BY <1>2
    <3> HIDE DEF m
    <3>2. 1 \in 1..m /\ 2 \in 1..m /\ 3 \in 1..m /\ 4 \in 1..m /\ 5 \in 1..m
      BY SMT, <3>1
    <3>3. QED
      BY <3>2 DEF m
  <2>2. QED
    BY <2>1, FurtherPast
<1>4. Len(Script) = 6 => (Past(6)' <=> Past(6) \/ pc = 6)
  BY SMT, FurtherPast
<1>5. CASE TestName = "previous"
  <2>1. InPrevious /\ (pc = 4 => Arg = "cert") /\ (pc = 5 => Arg = "env") /\ pc \in 1..5
    BY SMT, <1>1, <1>5 DEF Progress, AtStep, Step
  <2>2. (pc = 4 => "cert" \in setup') /\ (pc = 5 => "env" \in setup')
    BY SMT, <1>5, <2>1
  <2>3. InPrevious'
    BY <1>3, <1>5, <2>1, <2>2 DEF InPrevious, Clean, Running, Installed
  <2>4. QED
    BY <1>2, <1>5, <2>3 DEF Progress
<1>6. CASE TestName = "upgrade"
  <2>1. InUpgrade
    BY <1>6 DEF Progress
  <2>2. InUpgrade'
    BY <1>3, <1>6, <2>1 DEF InUpgrade, Running, Installed
  <2>3. QED
    BY <1>2, <1>6, <2>2 DEF Progress
<1>7. CASE TestName = "new"
  <2>1. /\ InNew /\ pc \in 1..6 /\ Len(Script) = 6
        /\ (pc = 4 => Arg = "level") /\ (pc = 5 => Arg = "cert") /\ (pc = 6 => Arg = "env")
    BY SMT, <1>1, <1>7 DEF Progress, AtStep, Step
  <2>2. (pc = 4 => "level" \in setup') /\ (pc = 5 => "cert" \in setup') /\ (pc = 6 => "env" \in setup')
    BY SMT, <1>7, <2>1
  <2>3. InNew'
    BY <1>3, <1>4, <1>7, <2>1, <2>2 DEF InNew, Clean, Running, Installed
  <2>4. QED
    BY <1>2, <1>7, <2>3 DEF Progress
<1>8. CASE TestName = "uninstall"
  <2>1. InUninstall /\ pc \in 1..6 /\ Len(Script) = 6
    BY SMT, <1>1, <1>8 DEF Progress, AtStep, Step
  <2>2. pc' > 0 => pc' = pc + 1
    BY ProceedFacts
  <2>3. (pc \in {2, 3} /\ call = "none" => daemon = "up")'
    BY SMT, <1>8, <2>1, <2>2 DEF InUninstall
  <2>4. pc = 2 => ~Past(3)' /\ ~Past(4)' /\ ~Past(6)'
    BY SMT, <1>3, <1>4, <2>1, PastFacts
  <2>5. InUninstall'
    <3>1. CASE pc = 2
      BY <3>1, <2>3, <2>4 DEF InUninstall
    <3>2. CASE pc # 2
      <4>1. UNCHANGED <<files, devices, reason, daemon>> /\ pc # 3
        BY <1>8, <3>2
      <4>2. Removed' <=> Removed
        BY <4>1 DEF Removed
      <4>3. QED
        BY <1>2, <1>3, <1>4, <1>8, <2>1, <2>3, <4>1, <4>2 DEF InUninstall
    <3>3. QED
      BY <3>1, <3>2
  <2>6. QED
    BY <1>2, <1>8, <2>5 DEF Progress
<1>9. QED
  BY <1>1, <1>5, <1>6, <1>7, <1>8

LEMMA StatusStep == IInv /\ began # "busy" /\ CheckStatus => IInv'
<1> SUFFICES ASSUME IInv, began # "busy", CheckStatus PROVE IInv'
  OBVIOUS
<1>0. Place /\ Guest /\ pc > 0 /\ Script[pc].do = "status"
  BY Calm DEF IInv, CheckStatus, Doing
<1>1. /\ Place /\ Progress /\ pc > 0 /\ Script[pc].do = "status"
      /\ AtStep /\ TestName \in {"previous", "upgrade", "uninstall", "new"}
  BY <1>0, Where, Names DEF Guest, Place
<1>2. UNCHANGED <<scn, turn, version, files, daemon, setup, devices, call, procs, found, began, reason>>
  BY DEF CheckStatus, guest
<1>3. /\ setup' \subseteq {"cert", "env", "level"} /\ devices' \in BOOLEAN /\ reason' \in BOOLEAN
  BY <1>1, <1>2 DEF Place
<1>4. \/ TestName \in {"previous", "new"} /\ pc = 1 /\ Arg = "down"
      \/ TestName \in {"upgrade", "uninstall"} /\ pc = 1 /\ Arg = "up"
      \/ TestName \in {"previous", "new"} /\ pc = 3 /\ Arg = "up"
      \/ TestName = "upgrade" /\ pc = 5 /\ Arg = "up"
      \/ TestName = "uninstall" /\ pc = 5 /\ Arg = "down"
  BY <1>1 DEF AtStep, Step
<1>5. CASE (daemon = "up") = (Arg = "up")
  <2>1. Proceed
    BY <1>5 DEF CheckStatus
  <2>2. Arg = "up" => daemon = "up"
    BY <1>5
  <2>3. Arg = "down" => daemon # "up"
    BY <1>5
  <2>4. pc = 1 /\ Arg = "down" => began # "up"
    BY <1>0, <2>3 DEF Guest, Begun
  <2>5. TestName = "previous" => setup' \subseteq {"cert", "env"}
    BY <1>1, <1>2 DEF Progress, InPrevious
  <2>6. Progress'
    BY SMT, <1>1, <1>2, <1>4, <2>1, <2>2, <2>4, <2>5, GoesOn
  <2>7. QED
    BY <1>1, <1>2, <1>3, <2>1, <2>6, SimpleStep
<1>6. CASE (daemon = "up") # (Arg = "up")
  <2>1. Fails
    BY <1>6 DEF CheckStatus
  <2>2. Arg = "up" => daemon # "up"
    BY <1>6
  <2>3. Arg = "down" => daemon = "up"
    BY <1>4, <1>6
  <2>4. ASSUME scn.prompt, began = Needed PROVE FALSE
    <3>1. CASE pc = 1
      <4>1. daemon = Needed
        BY <1>0, <2>4, <3>1 DEF Guest, Begun, Needed
      <4>2. QED
        BY SMT, <1>4, <2>2, <2>3, <3>1, <4>1 DEF Needed, TestName
    <3>2. CASE pc = 3 /\ TestName \in {"previous", "new"}
      <4>1. Past(2)
        BY SMT, <3>2 DEF Past
      <4>2. daemon = "up"
        BY <1>1, <2>4, <3>2, <4>1 DEF Progress, InPrevious, InNew, Running
      <4>3. QED
        BY SMT, <1>4, <2>2, <3>2, <4>2
    <3>3. CASE pc = 5 /\ TestName = "upgrade"
      <4>1. Past(3)
        BY SMT, <3>3 DEF Past
      <4>2. daemon = "up"
        BY <1>1, <2>4, <3>3, <4>1 DEF Progress, InUpgrade, Running
      <4>3. QED
        BY <1>4, <2>2, <3>3, <4>2
    <3>4. CASE pc = 5 /\ TestName = "uninstall"
      <4>1. Past(3)
        BY SMT, <3>4 DEF Past
      <4>2. daemon = "down"
        BY <1>1, <3>4, <4>1 DEF Progress, InUninstall, Removed
      <4>3. QED
        BY SMT, <1>4, <2>3, <3>4, <4>2
    <3>5. QED
      BY <1>4, <3>1, <3>2, <3>3, <3>4
  <2>5. QED
    BY <1>1, <1>2, <1>3, <2>1, <2>4, SimpleStep
<1>7. QED
  BY <1>5, <1>6

LEMMA SetUpStep == IInv /\ began # "busy" /\ SetUpApp => IInv'
<1> SUFFICES ASSUME IInv, began # "busy", SetUpApp PROVE IInv'
  OBVIOUS
<1>0. Place /\ Guest /\ pc > 0 /\ Script[pc].do = "set_up"
  BY Calm DEF IInv, SetUpApp, Doing
<1>1. /\ Place /\ Progress /\ pc > 0 /\ Script[pc].do = "set_up"
      /\ AtStep /\ TestName \in {"previous", "upgrade", "uninstall", "new"}
  BY <1>0, Where, Names DEF Guest, Place
<1>2. UNCHANGED <<scn, turn, version, files, daemon, devices, call, procs, found, began>>
  BY DEF SetUpApp
<1>3. devices' \in BOOLEAN /\ setup \subseteq {"cert", "env", "level"}
  BY <1>1, <1>2 DEF Place
<1>4. /\ TestName \in {"previous", "new"} /\ pc > 3 /\ Arg \in {"cert", "env", "level"}
      /\ TestName = "previous" => Arg \in {"cert", "env"}
  BY SMT, <1>1 DEF AtStep, Step
<1>5. CASE NoFault /\ Proceed /\ setup' = setup \cup {Arg}
  <2>1. reason' \in BOOLEAN /\ setup' \subseteq {"cert", "env", "level"}
    BY <1>1, <1>3, <1>4, <1>5 DEF NoFault, Place
  <2>2. TestName = "previous" => setup' \subseteq {"cert", "env"}
    BY <1>1, <1>4, <1>5 DEF Progress, InPrevious
  <2>3. setup \subseteq setup' /\ Arg \in setup'
    BY <1>5
  <2>4. Progress'
    BY SMT, <1>1, <1>2, <1>4, <1>5, <2>2, <2>3, GoesOn
  <2>5. QED
    BY <1>1, <1>2, <1>3, <1>5, <2>1, <2>4, SimpleStep
<1>6. CASE Fault /\ Fails /\ UNCHANGED setup
  <2>1. reason' = TRUE
    BY <1>6 DEF Fault
  <2>2. QED
    BY <1>1, <1>2, <1>3, <1>6, <2>1, SimpleStep
<1>7. QED
  BY <1>5, <1>6 DEF SetUpApp

LEMMA SleepStep == IInv /\ began # "busy" /\ Sleep => IInv'
<1> SUFFICES ASSUME IInv, began # "busy", Sleep PROVE IInv'
  OBVIOUS
<1>0. Place /\ Guest /\ pc > 0 /\ Script[pc].do = "sleep"
  BY Calm DEF IInv, Sleep, Doing
<1>1. /\ Place /\ Progress /\ pc > 0 /\ Script[pc].do = "sleep"
      /\ AtStep /\ TestName \in {"previous", "upgrade", "uninstall", "new"}
  BY <1>0, Where, Names DEF Guest, Place
<1>2. UNCHANGED <<scn, turn, version, files, daemon, setup, devices, call, procs, found, began, reason>>
  BY DEF Sleep, guest
<1>3. /\ setup' \subseteq {"cert", "env", "level"} /\ devices' \in BOOLEAN /\ reason' \in BOOLEAN
      /\ Proceed
  BY <1>1, <1>2 DEF Place, Sleep
<1>4. TestName = "upgrade" /\ pc = 4
  BY <1>1 DEF AtStep, Step
<1>5. Progress'
  BY SMT, <1>1, <1>2, <1>3, <1>4, GoesOn
<1>6. QED
  BY <1>1, <1>2, <1>3, <1>5, SimpleStep

LEMMA SettingsStep == IInv /\ began # "busy" /\ CheckSettings => IInv'
<1> SUFFICES ASSUME IInv, began # "busy", CheckSettings PROVE IInv'
  OBVIOUS
<1>0. Place /\ Guest /\ pc > 0 /\ Script[pc].do = "settings"
  BY Calm DEF IInv, CheckSettings, Doing
<1>1. /\ Place /\ Progress /\ pc > 0 /\ Script[pc].do = "settings"
      /\ AtStep /\ TestName \in {"previous", "upgrade", "uninstall", "new"}
  BY <1>0, Where, Names DEF Guest, Place
<1>2. UNCHANGED <<scn, turn, version, files, daemon, setup, devices, call, procs, found, began>>
  BY DEF CheckSettings, guest
<1>3. /\ setup' \subseteq {"cert", "env", "level"} /\ devices' \in BOOLEAN
  BY <1>1, <1>2 DEF Place
<1>4. TestName = "upgrade" /\ pc = 7
  BY <1>1 DEF AtStep, Step
<1>5. "settings" \in files \/ began = "broken"
  <2>1. Past(3)
    BY SMT, <1>4 DEF Past
  <2>2. daemon # "down"
    BY <1>1, <1>4, <2>1 DEF Progress, InUpgrade, Running, Installed
  <2>3. QED
    BY <1>0, <2>2 DEF Guest, Disk, Files
<1>6. CASE NoFault /\ (IF "settings" \in files THEN Proceed ELSE Fails)
  <2>1. reason' \in BOOLEAN
    BY <1>1, <1>6 DEF NoFault, Place
  <2>2. CASE "settings" \in files
    <3>1. Proceed
      BY <1>6, <2>2
    <3>2. Progress'
      BY SMT, <1>1, <1>2, <1>4, <3>1, GoesOn
    <3>3. QED
      BY <1>1, <1>2, <1>3, <2>1, <3>1, <3>2, SimpleStep
  <2>3. CASE "settings" \notin files
    <3>1. Fails /\ began # Needed
      BY <1>5, <1>6, <2>3, NeededFacts
    <3>2. QED
      BY <1>1, <1>2, <1>3, <2>1, <3>1, SimpleStep
  <2>4. QED
    BY <2>2, <2>3
<1>7. CASE Fault /\ Fails
  <2>1. reason' = TRUE
    BY <1>7 DEF Fault
  <2>2. QED
    BY <1>1, <1>2, <1>3, <1>7, <2>1, SimpleStep
<1>8. QED
  BY <1>6, <1>7 DEF CheckSettings

LEMMA LoginStep == IInv /\ began # "busy" /\ Login => IInv'
<1> SUFFICES ASSUME IInv, began # "busy", Login PROVE IInv'
  OBVIOUS
<1>0. Place /\ Guest /\ pc > 0 /\ Script[pc].do = "login"
  BY Calm DEF IInv, Login, Doing
<1>1. /\ Place /\ Progress /\ pc > 0 /\ Script[pc].do = "login"
      /\ AtStep /\ TestName \in {"previous", "upgrade", "uninstall", "new"}
  BY <1>0, Where, Names DEF Guest, Place
<1>2. UNCHANGED <<scn, turn, version, files, daemon, setup, call, procs, found, began>>
  BY DEF Login, guest
<1>3. setup' \subseteq {"cert", "env", "level"}
  BY <1>1, <1>2 DEF Place
<1>4. TestName = "uninstall" /\ pc = 2
  BY <1>1 DEF AtStep, Step
<1>5. CASE NoFault /\ Proceed /\ devices' = TRUE
  <2>1. reason' \in BOOLEAN /\ devices' \in BOOLEAN
    BY <1>1, <1>5 DEF NoFault, Place
  <2>2. Progress'
    BY SMT, <1>1, <1>2, <1>4, <1>5, GoesOn
  <2>3. QED
    BY <1>1, <1>2, <1>3, <1>5, <2>1, <2>2, SimpleStep
<1>6. CASE Fault /\ Fails /\ UNCHANGED devices
  <2>1. reason' = TRUE /\ devices' \in BOOLEAN
    BY <1>1, <1>6 DEF Fault, Place
  <2>2. QED
    BY <1>1, <1>2, <1>3, <1>6, <2>1, SimpleStep
<1>7. QED
  BY <1>5, <1>6 DEF Login

LEMMA BlockStep == IInv /\ began # "busy" /\ Block => IInv'
<1> SUFFICES ASSUME IInv, began # "busy", Block PROVE IInv'
  OBVIOUS
<1>0. Place /\ Guest /\ pc > 0 /\ Script[pc].do = "block"
  BY Calm DEF IInv, Block, Doing
<1>1. /\ Place /\ Progress /\ pc > 0 /\ Script[pc].do = "block"
      /\ AtStep /\ TestName \in {"previous", "upgrade", "uninstall", "new"}
  BY <1>0, Where, Names DEF Guest, Place
<1>2. UNCHANGED <<scn, turn, version, files, daemon, setup, call, procs, found, began>>
  BY DEF Block, guest
<1>3. setup' \subseteq {"cert", "env", "level"}
  BY <1>1, <1>2 DEF Place
<1>4. TestName = "upgrade" /\ pc = 2
  BY <1>1 DEF AtStep, Step
<1>5. CASE NoFault /\ Proceed /\ devices' \in {FALSE, devices}
  <2>1. reason' \in BOOLEAN /\ devices' \in BOOLEAN
    BY <1>1, <1>5 DEF NoFault, Place
  <2>2. Progress'
    BY SMT, <1>1, <1>2, <1>4, <1>5, GoesOn
  <2>3. QED
    BY <1>1, <1>2, <1>3, <1>5, <2>1, <2>2, SimpleStep
<1>6. CASE Fault /\ Fails /\ UNCHANGED devices
  <2>1. reason' = TRUE /\ devices' \in BOOLEAN
    BY <1>1, <1>6 DEF Fault, Place
  <2>2. QED
    BY <1>1, <1>2, <1>3, <1>6, <2>1, SimpleStep
<1>7. QED
  BY <1>5, <1>6 DEF Block

LEMMA LeaksStep == IInv /\ began # "busy" /\ CheckLeaks => IInv'
<1> SUFFICES ASSUME IInv, began # "busy", CheckLeaks PROVE IInv'
  OBVIOUS
<1>0. Place /\ Guest /\ pc > 0 /\ Script[pc].do = "leaks"
  BY Calm DEF IInv, CheckLeaks, Doing
<1>1. /\ Place /\ Progress /\ pc > 0 /\ Script[pc].do = "leaks"
      /\ AtStep /\ TestName \in {"previous", "upgrade", "uninstall", "new"}
  BY <1>0, Where, Names DEF Guest, Place
<1>2. UNCHANGED <<scn, turn, version, files, daemon, setup, devices, call, procs, found, began>>
  BY DEF CheckLeaks, guest
<1>3. setup' \subseteq {"cert", "env", "level"} /\ devices' \in BOOLEAN
  BY <1>1, <1>2 DEF Place
<1>4. TestName = "upgrade" /\ pc = 6
  BY <1>1 DEF AtStep, Step
<1>5. CASE NoFault /\ Proceed
  <2>1. reason' \in BOOLEAN
    BY <1>1, <1>5 DEF NoFault, Place
  <2>2. Progress'
    BY SMT, <1>1, <1>2, <1>4, <1>5, GoesOn
  <2>3. QED
    BY <1>1, <1>2, <1>3, <1>5, <2>1, <2>2, SimpleStep
<1>6. CASE Fault /\ Fails
  <2>1. reason' = TRUE
    BY <1>6 DEF Fault
  <2>2. QED
    BY <1>1, <1>2, <1>3, <1>6, <2>1, SimpleStep
<1>7. QED
  BY <1>5, <1>6 DEF CheckLeaks

LEMMA TracesFound ==
  ASSUME found' = FilterNonExistentPaths(TraceList)
  PROVE  found' \in Seq(Files) /\ Distinct(found') /\ Range(found') = files \cap Range(TraceList)
<1>1. TraceList \in Seq(Files) /\ Len(TraceList) \in 0..5 /\ Distinct(TraceList)
  BY TracePaths
<1>2. QED
  BY <1>1, FilterExact

LEMMA TracesStep == IInv /\ began # "busy" /\ FindTraces => IInv'
<1> SUFFICES ASSUME IInv, began # "busy", FindTraces PROVE IInv'
  OBVIOUS
<1>0. Place /\ Guest /\ pc > 0 /\ Script[pc].do = "traces"
  BY Calm DEF IInv, FindTraces, Doing
<1>1. /\ Place /\ Progress /\ pc > 0 /\ Script[pc].do = "traces"
      /\ AtStep /\ TestName \in {"previous", "upgrade", "uninstall", "new"}
  BY <1>0, Where, Names DEF Guest, Place
<1>2. UNCHANGED <<scn, turn, version, files, daemon, setup, devices, call, procs, began>>
  BY DEF FindTraces, guest
<1>3. setup' \subseteq {"cert", "env", "level"} /\ devices' \in BOOLEAN
  BY <1>1, <1>2 DEF Place
<1>4. TestName = "uninstall" /\ pc = 4
  BY <1>1 DEF AtStep, Step
<1>5. Removed
  <2>1. Past(3)
    BY SMT, <1>4 DEF Past
  <2>2. QED
    BY <1>1, <1>4, <2>1 DEF Progress, InUninstall
<1>6. CASE /\ NoFault /\ found' = FilterNonExistentPaths(TraceList)
           /\ IF found' = <<>> THEN Proceed ELSE Fails
  <2>1. found' \in Seq(Files) /\ Range(found') = files \cap Range(TraceList)
    BY <1>6, TracesFound
  <2>2. Range(found') = {} <=> found' = <<>>
    BY SMT, <2>1 DEF Range
  <2>3. reason' = reason /\ reason' \in BOOLEAN
    BY <1>1, <1>6 DEF NoFault, Place
  <2>4. CASE found' = <<>>
    <3>1. Proceed /\ files \cap Range(TraceList) = {}
      BY <1>6, <2>1, <2>2, <2>4
    <3>2. Progress'
      BY SMT, <1>1, <1>2, <1>4, <2>3, <3>1, GoesOn
    <3>3. QED
      BY <1>1, <1>2, <1>3, <2>3, <3>1, <3>2, SimpleStep
  <2>5. CASE found' # <<>>
    <3>1. Fails
      BY <1>6, <2>5
    <3>2. reason'
      BY <1>5, <2>1, <2>2, <2>3, <2>5 DEF Removed
    <3>3. QED
      BY <1>1, <1>2, <1>3, <2>3, <3>1, <3>2, SimpleStep
  <2>6. QED
    BY <2>4, <2>5
<1>7. CASE Fault /\ Fails
  <2>1. reason' = TRUE
    BY <1>7 DEF Fault
  <2>2. QED
    BY <1>1, <1>2, <1>3, <1>7, <2>1, SimpleStep
<1>8. QED
  BY <1>6, <1>7 DEF FindTraces

LEMMA DevicesStep == IInv /\ began # "busy" /\ CheckDevices => IInv'
<1> SUFFICES ASSUME IInv, began # "busy", CheckDevices PROVE IInv'
  OBVIOUS
<1>0. Place /\ Guest /\ pc > 0 /\ Script[pc].do = "devices"
  BY Calm DEF IInv, CheckDevices, Doing
<1>1. /\ Place /\ Progress /\ pc > 0 /\ Script[pc].do = "devices"
      /\ AtStep /\ TestName \in {"previous", "upgrade", "uninstall", "new"}
  BY <1>0, Where, Names DEF Guest, Place
<1>2. UNCHANGED <<scn, turn, version, files, daemon, setup, devices, call, procs, found, began>>
  BY DEF CheckDevices, guest
<1>3. setup' \subseteq {"cert", "env", "level"} /\ devices' \in BOOLEAN
  BY <1>1, <1>2 DEF Place
<1>4. TestName = "uninstall" /\ pc = 6
  BY <1>1 DEF AtStep, Step
<1>5. CASE NoFault /\ devices /\ Fails
  <2>1. reason' = reason /\ reason' \in BOOLEAN
    BY <1>1, <1>5 DEF NoFault, Place
  <2>2. Past(3)
    BY SMT, <1>4 DEF Past
  <2>3. reason'
    BY <1>1, <1>4, <1>5, <2>1, <2>2 DEF Progress, InUninstall, Removed
  <2>4. QED
    BY <1>1, <1>2, <1>3, <1>5, <2>1, <2>3, SimpleStep
<1>6. CASE NoFault /\ ~devices /\ Proceed
  <2>1. reason' = reason /\ reason' \in BOOLEAN
    BY <1>1, <1>6 DEF NoFault, Place
  <2>2. Progress'
    BY SMT, <1>1, <1>2, <1>4, <1>6, <2>1, GoesOn
  <2>3. QED
    BY <1>1, <1>2, <1>3, <1>6, <2>1, <2>2, SimpleStep
<1>7. CASE Fault /\ Fails
  <2>1. reason' = TRUE
    BY <1>7 DEF Fault
  <2>2. QED
    BY <1>1, <1>2, <1>3, <1>7, <2>1, SimpleStep
<1>8. QED
  BY <1>5, <1>6, <1>7 DEF CheckDevices

-----------------------------------------------------------------------------
(* The steps while a request is made.                                       *)

(* The test does not move. *)
LEMMA GuestStep ==
  ASSUME IInv, UNCHANGED <<scn, turn, pc, verdicts, began>>, setup' \subseteq setup,
         daemon' \in {"down", "starting", "up"}, devices' \in BOOLEAN, reason' \in BOOLEAN,
         reason => reason', Owned',
         \/ UNCHANGED call
         \/ /\ call' \in {"wait", "ok", "error"}
            /\ pc > 0 /\ Script[pc].do \in {"install", "uninstall"},
         call' = "error" => call = "error" \/ Excused',
         Steady' => Guest'
  PROVE  IInv'
<1>1. Script' = Script /\ Needed' = Needed
  BY SameTest DEF Needed
<1>2. Place'
  BY <1>1 DEF IInv, Place
<1>3. Excused => Excused'
  BY <1>1 DEF Excused
<1>4. FailsForAReason'
  BY <1>1 DEF IInv, Excuses, FailsForAReason
<1>5. Excuses'
  BY <1>3, <1>4 DEF IInv, Excuses
<1>6. QED
  BY <1>2, <1>5 DEF IInv

(* The guest of a test that makes a request is not looked at. *)
LEMMA BusyStep ==
  ASSUME Place, Guest, pc > 0, Script[pc].do \in {"install", "uninstall"},
         UNCHANGED <<scn, turn, pc, verdicts, began>>, setup' \subseteq setup, call' # "none",
         Disk', Request'
  PROVE  Guest'
<1>1. Progress
  BY DEF Guest
<1>2. TestName' = TestName
  BY SameTest
<1>3. \/ TestName = "previous" /\ pc = 2
      \/ TestName = "new" /\ pc = 2
      \/ TestName = "upgrade" /\ pc = 3
      \/ TestName = "uninstall" /\ pc = 3
  BY WhereInstaller DEF Step
<1>4. Begun'
  BY SMT, <1>3 DEF Begun
<1>5. /\ Past(1)' <=> Past(1)
      /\ TestName \in {"uninstall", "upgrade"} \/ ~Past(2)'
      /\ ~Past(3)' /\ ~Past(4)' /\ ~Past(5)' /\ ~Past(6)'
  BY SMT, <1>3 DEF Past
<1>6. Progress'
  BY <1>1, <1>2, <1>3, <1>5
     DEF Progress, InPrevious, InUpgrade, InUninstall, InNew, Clean, Running
<1>7. QED
  BY <1>4, <1>6 DEF Guest

(* The request waits for an installer that has come to w. *)
LEMMA WorksOn ==
  ASSUME NEW p, p.turn = turn, p.op = Script[pc].do, p.version = Arg,
         NEW k \in 1..MaxInstallAttempts, NEW w \in {"start", "middle", "exit"}, NEW c,
         UNCHANGED <<scn, turn, pc>>, call' = "wait", procs' = {Job(p, k, w, c)},
         w # "start" /\ p.op = "uninstall" => daemon' = "down" /\ (reason' \/ ~devices'),
         w = "exit" /\ p.op = "install" => version' = Arg /\ daemon' # "down",
         w = "exit" /\ p.op # "install" => Removed'
  PROVE  Request'
<1> DEFINE r == Job(p, k, w, c)
<1>1. Script'[pc'].do = p.op /\ Arg' = Arg
  BY SameTest DEF Arg
<1>2. r.turn = p.turn /\ r.op = p.op /\ r.version = p.version /\ r.attempt = k /\ r.at = w
  BY SMT DEF Job
<1>3. procs' = {r}
  OBVIOUS
<1> HIDE DEF r
<1>4. Works(r)'
  BY <1>1, <1>2 DEF Works, Installed
<1>5. (\A q \in procs : Works(q))'
  BY <1>3, <1>4
<1>6. QED
  BY <1>5 DEF Request

LEMMA BeginStep == IInv /\ Begin => IInv'
<1> SUFFICES ASSUME IInv, Begin PROVE IInv'
  OBVIOUS
<1>1. /\ Place /\ Owned /\ pc > 0 /\ Script[pc].do \in {"install", "uninstall"} /\ call = "none"
      /\ began # "busy" => Guest
  <2>1. Place /\ pc > 0 /\ Script[pc].do \in {"install", "uninstall"} /\ call = "none"
    BY DEF IInv, Begin, Doing
  <2>2. pc # 0
    BY SMT, <2>1
  <2>3. QED
    BY <2>1, <2>2 DEF IInv, Steady
<1>2. UNCHANGED <<scn, turn, pc, verdicts, version, files, daemon, setup, devices, found, began, reason>>
  BY DEF Begin, guest
<1>3. daemon' \in {"down", "starting", "up"} /\ devices' \in BOOLEAN /\ reason' \in BOOLEAN
  BY <1>1, <1>2 DEF Place
<1>4. verdicts[turn] = "none" /\ turn \in 1..turn
  <2>1. turn \in 1..Len(scn.tests)
    BY <1>1 DEF Place
  <2>2. QED
    BY SMT, <1>1, <2>1 DEF Owned
<1>5. \A p \in procs : Mine(p) /\ p.turn # turn
  BY <1>1, <1>4 DEF Owned, Mine
<1>6. began # "busy" => procs = {}
  BY <1>5 DEF Mine
<1> DEFINE c == Child(Script[pc].do)
<1>7. CASE CanRun(Script[pc].do)
  <2>1. call' = "wait" /\ procs' = procs \cup {c}
    BY <1>7 DEF Begin
  <2>2. /\ c.turn = turn /\ c.op = Script[pc].do /\ c.version = Arg /\ c.attempt = 1
        /\ c.at = "start" /\ c.child = TRUE /\ c = Job(c, 1, "start", TRUE)
    BY SMT DEF Child, Job
  <2> HIDE DEF c
  <2>3. Owned'
    <3>1. ASSUME NEW p \in procs' PROVE Mine(p)'
      <4>1. CASE p = c
        BY <1>2, <1>4, <2>1, <2>2, <4>1 DEF Mine
      <4>2. CASE p # c
        BY <1>2, <1>5, <2>1, <4>2 DEF Mine
      <4>3. QED
        BY <4>1, <4>2
    <3>2. \A p, q \in procs' : p.turn = q.turn => p = q
      BY <1>1, <1>5, <2>1, <2>2 DEF Owned
    <3>3. QED
      BY <1>1, <1>2, <3>1, <3>2 DEF Owned
  <2>4. ASSUME began # "busy" PROVE Guest'
    <3>1. procs' = {Job(c, 1, "start", TRUE)}
      BY <1>6, <2>1, <2>2, <2>4
    <3>2. 1 \in 1..MaxInstallAttempts
      BY SMT, BoundsAssumption
    <3>3. Request'
      BY <1>2, <2>1, <2>2, <3>1, <3>2, WorksOn
    <3>4. Disk'
      BY <1>1, <1>2, <2>4 DEF Guest, Disk
    <3>5. QED
      BY <1>1, <1>2, <2>1, <2>4, <3>3, <3>4, BusyStep
  <2>5. Steady' => Guest'
    BY <1>2, <2>4 DEF Steady
  <2>6. QED
    BY <1>1, <1>2, <1>3, <2>1, <2>3, <2>5, GuestStep
<1>8. CASE ~CanRun(Script[pc].do)
  <2>1. call' = "error" /\ procs' = procs
    BY <1>8 DEF Begin
  <2>2. Owned'
    <3>1. ASSUME NEW p \in procs PROVE Mine(p)'
      BY <1>2, <1>5, <2>1 DEF Mine
    <3>2. QED
      BY <1>1, <1>2, <2>1, <3>1 DEF Owned
  <2>3. Excused
    <3>1. CASE began \in {"busy", "broken"}
      BY <3>1, NeededFacts DEF Excused
    <3>2. CASE began \notin {"busy", "broken"}
      <4>1. Guest
        BY <1>1, <3>2
      <4>2. Script[pc].do = "uninstall" => TestName = "uninstall" /\ pc = 3
        BY <1>1, WhereInstaller DEF Step
      <4>3. Script[pc].do = "uninstall" => daemon = "up"
        BY <1>1, <4>1, <4>2 DEF Guest, Progress, InUninstall
      <4>4. Script[pc].do = "uninstall" => "program" \in files
        BY <3>2, <4>1, <4>3 DEF Guest, Disk, Files
      <4>5. QED
        BY <1>8, <4>4 DEF CanRun, Excused
    <3>3. QED
      BY <3>1, <3>2
  <2>4. Excused' /\ ~Steady'
    BY <1>2, <2>1, <2>3 DEF Excused, Needed, Steady
  <2>5. QED
    BY <1>1, <1>2, <1>3, <2>1, <2>2, <2>4, GuestStep
<1>9. QED
  BY <1>7, <1>8

LEMMA DeadlineStep == IInv /\ Deadline => IInv'
<1> SUFFICES ASSUME IInv, Deadline PROVE IInv'
  OBVIOUS
<1>1. /\ Place /\ Owned /\ pc > 0 /\ Script[pc].do \in {"install", "uninstall"} /\ call = "wait"
  BY DEF IInv, Deadline, Place
<1>2. /\ UNCHANGED <<scn, turn, pc, verdicts, version, files, daemon, setup, devices, procs, began>>
      /\ call' = "error" /\ reason' = TRUE
  BY DEF Deadline, guest
<1>3. daemon' \in {"down", "starting", "up"} /\ devices' \in BOOLEAN
  BY <1>1, <1>2 DEF Place
<1>4. Owned'
  <2>1. ASSUME NEW p \in procs PROVE Mine(p)'
    BY <1>1, <1>2 DEF Owned, Mine
  <2>2. QED
    BY <1>1, <1>2, <2>1 DEF Owned
<1>5. Excused' /\ ~Steady'
  BY <1>2 DEF Excused, Steady
<1>6. QED
  BY <1>1, <1>2, <1>3, <1>4, <1>5, GuestStep

(* The installer of a test that has the guest for itself. *)
LEMMA Alone ==
  ASSUME IInv, Steady, NEW p \in procs
  PROVE  /\ Guest /\ Works(p) /\ procs = {p} /\ call = "wait"
         /\ pc > 0 /\ Script[pc].do \in {"install", "uninstall"}
<1>1. Place /\ Owned /\ Guest /\ \A q \in procs : Mine(q) /\ q.turn = turn
  BY DEF IInv, Owned, Mine, Steady
<1>2. procs = {p} /\ Works(p)
  BY <1>1 DEF Owned, Guest, Request
<1>3. verdicts[turn] # "fail"
  <2>1. turn \in 1..Len(scn.tests) /\ pc \in 0..Len(Script) /\ Len(Script) \in {5, 6, 7}
    BY <1>1, ScriptLength DEF Place
  <2>2. pc = 0 \/ pc > 0
    BY SMT, <2>1
  <2>3. QED
    BY <1>1, <2>1, <2>2 DEF Owned, Steady
<1>4. call = "wait"
  BY <1>1, <1>3 DEF Mine, Steady
<1>5. QED
  BY <1>1, <1>2, <1>4 DEF Place

LEMMA InstallerFrame ==
  ASSUME Place, NEW p \in procs, Installer(p) \/ GuestDeadline(p)
  PROVE  /\ UNCHANGED <<scn, turn, pc, verdicts, began>>
         /\ setup' \subseteq setup /\ daemon' \in {"down", "starting", "up"}
         /\ devices' \in BOOLEAN /\ reason' \in BOOLEAN /\ (reason => reason')
         /\ call' = call \/ (Serves(p) /\ call' \in {"ok", "error"})
<1>0. daemon \in {"down", "starting", "up"} /\ devices \in BOOLEAN /\ reason \in BOOLEAN
  BY DEF Place
<1>1. UNCHANGED <<scn, turn, pc, verdicts, began>>
  BY DEF Installer, Unpack, Finish, StopApp, RemoveFiles, Exit, ExitFailed, DownloadFails,
     GuestDeadline
<1>2. setup' \subseteq setup
  BY DEF Installer, Unpack, Finish, StopApp, RemoveFiles, Exit, ExitFailed, DownloadFails,
     GuestDeadline, guest
<1>3. daemon' \in {"down", "starting", "up"}
  BY <1>0 DEF Installer, Unpack, Finish, StopApp, RemoveFiles, Exit, ExitFailed, DownloadFails,
     GuestDeadline, guest
<1>4. devices' \in BOOLEAN
  BY <1>0 DEF Installer, Unpack, Finish, StopApp, RemoveFiles, Exit, ExitFailed, DownloadFails,
     GuestDeadline, guest
<1>5. reason' \in BOOLEAN /\ (reason => reason')
  BY <1>0 DEF Installer, Unpack, Finish, StopApp, RemoveFiles, Exit, ExitFailed, DownloadFails,
     GuestDeadline, Killed, Fault, NoFault
<1>6. call' = call \/ (Serves(p) /\ call' \in {"ok", "error"})
  BY DEF Installer, Unpack, Finish, StopApp, RemoveFiles, Exit, ExitFailed, DownloadFails,
     GuestDeadline
<1>7. QED
  BY <1>1, <1>2, <1>3, <1>4, <1>5, <1>6

(* An installer goes on, or it is gone. *)
LEMMA InstallerMoves ==
  ASSUME NEW p \in procs,
         \A w : [p EXCEPT !.at = w] = Job(p, p.attempt, w, p.child),
         \A k : [p EXCEPT !.attempt = k] = Job(p, k, p.at, p.child),
         \A c : [p EXCEPT !.child = c] = Job(p, p.attempt, p.at, c),
         Installer(p) \/ GuestDeadline(p)
  PROVE  \/ procs' = procs \ {p}
         \/ (\E k, w, c : Becomes(p, Job(p, k, w, c))) /\ UNCHANGED call
<1>1. CASE Unpack(p) \/ Finish(p) \/ StopApp(p) \/ RemoveFiles(p)
  <2>1. PICK w : Becomes(p, [p EXCEPT !.at = w])
    BY <1>1 DEF Unpack, Finish, StopApp, RemoveFiles
  <2>2. Becomes(p, Job(p, p.attempt, w, p.child))
    BY <2>1 DEF Becomes
  <2>3. UNCHANGED call
    BY <1>1 DEF Unpack, Finish, StopApp, RemoveFiles
  <2>4. QED
    BY <2>2, <2>3
<1>2. CASE Exit(p) \/ ExitFailed(p)
  BY <1>2 DEF Exit, ExitFailed
<1>3. CASE DownloadFails(p)
  <2>1. CASE Retries(p)
    <3>1. Becomes(p, [p EXCEPT !.attempt = @ + 1]) /\ UNCHANGED call
      BY <1>3, <2>1 DEF DownloadFails
    <3>2. Becomes(p, Job(p, p.attempt + 1, p.at, p.child))
      BY <3>1 DEF Becomes
    <3>3. QED
      BY <3>1, <3>2
  <2>2. CASE ~Retries(p)
    BY <1>3, <2>2 DEF DownloadFails
  <2>3. QED
    BY <2>1, <2>2
<1>4. CASE GuestDeadline(p)
  <2>1. CASE Becomes(p, [p EXCEPT !.child = FALSE])
    <3>1. Becomes(p, Job(p, p.attempt, p.at, FALSE))
      BY <2>1 DEF Becomes
    <3>2. QED
      BY <1>4, <3>1 DEF GuestDeadline
  <2>2. CASE procs' = procs \ {p}
    BY <2>2
  <2>3. QED
    BY <1>4, <2>1, <2>2 DEF GuestDeadline, Killed
<1>5. QED
  BY <1>1, <1>2, <1>3, <1>4 DEF Installer

LEMMA InstallerOwned ==
  ASSUME Place, Owned, NEW p \in procs, Installer(p) \/ GuestDeadline(p)
  PROVE  Owned'
<1>1. Mine(p) /\ UNCHANGED <<scn, turn, pc, verdicts, began>> /\ (call' = call \/ p.turn = turn)
  BY InstallerFrame DEF Owned, Serves
<1>2. CASE procs' = procs \ {p}
  BY <1>1, <1>2, OwnedGone
<1>3. CASE (\E k, w, c : Becomes(p, Job(p, k, w, c))) /\ UNCHANGED call
  <2>1. PICK k, w, c : Becomes(p, Job(p, k, w, c))
    BY <1>3
  <2>2. QED
    BY <1>1, <1>3, <2>1, OwnedOn
<1>4. /\ \A w : [p EXCEPT !.at = w] = Job(p, p.attempt, w, p.child)
      /\ \A k : [p EXCEPT !.attempt = k] = Job(p, k, p.at, p.child)
      /\ \A c : [p EXCEPT !.child = c] = Job(p, p.attempt, p.at, c)
  BY <1>1, JobFacts DEF Mine
<1>5. QED
  BY <1>2, <1>3, <1>4, InstallerMoves

(* A request whose installer fails has a reason to. *)
LEMMA InstallerExcused ==
  ASSUME IInv, NEW p \in procs, Installer(p) \/ GuestDeadline(p), call' = "error", call # "error"
  PROVE  Excused'
<1>1. Place /\ UNCHANGED <<scn, turn, pc, verdicts, began>> /\ Serves(p) /\ Needed' = Needed
  BY InstallerFrame DEF IInv, Needed
<1>2. CASE began = "busy"
  BY <1>1, <1>2, NeededFacts DEF Excused
<1>3. CASE began # "busy"
  <2>1. Steady
    <3>1. pc > 0
      BY <1>1 DEF Place, Serves
    <3>2. pc # 0
      BY SMT, <3>1
    <3>3. QED
      BY <1>3, <3>2 DEF Steady
  <2>2. procs = {p} /\ Works(p)
    BY <2>1, Alone
  <2>3. CASE ExitFailed(p)
    BY <1>1, <2>2, <2>3 DEF ExitFailed, Fault, Excused
  <2>4. CASE DownloadFails(p)
    <3>1. ~Retries(p) /\ reason' = (reason \/ p.attempt = MaxInstallAttempts)
      BY <2>4 DEF DownloadFails
    <3>2. p.attempt \in 1..MaxInstallAttempts /\ MaxInstallAttempts \in Nat
      BY <2>2, BoundsAssumption DEF Works
    <3>3. p.attempt = MaxInstallAttempts
      BY SMT, <3>1, <3>2 DEF Retries
    <3>4. QED
      BY <3>1, <3>3 DEF Excused
  <2>5. ExitFailed(p) \/ DownloadFails(p)
    BY <1>1 DEF Installer, Unpack, Finish, StopApp, RemoveFiles, Exit, GuestDeadline
  <2>6. QED
    BY <2>3, <2>4, <2>5
<1>4. QED
  BY <1>2, <1>3

(* What an installer does to the guest of a test that has it for itself. *)
LEMMA InstallerGuest ==
  ASSUME IInv, NEW p \in procs, Installer(p) \/ GuestDeadline(p), Steady'
  PROVE  Guest'
<1>1. /\ Place /\ UNCHANGED <<scn, turn, pc, verdicts, began>> /\ setup' \subseteq setup
      /\ (call' = call \/ (Serves(p) /\ call' = "ok")) /\ (reason => reason')
  BY InstallerFrame DEF IInv, Steady
<1>2. Steady
  BY <1>1 DEF Steady, Serves
<1>3. /\ Guest /\ Works(p) /\ procs = {p} /\ call = "wait" /\ Disk
      /\ pc > 0 /\ Script[pc].do \in {"install", "uninstall"} /\ p = Job(p, p.attempt, p.at, p.child)
  BY <1>2, Alone DEF IInv, Owned, Mine, Guest
<1>4. Script' = Script /\ Arg' = Arg
  BY <1>1, SameTest DEF Arg
<1>5. /\ p.turn = turn /\ p.op = Script[pc].do /\ p.version = Arg
      /\ p.attempt \in 1..MaxInstallAttempts /\ p.at \in {"start", "middle", "exit"}
  BY <1>3 DEF Works
<1>6. SUFFICES Disk' /\ Request'
  BY <1>1, <1>3, BusyStep DEF Serves
<1>7. /\ \A w : [p EXCEPT !.at = w] = Job(p, p.attempt, w, p.child)
      /\ \A k : [p EXCEPT !.attempt = k] = Job(p, k, p.at, p.child)
      /\ \A c : [p EXCEPT !.child = c] = Job(p, p.attempt, p.at, c)
  BY <1>3, JobFacts
<1>8. CASE Unpack(p)
  <2>1. /\ procs' = {Job(p, p.attempt, "middle", p.child)} /\ call' = "wait" /\ daemon' = "down"
        /\ p.op = "install"
    BY <1>3, <1>7, <1>8 DEF Unpack, Becomes
  <2>2. Request'
    BY <1>1, <1>5, <2>1, WorksOn
  <2>3. QED
    BY <2>1, <2>2 DEF Disk
<1>9. CASE Finish(p)
  <2>1. /\ procs' = {Job(p, p.attempt, "exit", p.child)} /\ call' = "wait" /\ daemon' = "starting"
        /\ p.op = "install" /\ version' = Arg /\ files' = Files \ {"socket"}
    BY <1>3, <1>5, <1>7, <1>9 DEF Finish, Becomes
  <2>2. Request'
    BY <1>1, <1>5, <2>1, WorksOn
  <2>3. QED
    BY <2>1, <2>2 DEF Disk
<1>10. CASE StopApp(p)
  <2>1. /\ procs' = {Job(p, p.attempt, "middle", p.child)} /\ call' = "wait" /\ daemon' = "down"
        /\ p.op = "uninstall"
    BY <1>3, <1>7, <1>10 DEF StopApp, Becomes
  <2>2. reason' \/ ~devices'
    BY <1>10 DEF StopApp, Fault, NoFault
  <2>3. Request'
    BY <1>1, <1>5, <2>1, <2>2, WorksOn
  <2>4. QED
    BY <2>1, <2>3 DEF Disk
<1>11. CASE RemoveFiles(p)
  <2>1. /\ procs' = {Job(p, p.attempt, "exit", p.child)} /\ call' = "wait"
        /\ UNCHANGED <<daemon, devices>> /\ p.op = "uninstall" /\ p.at = "middle"
    BY <1>3, <1>7, <1>11 DEF RemoveFiles, Becomes, At
  <2>2. reason' \/ (files' = {} /\ reason' = reason)
    BY <1>11 DEF RemoveFiles, Fault, NoFault
  <2>3. daemon = "down" /\ (reason \/ ~devices)
    BY <1>3, <2>1 DEF Works
  <2>4. Removed' /\ daemon' = "down" /\ (reason' \/ ~devices')
    BY <1>1, <2>1, <2>2, <2>3 DEF Removed
  <2>5. Request'
    BY <1>1, <1>5, <2>1, <2>4, WorksOn
  <2>6. QED
    BY <2>4, <2>5 DEF Disk
<1>12. CASE Exit(p)
  <2>1. /\ procs' = {} /\ UNCHANGED <<version, files, daemon, setup, devices, reason>>
        /\ p.at = "exit" /\ (scn.prompt => daemon # "starting")
    BY <1>3, <1>12 DEF Exit, At, guest
  <2>2. IF Script[pc].do = "install" THEN Installed(Arg) ELSE Removed
    BY <1>3, <1>5, <2>1 DEF Works
  <2>3. /\ (Installed(Arg))' <=> Installed(Arg)
        /\ Removed' <=> Removed
    BY <1>4, <2>1 DEF Installed, Removed
  <2>4. daemon \in {"down", "starting", "up"}
    BY <1>1 DEF Place
  <2>5. QED
    BY <1>1, <1>3, <1>4, <2>1, <2>2, <2>3, <2>4 DEF Request, Disk, Installed
<1>13. CASE ExitFailed(p) \/ (GuestDeadline(p) /\ procs' = procs \ {p})
  <2>1. /\ procs' = {} /\ UNCHANGED <<files, daemon>> /\ call' = "wait"
    BY <1>1, <1>3, <1>13 DEF ExitFailed, GuestDeadline, guest
  <2>2. QED
    BY <1>1, <1>3, <2>1 DEF Request, Disk
<1>14. CASE DownloadFails(p)
  <2>1. /\ UNCHANGED <<version, files, daemon, setup, devices>> /\ p.op = "install" /\ p.at = "start"
    BY <1>14 DEF DownloadFails, At, guest
  <2>2. Disk'
    BY <1>1, <1>3, <2>1 DEF Disk
  <2>3. CASE Retries(p)
    <3>1. procs' = {Job(p, p.attempt + 1, "start", p.child)} /\ call' = "wait"
      BY <1>3, <1>7, <1>14, <2>1, <2>3 DEF DownloadFails, Becomes
    <3>2. p.attempt + 1 \in 1..MaxInstallAttempts
      BY SMT, <1>5, <2>3, BoundsAssumption DEF Retries
    <3>3. Request'
      BY <1>1, <1>5, <2>1, <3>1, <3>2, WorksOn
    <3>4. QED
      BY <2>2, <3>3
  <2>4. CASE ~Retries(p)
    <3>1. procs' = {} /\ call' = "wait"
      BY <1>1, <1>3, <1>14, <2>4 DEF DownloadFails
    <3>2. QED
      BY <2>2, <3>1 DEF Request
  <2>5. QED
    BY <2>3, <2>4
<1>15. CASE GuestDeadline(p) /\ procs' # procs \ {p}
  <2>1. /\ procs' = {Job(p, p.attempt, p.at, FALSE)} /\ call' = "wait" /\ reason' = TRUE
        /\ UNCHANGED <<version, files, daemon, setup, devices>>
    BY <1>3, <1>7, <1>15 DEF GuestDeadline, Killed, Becomes, Fault, guest
  <2>2. /\ p.at # "start" /\ p.op = "uninstall" => daemon = "down"
        /\ p.at = "exit" /\ p.op = "install" => version = Arg /\ daemon # "down"
        /\ p.at = "exit" /\ p.op # "install" => daemon = "down"
    BY <1>3, <1>5 DEF Works, Installed, Removed
  <2>3. Request'
    BY <1>1, <1>5, <2>1, <2>2, WorksOn DEF Removed
  <2>4. QED
    BY <1>1, <1>3, <2>1, <2>3 DEF Disk
<1>16. QED
  BY <1>8, <1>9, <1>10, <1>11, <1>12, <1>13, <1>14, <1>15 DEF Installer

LEMMA InstallingStep ==
  ASSUME IInv, NEW p \in procs, Installer(p) \/ GuestDeadline(p)
  PROVE  IInv'
<1>1. Place /\ Owned
  BY DEF IInv
<1>2. Serves(p) => pc > 0 /\ Script[pc].do \in {"install", "uninstall"}
  BY <1>1 DEF Place, Serves
<1>3. Owned'
  BY <1>1, InstallerOwned
<1>4. QED
  BY <1>1, <1>2, <1>3, InstallerFrame, InstallerExcused, InstallerGuest, GuestStep

LEMMA ReturnStep == IInv /\ Return => IInv'
<1> SUFFICES ASSUME IInv, Return PROVE IInv'
  OBVIOUS
<1>1. /\ Place /\ Owned /\ pc > 0 /\ Script[pc].do \in {"install", "uninstall"}
      /\ call \in {"ok", "error"}
  BY DEF IInv, Return, Place
<1>2. /\ UNCHANGED <<scn, turn, version, files, daemon, setup, devices, procs, began, reason>>
      /\ call' = "none" /\ (IF call = "ok" THEN Proceed ELSE Fails)
  BY DEF Return, guest
<1>3. Script' = Script /\ TestName' = TestName /\ Needed' = Needed
  BY <1>2, SameTest DEF Needed
<1>4. Owned'
  BY <1>1, <1>2, OwnedTest
<1>5. CASE call = "ok"
  <2>1. Proceed
    BY <1>2, <1>5
  <2>2. /\ pc' \in 0..Len(Script) /\ pc' # 1 /\ FailsForAReason'
        /\ verdicts' \in [1..Len(scn.tests) -> {"none", "pass", "fail"}]
    BY <1>1, <1>2, <2>1, ProceedFacts
  <2>3. Place' /\ Excuses'
    BY <1>1, <1>2, <1>3, <2>2 DEF Place, Excuses
  <2>4. ASSUME Steady' PROVE Guest'
    <3>1. Guest /\ procs = {}
      <4>1. Steady
        BY SMT, <1>1, <1>2, <1>5, <2>4 DEF Steady
      <4>2. ASSUME NEW p \in procs PROVE FALSE
        BY <1>5, <4>1, Alone
      <4>3. QED
        BY <4>1, <4>2 DEF IInv
    <3>2. Disk' /\ Request' /\ Begun'
      BY <1>2, <2>2, <3>1 DEF Guest, Disk, Request, Begun
    <3>3. \/ TestName = "previous" /\ pc = 2 /\ Script[pc].do = "install" /\ Arg = "old"
          \/ TestName = "new" /\ pc = 2 /\ Script[pc].do = "install" /\ Arg = "new"
          \/ TestName = "upgrade" /\ pc = 3 /\ Script[pc].do = "install" /\ Arg = "new"
          \/ TestName = "uninstall" /\ pc = 3 /\ Script[pc].do = "uninstall"
      BY <1>1, WhereInstaller DEF Step
    <3>4. pc' = pc + 1
      <4>1. Len(Script) \in {5, 6, 7}
        BY <1>1, ScriptLength DEF Place
      <4>2. 2 < Len(Script) /\ 3 < Len(Script)
        BY <4>1, Long
      <4>3. QED
        BY <2>1, <3>3, <4>2 DEF Proceed
    <3>5. Progress'
      <4>1. CASE Script[pc].do = "install"
        <5>1. version = Arg /\ daemon # "down" /\ (scn.prompt => daemon = "up")
          BY <1>5, <3>1, <4>1 DEF Guest, Request, Installed
        <5>2. /\ (Past(1)' <=> Past(1)) /\ ~Past(4)' /\ ~Past(5)' /\ ~Past(6)'
              /\ pc = 2 => ~Past(3)'
          BY SMT, <3>3, <3>4 DEF Past
        <5>3. QED
          BY <1>2, <1>3, <3>1, <3>3, <4>1, <5>1, <5>2
             DEF Guest, Progress, InPrevious, InUpgrade, InNew, Clean, Running, Installed
      <4>2. CASE Script[pc].do = "uninstall"
        <5>1. Removed /\ TestName = "uninstall" /\ pc = 3
          BY <1>5, <3>1, <3>3, <4>2 DEF Guest, Request
        <5>2. Removed'
          BY <1>2, <5>1 DEF Removed
        <5>3. ~Past(4)' /\ ~Past(6)' /\ pc' = 4
          BY SMT, <3>4, <5>1 DEF Past
        <5>4. QED
          BY SMT, <1>3, <5>1, <5>2, <5>3 DEF Progress, InUninstall
      <4>3. QED
        BY <1>1, <4>1, <4>2
    <3>6. QED
      BY <3>2, <3>5 DEF Guest
  <2>5. QED
    BY <1>4, <2>3, <2>4 DEF IInv
<1>6. CASE call = "error"
  <2>1. Fails
    BY <1>2, <1>6
  <2>2. /\ pc' \in 0..Len(Script) /\ ~Steady'
        /\ verdicts' \in [1..Len(scn.tests) -> {"none", "pass", "fail"}]
    BY <1>1, <1>2, <2>1, FailsFacts
  <2>3. Place'
    BY <1>1, <1>2, <1>3, <2>2 DEF Place
  <2>4. Excuses'
    BY <1>2, <1>3, <1>6 DEF IInv, Excuses, Excused, FailsForAReason
  <2>5. QED
    BY <1>4, <2>2, <2>3, <2>4 DEF IInv
<1>7. QED
  BY <1>1, <1>5, <1>6

-----------------------------------------------------------------------------
(* The daemon, and the next test.                                           *)

LEMMA DaemonUpStep == IInv /\ DaemonUp => IInv'
<1> SUFFICES ASSUME IInv, DaemonUp PROVE IInv'
  OBVIOUS
<1>1. /\ daemon = "starting" /\ daemon' = "up" /\ files' = files \cup {"socket"}
      /\ UNCHANGED <<scn, turn, pc, verdicts, version, setup, devices, call, procs, began, reason>>
  BY DEF DaemonUp
<1>2. Place /\ Owned /\ devices' \in BOOLEAN /\ reason' \in BOOLEAN
  BY <1>1 DEF IInv, Place
<1>3. Owned'
  <2>1. ASSUME NEW p \in procs PROVE Mine(p)'
    BY <1>1, <1>2 DEF Owned, Mine
  <2>2. QED
    BY <1>1, <1>2, <2>1 DEF Owned
<1>4. ASSUME Steady' PROVE Guest'
  <2>1. Guest
    BY <1>1, <1>4 DEF IInv, Steady
  <2>2. Script' = Script /\ TestName' = TestName /\ Arg' = Arg
    BY <1>1, SameTest DEF Arg
  <2>3. Disk' /\ Begun'
    BY <1>1, <2>1 DEF Guest, Disk, Begun
  <2>4. ~Removed /\ \A v : Installed(v) => (Installed(v))'
    BY <1>1 DEF Removed, Installed
  <2>5. Request'
    <3>1. ASSUME NEW p \in procs, Works(p) PROVE Works(p)'
      BY <1>1, <2>2, <2>4, <3>1 DEF Works, Installed
    <3>2. (\A p \in procs : Works(p))'
      BY <1>1, <2>1, <3>1 DEF Guest, Request
    <3>3. QED
      BY <1>1, <2>1, <2>2, <2>4, <3>2 DEF Guest, Request, Installed
  <2>6. Progress'
    <3>1. /\ Past(1)' <=> Past(1)
          /\ Past(2)' <=> Past(2)
          /\ Past(3)' <=> Past(3)
          /\ Past(4)' <=> Past(4)
          /\ Past(5)' <=> Past(5)
          /\ Past(6)' <=> Past(6)
      BY <1>1 DEF Past
    <3>2. TestName \in {"previous", "upgrade", "uninstall", "new"} /\ Progress
      BY <1>2, <2>1, Names DEF Guest, Place
    <3>3. Past(4) => Past(3)
      <4>1. pc \in 0..Len(Script) /\ Len(Script) \in {5, 6, 7}
        BY <1>2, ScriptLength DEF Place
      <4>2. QED
        BY SMT, <4>1 DEF Past
    <3>4. CASE TestName = "uninstall"
      <4>1. InUninstall /\ ~Past(3) /\ ~Past(4)
        BY <2>4, <3>2, <3>3, <3>4 DEF Progress, InUninstall
      <4>2. InUninstall'
        BY <1>1, <3>1, <4>1 DEF InUninstall
      <4>3. QED
        BY <2>2, <3>4, <4>2 DEF Progress
    <3>5. CASE TestName # "uninstall"
      BY <1>1, <2>2, <3>1, <3>2, <3>5
         DEF Progress, InPrevious, InUpgrade, InNew, Clean, Running, Installed
    <3>6. QED
      BY <3>4, <3>5
  <2>7. QED
    BY <2>3, <2>5, <2>6 DEF Guest
<1>5. QED
  BY <1>1, <1>2, <1>3, <1>4, GuestStep

LEMMA NextTestStep == IInv /\ NextTest => IInv'
<1> SUFFICES ASSUME IInv, NextTest PROVE IInv'
  OBVIOUS
<1>1. /\ Place /\ Owned /\ pc = 0 /\ turn \in 1..Len(scn.tests) /\ scn \in Scenarios
      /\ call = "none"
  BY SMT DEF IInv, NextTest, Place
<1>2. /\ UNCHANGED <<scn, verdicts, version, files, daemon, setup, devices, call, procs>>
      /\ turn' = turn + 1 /\ turn < Len(scn.tests) /\ pc' = 1 /\ reason' = FALSE
      /\ began' = IF procs # {} THEN "busy"
                  ELSE IF daemon # "down" /\ ~(Files \ {"socket"} \subseteq files) THEN "broken"
                  ELSE daemon
  BY DEF NextTest, guest
<1>3. scn.tests \in Seq({"previous", "upgrade", "uninstall", "new"})
      /\ \A t \in 2..Len(scn.tests) : scn.tests[t] # "previous"
  BY <1>1, ScenarioAssumption
<1>4. turn' \in 2..Len(scn.tests) /\ turn' \in 1..Len(scn.tests)
  BY SMT, <1>1, <1>2, <1>3
<1>5. (scn \in Scenarios /\ turn \in 1..Len(scn.tests))'
  BY <1>1, <1>2, <1>4
<1>6. (scn \in Scenarios /\ turn \in 1..Len(scn.tests)
        => Len(Script) \in {5, 6, 7} /\ TestName \in {"previous", "upgrade", "uninstall", "new"})'
  BY ScriptLength, Names, PTL
<1>7. TestName' \in {"upgrade", "uninstall", "new"}
  BY <1>2, <1>3, <1>4, <1>5, <1>6 DEF TestName
<1>8. (pc \in 0..Len(Script))'
  <2>1. Len(Script') \in {5, 6, 7}
    BY <1>5, <1>6
  <2>2. 1 \in 0..Len(Script')
    BY <2>1, Long
  <2>3. QED
    BY <1>2, <2>2
<1>9. Place' /\ Excuses'
  <2>1. FailsForAReason'
    BY SMT, <1>2 DEF FailsForAReason
  <2>2. QED
    BY <1>1, <1>2, <1>5, <1>8, <2>1 DEF Place, Excuses
<1>10. Owned'
  <2>1. \A t \in 1..Len(scn.tests) : t > turn' \/ t = turn' => t > turn
    BY SMT, <1>1, <1>2, <1>3
  <2>2. (\A t \in 1..Len(scn.tests) : t > turn \/ (t = turn /\ pc > 0) => verdicts[t] = "none")'
    BY <1>1, <1>2, <2>1 DEF Owned
  <2>3. ASSUME NEW p \in procs PROVE Mine(p)'
    <3>1. Mine(p)
      BY <1>1 DEF Owned
    <3>2. p.turn \in 1..turn
      BY <3>1 DEF Mine
    <3>3. p.turn \in 1..turn'
      BY SMT, <1>1, <1>2, <3>2
    <3>4. began' = "busy" /\ verdicts'[p.turn] = "fail"
      BY <1>1, <1>2, <3>1 DEF Mine
    <3>5. QED
      BY <3>1, <3>3, <3>4 DEF Mine
  <2>4. QED
    BY <1>1, <1>2, <2>2, <2>3 DEF Owned
<1>11. ASSUME Steady' PROVE Guest'
  <2>1. procs' = {} /\ (began' = "broken" \/ (began' = daemon /\ (daemon # "down" => Files \ {"socket"} \subseteq files)))
    BY <1>2, <1>11 DEF Steady
  <2>2. Disk' /\ Request' /\ Begun'
    BY <1>1, <1>2, <2>1 DEF Disk, Request, Begun
  <2>3. ~Past(1)' /\ ~Past(2)' /\ ~Past(3)' /\ ~Past(4)' /\ ~Past(5)' /\ ~Past(6)'
    BY SMT, <1>2 DEF Past
  <2>4. InUpgrade' /\ InNew'
    BY <2>3 DEF InUpgrade, InNew, Clean, Running
  <2>5. InUninstall'
    BY SMT, <1>2, <2>3 DEF InUninstall
  <2>6. QED
    BY <1>7, <2>2, <2>4, <2>5 DEF Guest, Progress
<1>12. QED
  BY <1>9, <1>10, <1>11 DEF IInv

LEMMA VerdictsInit == Init => IInv
<1> SUFFICES ASSUME Init PROVE IInv
  OBVIOUS
<1>1. /\ scn \in Scenarios /\ turn = 1 /\ pc = 1 /\ setup = {} /\ devices = FALSE /\ call = "none"
      /\ procs = {} /\ reason = FALSE /\ began = daemon
      /\ verdicts = [t \in DOMAIN scn.tests |-> "none"]
  BY DEF Init
<1>2. daemon \in {"down", "up"} /\ (daemon # "down" => files = Files)
  BY DEF Init
<1>3. scn.tests \in Seq({"previous", "upgrade", "uninstall", "new"}) /\ scn.tests # <<>>
  BY <1>1, ScenarioAssumption
<1>4. turn \in 1..Len(scn.tests) /\ DOMAIN scn.tests = 1..Len(scn.tests)
  BY SMT, <1>1, <1>3
<1>5. Len(Script) \in {5, 6, 7} /\ TestName \in {"previous", "upgrade", "uninstall", "new"}
  BY <1>1, <1>4, ScriptLength, Names
<1>6. pc \in 0..Len(Script)
  BY <1>1, <1>5, Long
<1>7. Place /\ Owned
  BY <1>1, <1>2, <1>4, <1>6 DEF Place, Owned
<1>8. Disk /\ Request /\ Begun
  BY <1>1, <1>2 DEF Disk, Request, Begun
<1>9. Excuses
  BY SMT, <1>1 DEF Excuses, FailsForAReason
<1>10. ~Past(1) /\ ~Past(2) /\ ~Past(3) /\ ~Past(4) /\ ~Past(5) /\ ~Past(6)
  BY SMT, <1>1 DEF Past
<1>11. Progress
  <2>1. InPrevious /\ InUpgrade /\ InNew
    BY <1>1, <1>10 DEF InPrevious, InUpgrade, InNew, Clean, Running
  <2>2. InUninstall
    BY SMT, <1>1, <1>10 DEF InUninstall
  <2>3. QED
    BY <1>5, <2>1, <2>2 DEF Progress
<1>12. QED
  BY <1>7, <1>8, <1>9, <1>11 DEF IInv, Guest

LEMMA VerdictsStep == IInv /\ [Next]_vars => IInv'
<1> SUFFICES ASSUME IInv, [Next]_vars PROVE IInv'
  OBVIOUS
<1>1. CASE Test
  BY <1>1, BusyTest, StatusStep, SetUpStep, BlockStep, SleepStep, LeaksStep, SettingsStep,
     LoginStep, TracesStep, DevicesStep, BeginStep, ReturnStep, NextTestStep DEF Test
<1>2. CASE Deadline \/ DaemonUp
  BY <1>2, DeadlineStep, DaemonUpStep
<1>3. CASE \E p \in procs : Installer(p) \/ GuestDeadline(p)
  BY <1>3, InstallingStep
<1>4. CASE UNCHANGED vars
  <2>1. UNCHANGED <<scn, turn, pc, verdicts, version, files, daemon, setup, devices, call, procs,
                    began, reason>>
    BY <1>4 DEF vars, guest
  <2>2. Script' = Script /\ TestName' = TestName /\ Arg' = Arg /\ TraceList' = TraceList
    BY <2>1, SameTest DEF Arg
  <2>3. Owned'
    <3>1. ASSUME NEW p \in procs PROVE Mine(p)'
      BY <2>1 DEF IInv, Owned, Mine
    <3>2. QED
      BY <2>1, <3>1 DEF IInv, Owned
  <2>4. ASSUME Steady' PROVE Guest'
    <3>1. Guest
      BY <2>1, <2>4 DEF IInv, Steady
    <3>2. Disk' /\ Begun' /\ Request'
      BY <2>1, <2>2, <3>1 DEF Guest, Disk, Begun, Request, Works, Installed, Removed
    <3>3. Progress'
      BY <2>1, <2>2, <3>1 DEF Guest, Progress, InPrevious, InUpgrade, InUninstall, InNew, Clean,
         Running, Installed, Removed, Past
    <3>4. QED
      BY <3>2, <3>3 DEF Guest
  <2>5. daemon' \in {"down", "starting", "up"} /\ devices' \in BOOLEAN /\ reason' \in BOOLEAN
    BY <2>1 DEF IInv, Place
  <2>6. QED
    BY <2>1, <2>3, <2>4, <2>5, GuestStep
<1>5. QED
  BY <1>1, <1>2, <1>3, <1>4 DEF Next

-----------------------------------------------------------------------------
(* The theorems.                                                            *)

LEMMA VerdictsHold == Spec => []IInv
BY VerdictsInit, VerdictsStep, PTL DEF Spec

\* What a test that passes says is true of the guest, unless an installer of an
\* earlier test was at work when it began, for any selection of the tests, any
\* faults and any number of retries (tests/install.rs).
THEOREM PassesAreRight == Spec => []PassedRight
<1>1. IInv => PassedRight
  <2> SUFFICES ASSUME IInv, began # "busy", pc = 0, verdicts[turn] = "pass" PROVE PassedRight
    BY DEF PassedRight, Over
  <2>1. Past(1) /\ Past(2) /\ Past(3) /\ Past(4) /\ Past(5) /\ Past(6)
    BY DEF Past
  <2>2. Progress /\ setup \subseteq {"cert", "env", "level"}
    <3>1. Place /\ (Steady => Guest)
      BY DEF IInv
    <3>2. call = "none"
      BY SMT, <3>1 DEF Place
    <3>3. QED
      BY <3>1, <3>2 DEF Place, Steady, Guest
  <2>3. TestName = "previous" =>
          began # "up" /\ version = "old" /\ daemon = "up" /\ setup = {"cert", "env"}
    BY <2>1, <2>2 DEF Progress, InPrevious, Clean, Running, Installed
  <2>4. TestName = "upgrade" => version = "new" /\ daemon = "up"
    BY <2>1, <2>2 DEF Progress, InUpgrade, Running, Installed
  <2>5. TestName = "uninstall" =>
          files \cap Range(TraceList) = {} /\ daemon = "down" /\ ~devices
    BY <2>1, <2>2 DEF Progress, InUninstall, Removed
  <2>6. TestName = "new" =>
          began # "up" /\ version = "new" /\ daemon = "up" /\ setup = {"cert", "env", "level"}
    BY <2>1, <2>2 DEF Progress, InNew, Clean, Running, Installed
  <2>7. QED
    BY <2>3, <2>4, <2>5, <2>6 DEF PassedRight, Over, TestName
<1>2. QED
  BY <1>1, VerdictsHold, PTL

\* A test fails only for a fault of its own, for the guest it was given, or for
\* a daemon slower than its installer (package.rs, install_rpm: a download that
\* is tried again is no such fault).
THEOREM FailuresHaveReasons == Spec => []FailsForAReason
<1>1. IInv => FailsForAReason
  BY DEF IInv, Excuses
<1>2. QED
  BY <1>1, VerdictsHold, PTL

\* An installer outlives its request only in a test that fails, and no test has
\* two, whichever of the two deadlines comes first, for any number of retries and
\* faults (package.rs, wait_with_output and kill_on_drop; client.rs,
\* INSTALL_TIMEOUT).
THEOREM InstallersEnd == Spec => []NoInstallerLeft
<1>1. IInv => NoInstallerLeft
  BY DEF IInv, Owned, Mine, NoInstallerLeft
<1>2. QED
  BY <1>1, VerdictsHold, PTL

-----------------------------------------------------------------------------
(* What is found is what is there.                                          *)

INSTANCE FiniteSetTheorems
INSTANCE FunctionTheorems

\* A sequence without repetition is as long as the set of its elements.
LEMMA Counted ==
  ASSUME NEW s \in Seq(Files), Distinct(s)
  PROVE  Len(s) = Cardinality(Range(s))
<1> DEFINE n == Len(s)
           f == [i \in 1..n |-> s[i]]
           S == Range(s)
<1>1. n \in Nat /\ DOMAIN s = 1..n
  BY SMT
<1>2. \A i, j \in 1..n : s[i] = s[j] => i = j
  BY DEF Distinct
<1>3. S = {s[i] : i \in 1..n}
  BY <1>1 DEF Range
<1> HIDE DEF n, S
<1>4. f \in [1..n -> S]
  BY <1>3
<1>5. \A i, j \in 1..n : f[i] = f[j] => i = j
  BY <1>2
<1>6. \A t \in S : \E i \in 1..n : f[i] = t
  BY <1>3
<1> HIDE DEF f
<1>7. f \in Bijection(1..n, S)
  BY <1>4, <1>5, <1>6, Fun_IsBij
<1>8. ExistsBijection(1..n, S)
  BY <1>7 DEF ExistsBijection
<1>9. IsFiniteSet(1..n) /\ Cardinality(1..n) = n
  BY SMT, <1>1, FS_Interval
<1>10. n = Cardinality(S)
  BY <1>8, <1>9, FS_Bijection
<1>11. QED
  BY <1>10 DEF n, S

\* What find_traces answers, if it can look, is what is there, each path once,
\* whatever the disk holds (package.rs, find_traces; filter_non_existent_paths).
THEOREM TracesAreExact == Spec => TracesExact
<1>1. IInv /\ [Next]_vars =>
        [Doing("traces") /\ pc' # pc =>
           \/ Fault
           \/ /\ Range(found') = files \cap Range(TraceList)
              /\ Len(found') = Cardinality(Range(found'))]_vars
  <2> SUFFICES ASSUME IInv, Next, Doing("traces"), pc' # pc, ~Fault
               PROVE  /\ Range(found') = files \cap Range(TraceList)
                      /\ Len(found') = Cardinality(Range(found'))
    OBVIOUS
  <2>1. FindTraces
    <3>1. pc > 0 /\ Script[pc].do = "traces" /\ call = "none"
      BY DEF IInv, Place, Doing
    <3>2. pc # 0
      BY SMT, <3>1
    <3>3. Test /\ ~Begin /\ ~Return /\ ~NextTest
      BY <3>1, <3>2 DEF Next, Deadline, DaemonUp, Installer, Unpack, Finish, StopApp, RemoveFiles,
         Exit, ExitFailed, DownloadFails, GuestDeadline, Begin, Return, NextTest
    <3>4. QED
      BY <3>1, <3>3 DEF Test, CheckStatus, SetUpApp, Block, Sleep, CheckLeaks, CheckSettings, Login,
         CheckDevices, Doing
  <2>2. found' = FilterNonExistentPaths(TraceList)
    BY <2>1 DEF FindTraces
  <2>3. QED
    BY <2>2, TracesFound, Counted
<1>2. QED
  BY <1>1, VerdictsHold, PTL DEF Spec, TracesExact
=============================================================================
