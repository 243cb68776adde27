---------------------------- MODULE ChartProofs ----------------------------
(***************************************************************************)
(* What holds of a service's chart for every manifest, every list of       *)
(* environments and every set of files.                                    *)
(***************************************************************************)
EXTENDS ChartFiles, Scaffold, SequenceTheorems, WellFoundedInduction, TLAPS

---------------------------------------------------------------------------
(* The list of steps of a run.                                             *)

RenderedFor(es) == [i \in DOMAIN es |-> Write(ValuesFile(es[i]))]
Copied == [i \in DOMAIN StaticFiles |-> Write(StaticFiles[i])]

LEMMA Joined ==
    ASSUME NEW S, NEW s \in Seq(S), NEW t \in Seq(S)
    PROVE  /\ s \o t \in Seq(S) /\ Len(s \o t) = Len(s) + Len(t)
           /\ \A i \in 1 .. Len(s) : (s \o t)[i] = s[i]
           /\ \A i \in 1 .. Len(t) : (s \o t)[Len(s) + i] = t[i]
  OBVIOUS

\* Where each step stands in the list: the plans first, then the files.
LEMMA StepsLayout ==
    ASSUME NEW es \in Seq(Environments)
    PROVE  LET all == AllSteps(es)
               n == Len(es)
               k == Len(StaticFiles)
           IN  /\ all \in Seq(Range(all)) /\ n \in Nat /\ k \in Nat
               /\ Len(all) = 2 * n + k + 5
               /\ all[1] = Load(None)
               /\ \A i \in 1 .. n : all[i + 1] = Load(es[i])
               /\ all[n + 2] = [do |-> "warn"]
               /\ all[n + 3] = Write("Chart.yaml")
               /\ all[n + 4] = Write("values.yaml")
               /\ \A i \in 1 .. n : all[n + 4 + i] = Write(ValuesFile(es[i]))
               /\ \A i \in 1 .. k : all[2 * n + 4 + i] = Write(StaticFiles[i])
               /\ all[Len(all)] = [do |-> "clean"]
  <1> DEFINE n == Len(es)
             k == Len(StaticFiles)
             loads == [i \in DOMAIN es |-> Load(es[i])]
             warn == [do |-> "warn"]
             clean == [do |-> "clean"]
             S == {Load(None), warn, clean, Write("Chart.yaml"), Write("values.yaml")}
                    \cup Range(loads) \cup Range(RenderedFor(es)) \cup Range(Copied)
             s1 == <<Load(None)>> \o loads
             s2 == s1 \o <<warn>>
             r == <<Write("Chart.yaml"), Write("values.yaml")>> \o RenderedFor(es)
             s3 == s2 \o r
             s4 == s3 \o Copied
             all == Append(s4, clean)
  <1>1. n \in Nat /\ k \in Nat /\ DOMAIN es = 1 .. n /\ DOMAIN StaticFiles = 1 .. k
    BY RequestsAssumption
  <1>2. loads \in Seq(S) /\ Len(loads) = n /\ RenderedFor(es) \in Seq(S) /\ Len(RenderedFor(es)) = n
        /\ Copied \in Seq(S) /\ Len(Copied) = k
    BY <1>1 DEF RenderedFor, Copied, Range
  <1>3. <<Load(None)>> \in Seq(S) /\ <<warn>> \in Seq(S)
        /\ <<Write("Chart.yaml"), Write("values.yaml")>> \in Seq(S) /\ clean \in S
    OBVIOUS
  <1>a. es \in Seq(Environments) /\ Len(es) = n /\ Len(StaticFiles) = k
    OBVIOUS
  <1> HIDE DEF S, loads, warn, clean, n, k
  <1>4. s1 \in Seq(S) /\ Len(s1) = n + 1 /\ s1[1] = Load(None)
        /\ \A i \in 1 .. n : s1[i + 1] = loads[i]
    <2>1. /\ <<Load(None)>> \o loads \in Seq(S) /\ Len(<<Load(None)>> \o loads) = Len(<<Load(None)>>) + Len(loads)
          /\ \A i \in 1 .. Len(<<Load(None)>>) : (<<Load(None)>> \o loads)[i] = <<Load(None)>>[i]
          /\ \A i \in 1 .. Len(loads) : (<<Load(None)>> \o loads)[Len(<<Load(None)>>) + i] = loads[i]
      BY <1>2, <1>3, Joined
    <2> QED BY <2>1, <1>1, <1>2
  <1> HIDE DEF s1
  <1>5. s2 \in Seq(S) /\ Len(s2) = n + 2 /\ s2[n + 2] = warn
        /\ \A i \in 1 .. n + 1 : s2[i] = s1[i]
    <2>1. /\ s1 \o <<warn>> \in Seq(S) /\ Len(s1 \o <<warn>>) = Len(s1) + Len(<<warn>>)
          /\ \A i \in 1 .. Len(s1) : (s1 \o <<warn>>)[i] = s1[i]
          /\ \A i \in 1 .. Len(<<warn>>) : (s1 \o <<warn>>)[Len(s1) + i] = <<warn>>[i]
      BY <1>3, <1>4, Joined
    <2>2. Len(<<warn>>) = 1 /\ <<warn>>[1] = warn
      OBVIOUS
    <2> QED BY <2>1, <2>2, <1>1, <1>4
  <1> HIDE DEF s2
  <1>6. r \in Seq(S) /\ Len(r) = n + 2 /\ r[1] = Write("Chart.yaml") /\ r[2] = Write("values.yaml")
        /\ \A i \in 1 .. n : r[i + 2] = RenderedFor(es)[i]
    <2>1. /\ <<Write("Chart.yaml"), Write("values.yaml")>> \o RenderedFor(es) \in Seq(S) /\ Len(<<Write("Chart.yaml"), Write("values.yaml")>> \o RenderedFor(es)) = Len(<<Write("Chart.yaml"), Write("values.yaml")>>) + Len(RenderedFor(es))
          /\ \A i \in 1 .. Len(<<Write("Chart.yaml"), Write("values.yaml")>>) : (<<Write("Chart.yaml"), Write("values.yaml")>> \o RenderedFor(es))[i] = <<Write("Chart.yaml"), Write("values.yaml")>>[i]
          /\ \A i \in 1 .. Len(RenderedFor(es)) : (<<Write("Chart.yaml"), Write("values.yaml")>> \o RenderedFor(es))[Len(<<Write("Chart.yaml"), Write("values.yaml")>>) + i] = RenderedFor(es)[i]
      BY <1>2, <1>3, Joined
    <2> QED BY <2>1, <1>1, <1>2
  <1> HIDE DEF r
  <1>7. s3 \in Seq(S) /\ Len(s3) = 2 * n + 4
        /\ (\A i \in 1 .. n + 2 : s3[i] = s2[i]) /\ (\A i \in 1 .. n + 2 : s3[n + 2 + i] = r[i])
    <2>2. s2 \in Seq(S) /\ r \in Seq(S)
      BY <1>5, <1>6
    <2>1. /\ s2 \o r \in Seq(S) /\ Len(s2 \o r) = Len(s2) + Len(r)
          /\ \A i \in 1 .. Len(s2) : (s2 \o r)[i] = s2[i]
          /\ \A i \in 1 .. Len(r) : (s2 \o r)[Len(s2) + i] = r[i]
      BY <2>2, Joined
    <2>3. n \in Nat /\ Len(s2) = n + 2 /\ Len(r) = n + 2
      BY <1>1, <1>5, <1>6
    <2>4. Len(s2) + Len(r) = 2 * n + 4
      BY <2>3
    <2> QED BY <2>1, <2>3, <2>4
  <1> HIDE DEF s3
  <1>8. s4 \in Seq(S) /\ Len(s4) = 2 * n + 4 + k
        /\ (\A i \in 1 .. 2 * n + 4 : s4[i] = s3[i])
        /\ (\A i \in 1 .. k : s4[2 * n + 4 + i] = Copied[i])
    <2>2. s3 \in Seq(S) /\ Copied \in Seq(S)
      BY <1>2, <1>7
    <2>1. /\ s3 \o Copied \in Seq(S) /\ Len(s3 \o Copied) = Len(s3) + Len(Copied)
          /\ \A i \in 1 .. Len(s3) : (s3 \o Copied)[i] = s3[i]
          /\ \A i \in 1 .. Len(Copied) : (s3 \o Copied)[Len(s3) + i] = Copied[i]
      BY <2>2, Joined
    <2> QED BY <2>1, <1>1, <1>2, <1>7
  <1> HIDE DEF s4
  <1>9. all \in Seq(S) /\ Len(all) = 2 * n + 5 + k /\ all[2 * n + 5 + k] = clean
        /\ \A i \in 1 .. 2 * n + 4 + k : all[i] = s4[i]
    <2> DEFINE last == 2 * n + 4 + k
    <2>1. last \in Nat /\ last + 1 = 2 * n + 5 + k
      BY <1>1
    <2>2. s4 \in Seq(S) /\ clean \in S /\ Len(s4) = last
      BY <1>3, <1>8
    <2> HIDE DEF last
    <2>3. /\ all \in Seq(S) /\ Len(all) = last + 1 /\ all[last + 1] = clean
          /\ \A i \in 1 .. last : all[i] = s4[i]
      BY <2>1, <2>2, AppendProperties
    <2> QED BY <2>1, <2>3 DEF last
  <1>10. AllSteps(es) = all
    BY DEF AllSteps, Steps, RenderSteps, s4, s3, r, s2, s1, warn, clean, loads, RenderedFor, Copied
  <1> HIDE DEF all
  <1>11. all \in Seq(Range(all)) /\ Len(all) = 2 * n + k + 5
    BY <1>1, <1>9 DEF Range
  <1>12. all[1] = Load(None) /\ all[n + 2] = warn
    <2>1. /\ 1 \in 1 .. n + 1 /\ 1 \in 1 .. n + 2 /\ n + 2 \in 1 .. n + 2
          /\ 1 \in 1 .. 2 * n + 4 /\ n + 2 \in 1 .. 2 * n + 4
          /\ 1 \in 1 .. 2 * n + 4 + k /\ n + 2 \in 1 .. 2 * n + 4 + k
      BY <1>1
    <2>2. all[1] = s4[1] /\ all[n + 2] = s4[n + 2]
      BY <2>1, <1>9
    <2>3. s4[1] = s3[1] /\ s4[n + 2] = s3[n + 2]
      BY <2>1, <1>8
    <2>4. s3[1] = s2[1] /\ s3[n + 2] = s2[n + 2]
      BY <2>1, <1>7
    <2>5. s2[1] = s1[1]
      BY <2>1, <1>5
    <2> QED BY <2>2, <2>3, <2>4, <2>5, <1>4, <1>5
  <1>13. \A i \in 1 .. n : all[i + 1] = Load(es[i])
    <2> SUFFICES ASSUME NEW i \in 1 .. n PROVE all[i + 1] = loads[i]
      BY <1>1 DEF loads
    <2> QED BY <1>1, <1>4, <1>5, <1>7, <1>8, <1>9
  <1>14. all[n + 3] = Write("Chart.yaml") /\ all[n + 4] = Write("values.yaml")
    <2>1. 1 \in 1 .. n + 2 /\ 2 \in 1 .. n + 2 /\ n + 2 + 1 = n + 3 /\ n + 2 + 2 = n + 4
      BY <1>1
    <2>2. s3[n + 3] = r[1] /\ s3[n + 4] = r[2]
      BY <2>1, <1>7
    <2>3. all[n + 3] = s3[n + 3] /\ all[n + 4] = s3[n + 4]
      BY <1>1, <1>8, <1>9
    <2> QED BY <2>2, <2>3, <1>6
  <1>15. \A i \in 1 .. n : all[n + 4 + i] = Write(ValuesFile(es[i]))
    <2> SUFFICES ASSUME NEW i \in 1 .. n PROVE all[n + 4 + i] = RenderedFor(es)[i]
      BY <1>1 DEF RenderedFor
    <2>1. s3[n + 2 + (i + 2)] = r[i + 2]
      BY <1>1, <1>7
    <2> QED BY <2>1, <1>1, <1>6, <1>8, <1>9
  <1>16. \A i \in 1 .. k : all[2 * n + 4 + i] = Write(StaticFiles[i])
    <2> SUFFICES ASSUME NEW i \in 1 .. k PROVE all[2 * n + 4 + i] = Copied[i]
      BY <1>1 DEF Copied
    <2> QED BY <1>1, <1>8, <1>9
  <1>17. all[Len(all)] = clean
    BY <1>1, <1>9, <1>11
  <1> QED BY <1>1, <1>10, <1>11, <1>12, <1>13, <1>14, <1>15, <1>16, <1>17 DEF n, k, warn, clean

\* Loads come first and nothing but generated files is written; each plan of
\* the request is loaded, each of its files written.
LEMMA StepsCover ==
    ASSUME NEW es \in Seq(Environments)
    PROVE  LET all == AllSteps(es)
           IN  /\ all \in Seq(Range(all)) /\ Len(all) \in Nat /\ Len(es) \in Nat
               /\ Len(all) > Len(es) + 1
               /\ \A i \in 1 .. Len(all) :
                     /\ all[i].do \in {"load", "warn", "write", "clean"}
                     /\ all[i].do = "load" <=> i <= Len(es) + 1
                     /\ all[i].do = "clean" <=> i = Len(all)
                     /\ all[i].do = "load" => all[i].scope \in {None} \cup Range(es)
                     /\ all[i].do = "write" => all[i].file \in GeneratedFiles(es)
               /\ \A scope \in {None} \cup Range(es) :
                     \E i \in 1 .. Len(all) : all[i] = Load(scope)
               /\ \A f \in GeneratedFiles(es) : \E i \in 1 .. Len(all) : all[i] = Write(f)
  <1> DEFINE all == AllSteps(es)
             n == Len(es)
             k == Len(StaticFiles)
  <1>1. /\ all \in Seq(Range(all)) /\ n \in Nat /\ k \in Nat
        /\ Len(all) = 2 * n + k + 5
        /\ all[1] = Load(None)
        /\ \A i \in 1 .. n : all[i + 1] = Load(es[i])
        /\ all[n + 2] = [do |-> "warn"]
        /\ all[n + 3] = Write("Chart.yaml")
        /\ all[n + 4] = Write("values.yaml")
        /\ \A i \in 1 .. n : all[n + 4 + i] = Write(ValuesFile(es[i]))
        /\ \A i \in 1 .. k : all[2 * n + 4 + i] = Write(StaticFiles[i])
        /\ all[Len(all)] = [do |-> "clean"]
    BY StepsLayout
  <1>2. DOMAIN es = 1 .. n /\ DOMAIN StaticFiles = 1 .. k
    BY RequestsAssumption
  <1> HIDE DEF all, n, k
  <1>len. n \in Nat /\ k \in Nat /\ Len(all) = 2 * n + k + 5
    BY <1>1
  <1>3. \A i \in 1 .. Len(all) :
           \/ i <= n + 1 /\ \E scope \in {None} \cup Range(es) : all[i] = Load(scope)
           \/ i = n + 2 /\ all[i] = [do |-> "warn"]
           \/ i \in n + 3 .. Len(all) - 1 /\ \E f \in GeneratedFiles(es) : all[i] = Write(f)
           \/ i = Len(all) /\ all[i] = [do |-> "clean"]
    <2> SUFFICES ASSUME NEW i \in 1 .. Len(all), i # n + 2, i # Len(all)
                 PROVE  \/ i <= n + 1 /\ \E scope \in {None} \cup Range(es) : all[i] = Load(scope)
                        \/ i \in n + 3 .. Len(all) - 1
                              /\ \E f \in GeneratedFiles(es) : all[i] = Write(f)
      BY <1>1
    <2>1. CASE i = 1
      BY <2>1, <1>1
    <2>2. ASSUME NEW j \in 1 .. n, i = j + 1
          PROVE  i <= n + 1 /\ \E scope \in {None} \cup Range(es) : all[i] = Load(scope)
      <3>1. all[i] = Load(es[j]) /\ es[j] \in Range(es)
        BY <2>2, <1>1, <1>2 DEF Range
      <3> QED BY <3>1, <2>2, <1>len
    <2>3. CASE i = n + 3 \/ i = n + 4
      BY <2>3, <1>1 DEF GeneratedFiles
    <2>4. ASSUME NEW j \in 1 .. n, i = n + 4 + j
          PROVE  i \in n + 3 .. Len(all) - 1 /\ \E f \in GeneratedFiles(es) : all[i] = Write(f)
      <3>1. all[i] = Write(ValuesFile(es[j])) /\ es[j] \in Range(es)
        BY <2>4, <1>1, <1>2 DEF Range
      <3>2. ValuesFile(es[j]) \in GeneratedFiles(es)
        BY <3>1 DEF GeneratedFiles
      <3> QED BY <3>1, <3>2, <2>4, <1>len
    <2>5. ASSUME NEW j \in 1 .. k, i = 2 * n + 4 + j
          PROVE  i \in n + 3 .. Len(all) - 1 /\ \E f \in GeneratedFiles(es) : all[i] = Write(f)
      <3>1. all[i] = Write(StaticFiles[j]) /\ StaticFiles[j] \in Range(StaticFiles)
        BY <2>5, <1>1, <1>2 DEF Range
      <3>2. StaticFiles[j] \in GeneratedFiles(es)
        BY <3>1 DEF GeneratedFiles
      <3> QED BY <3>1, <3>2, <2>5, <1>len
    <2>6. \/ i = 1
          \/ i - 1 \in 1 .. n /\ i = (i - 1) + 1
          \/ i = n + 3 \/ i = n + 4
          \/ i - n - 4 \in 1 .. n /\ i = n + 4 + (i - n - 4)
          \/ i - 2 * n - 4 \in 1 .. k /\ i = 2 * n + 4 + (i - 2 * n - 4)
      BY <1>len
    <2> QED BY <2>1, <2>2, <2>3, <2>4, <2>5, <2>6
  <1>4. \A i \in 1 .. Len(all) :
           /\ all[i].do \in {"load", "warn", "write", "clean"}
           /\ all[i].do = "load" <=> i <= n + 1
           /\ all[i].do = "clean" <=> i = Len(all)
           /\ all[i].do = "load" => all[i].scope \in {None} \cup Range(es)
           /\ all[i].do = "write" => all[i].file \in GeneratedFiles(es)
    <2> TAKE i \in 1 .. Len(all)
    <2>1. i \in Int
      BY <1>len
    <2>2. CASE i <= n + 1 /\ \E scope \in {None} \cup Range(es) : all[i] = Load(scope)
      BY <2>1, <2>2, <1>len DEF Load
    <2>3. CASE i = n + 2 /\ all[i] = [do |-> "warn"]
      BY <2>1, <2>3, <1>len
    <2>4. CASE i \in n + 3 .. Len(all) - 1 /\ \E f \in GeneratedFiles(es) : all[i] = Write(f)
      BY <2>1, <2>4, <1>len DEF Write
    <2>5. CASE i = Len(all) /\ all[i] = [do |-> "clean"]
      BY <2>1, <2>5, <1>len
    <2> QED BY <1>3, <2>2, <2>3, <2>4, <2>5
  <1>5. \A scope \in {None} \cup Range(es) : \E i \in 1 .. Len(all) : all[i] = Load(scope)
    <2>1. 1 \in 1 .. Len(all) /\ \A i \in 1 .. n : i + 1 \in 1 .. Len(all)
      BY <1>1
    <2>2. \A scope \in Range(es) : \E i \in 1 .. n : scope = es[i]
      BY <1>2 DEF Range
    <2> QED BY <2>1, <2>2, <1>1
  <1>6. \A f \in GeneratedFiles(es) : \E i \in 1 .. Len(all) : all[i] = Write(f)
    <2>1. n + 3 \in 1 .. Len(all) /\ n + 4 \in 1 .. Len(all)
          /\ (\A i \in 1 .. n : n + 4 + i \in 1 .. Len(all))
          /\ (\A i \in 1 .. k : 2 * n + 4 + i \in 1 .. Len(all))
      BY <1>len
    <2>2. /\ \A e \in Range(es) : \E i \in 1 .. n : e = es[i]
          /\ \A f \in Range(StaticFiles) : \E i \in 1 .. k : f = StaticFiles[i]
      BY <1>2 DEF Range
    <2>3. ASSUME NEW e \in Range(es)
          PROVE  \E i \in 1 .. Len(all) : all[i] = Write(ValuesFile(e))
      <3>1. PICK i \in 1 .. n : e = es[i]
        BY <2>2
      <3>2. n + 4 + i \in 1 .. Len(all) /\ all[n + 4 + i] = Write(ValuesFile(e))
        BY <2>1, <3>1, <1>1
      <3> QED BY <3>2
    <2>4. ASSUME NEW f \in Range(StaticFiles)
          PROVE  \E i \in 1 .. Len(all) : all[i] = Write(f)
      <3>1. PICK i \in 1 .. k : f = StaticFiles[i]
        BY <2>2
      <3>2. 2 * n + 4 + i \in 1 .. Len(all) /\ all[2 * n + 4 + i] = Write(f)
        BY <2>1, <3>1, <1>1
      <3> QED BY <3>2
    <2> QED BY <2>1, <2>3, <2>4, <1>1 DEF GeneratedFiles
  <1> QED BY <1>1, <1>4, <1>5, <1>6, <1>len DEF all, n

---------------------------------------------------------------------------
(* The run.                                                                *)

LEMMA ChartInitIInv == ChartInit => ChartIInv
  <1> SUFFICES ASSUME ChartInit PROVE ChartIInv
    OBVIOUS
  <1>1. outcome # "running" /\ outcome # "done" /\ outcome # "invalid"
    BY RequestsAssumption DEF ChartInit
  <1>2. RunIInv
    BY <1>1 DEF RunIInv
  <1> QED BY <1>1, <1>2 DEF ChartInit, ChartIInv, Idle, IsTable, Given

\* Another request: nothing of it has been done yet.
LEMMA StartIInv ==
    ASSUME ChartIInv, NEW es \in Requests, Start(es)
    PROVE  ChartIInv'
  <1>1. es \in Seq(Environments) /\ envs' = es
    BY RequestsAssumption DEF Start
  <1>2. /\ AllSteps(es) \in Seq(Range(AllSteps(es))) /\ Len(AllSteps(es)) \in Nat
        /\ Len(es) \in Nat /\ Len(AllSteps(es)) > Len(es) + 1
    BY <1>1, StepsCover
  <1>3. todo' = SubSeq(AllSteps(es), 0 + 1, Len(AllSteps(es))) /\ todo' # <<>>
    BY <1>2, SubSeqFull DEF Start
  <1>4. OthersKept'
    BY DEF OthersKept, Start, ChartIInv
  <1>5. Stands(0)'
    BY DEF Stands
  <1>6. RunIInv'
    BY <1>1, <1>2, <1>3, <1>4, <1>5 DEF RunIInv, Start
  <1> QED BY <1>1, <1>3, <1>6 DEF ChartIInv, Start, Idle, IsTable, Given

\* A run that is under way has taken n steps of its list.
AtStep(n) ==
    LET all == AllSteps(envs)
    IN  /\ n \in 0 .. Len(all) - 1
        /\ Head(todo) = all[n + 1]
        /\ todo = SubSeq(all, n + 1, Len(all))
        /\ Tail(todo) = SubSeq(all, (n + 1) + 1, Len(all))
        /\ n + 1 < Len(all) => n + 1 \in 0 .. Len(all) - 1 /\ Tail(todo) # <<>>
        /\ Stands(n)
        /\ n <= Len(envs) + 1 => chart = before

LEMMA Underway ==
    ASSUME ChartIInv, ~Idle
    PROVE  outcome = "running" /\ OthersKept /\ report = None /\ \E n \in Nat : AtStep(n)
  <1> DEFINE all == AllSteps(envs)
  <1>1. /\ outcome = "running" /\ OthersKept /\ report = None
        /\ \E n \in 0 .. Len(all) - 1 :
              /\ todo = SubSeq(all, n + 1, Len(all))
              /\ Stands(n)
              /\ n <= Len(envs) + 1 => chart = before
    BY DEF ChartIInv, RunIInv, Given
  <1>2. PICK n \in 0 .. Len(all) - 1 :
              /\ todo = SubSeq(all, n + 1, Len(all))
              /\ Stands(n)
              /\ n <= Len(envs) + 1 => chart = before
    BY <1>1
  <1>3. all \in Seq(Range(all)) /\ Len(all) \in Nat
    BY StepsCover DEF ChartIInv
  <1> HIDE DEF all
  <1>4. n \in Nat /\ n + 1 \in 1 .. Len(all) /\ Len(all) \in n + 1 .. Len(all)
    BY <1>3
  <1>5. Head(todo) = all[n + 1] /\ Tail(todo) = SubSeq(all, (n + 1) + 1, Len(all))
    BY <1>2, <1>3, <1>4, HeadTailOfSubSeq
  <1>6. ASSUME n + 1 < Len(all)
        PROVE  n + 1 \in 0 .. Len(all) - 1 /\ Tail(todo) # <<>>
    <2>1. (n + 1) + 1 \in Int /\ Len(all) \in Int /\ (n + 1) + 1 <= Len(all)
          /\ \A i \in (n + 1) + 1 .. Len(all) : all[i] \in Range(all)
      BY <1>3, <1>6 DEF Range
    <2>2. SubSeq(all, (n + 1) + 1, Len(all)) \in Seq(Range(all))
          /\ Len(SubSeq(all, (n + 1) + 1, Len(all))) = Len(all) - ((n + 1) + 1) + 1
      BY <2>1, SubSeqProperties
    <2>3. Len(SubSeq(all, (n + 1) + 1, Len(all))) # 0
      BY <2>2, <1>3, <1>6
    <2>4. \A t \in Seq(Range(all)) : Len(t) # 0 => t # <<>>
      OBVIOUS
    <2>5. SubSeq(all, (n + 1) + 1, Len(all)) # <<>>
      BY <2>2, <2>3, <2>4
    <2> QED BY <2>5, <1>3, <1>5, <1>6
  <1>7. AtStep(n)
    BY <1>2, <1>5, <1>6 DEF AtStep, all
  <1> QED BY <1>1, <1>4, <1>7

\* What the step of the list is that comes next.
LEMMA NextStep ==
    ASSUME ChartIInv, NEW n \in Nat, AtStep(n)
    PROVE  LET all == AllSteps(envs) IN
           /\ Len(all) \in Nat /\ Len(envs) \in Nat /\ Len(all) > Len(envs) + 1
           /\ n + 1 \in 1 .. Len(all)
           /\ Head(todo).do = "load" <=> n + 1 <= Len(envs) + 1
           /\ Head(todo).do = "clean" <=> n + 1 = Len(all)
           /\ Head(todo).do = "write" => Head(todo).file \in GeneratedFiles(envs)
  <1>1. envs \in Seq(Environments) /\ n \in 0 .. Len(AllSteps(envs)) - 1
        /\ Head(todo) = AllSteps(envs)[n + 1]
    BY DEF ChartIInv, AtStep
  <1>2. Len(AllSteps(envs)) \in Nat /\ Len(envs) \in Nat /\ Len(AllSteps(envs)) > Len(envs) + 1
    BY <1>1, StepsCover
  <1>3. n + 1 \in 1 .. Len(AllSteps(envs))
    BY <1>1, <1>2
  <1> QED BY <1>1, <1>2, <1>3, StepsCover

\* A plan that loads, or a warning, adds to what stands and changes no file.
LEMMA OneMoreStands ==
    ASSUME NEW n \in Nat, AtStep(n), UNCHANGED <<manifest, chart, envs>>,
           Head(todo).do # "write",
           Head(todo).do = "load" => Loads[manifest][Head(todo).scope]
    PROVE  Stands(n + 1)'
  <1>1. SUFFICES ASSUME NEW i \in 1 .. n + 1
        PROVE /\ AllSteps(envs)[i].do = "load" => Loads[manifest][AllSteps(envs)[i].scope]
              /\ AllSteps(envs)[i].do = "write" =>
                    /\ AllSteps(envs)[i].file \in DOMAIN chart
                    /\ chart[AllSteps(envs)[i].file] = render_tmpl(manifest, AllSteps(envs)[i].file)
    BY DEF Stands, render_tmpl
  <1>2. CASE i = n + 1
    BY <1>2 DEF AtStep
  <1>3. CASE i \in 1 .. n
    BY <1>3 DEF Stands, AtStep
  <1> QED BY <1>2, <1>3

\* None of what generate writes is on the list of what it deletes.
LEMMA NoneObsolete ==
    ASSUME NEW es \in Seq(Environments)
    PROVE  GeneratedFiles(es) \cap OBSOLETE_FILES = {}
  <1>1. Range(es) \subseteq Environments
    BY DEF Range
  <1>2. GeneratedFiles(es) \subseteq {"Chart.yaml", "values.yaml"}
            \cup {ValuesFile(env) : env \in Environments} \cup Range(StaticFiles)
    BY <1>1 DEF GeneratedFiles
  <1> QED BY <1>2, FilesAssumption

LEMMA LoadPlanIInv ==
    ASSUME ChartIInv, LoadPlan
    PROVE  ChartIInv'
  <1>1. PICK n \in Nat : outcome = "running" /\ OthersKept /\ report = None /\ AtStep(n)
    BY Underway DEF LoadPlan
  <1>2. /\ n + 1 <= Len(envs) + 1 /\ n + 1 < Len(AllSteps(envs)) /\ chart = before
        /\ n + 1 \in 0 .. Len(AllSteps(envs)) - 1 /\ Tail(todo) # <<>>
        /\ Tail(todo) = SubSeq(AllSteps(envs), (n + 1) + 1, Len(AllSteps(envs)))
    <2>1. /\ Head(todo).do = "load"
          /\ Len(AllSteps(envs)) \in Nat /\ Len(envs) \in Nat /\ Len(AllSteps(envs)) > Len(envs) + 1
          /\ Head(todo).do = "load" <=> n + 1 <= Len(envs) + 1
      BY <1>1, NextStep DEF LoadPlan
    <2>2. n + 1 <= Len(envs) + 1 /\ n + 1 < Len(AllSteps(envs)) /\ n <= Len(envs) + 1
      BY <2>1
    <2> QED BY <1>1, <2>2 DEF AtStep
  <1>3. CASE Loads[manifest][Head(todo).scope]
    <2>1. Stands(n + 1)'
      BY <1>1, <1>3, OneMoreStands DEF LoadPlan
    <2>2. todo' = Tail(todo) /\ outcome' = "running"
      BY <1>1, <1>3 DEF LoadPlan
    <2>3. RunIInv'
      BY <1>1, <1>2, <2>1, <2>2 DEF RunIInv, LoadPlan, OthersKept
    <2> QED BY <1>1, <1>2, <2>2, <2>3 DEF ChartIInv, LoadPlan, Idle, IsTable, Given
  <1>4. CASE ~Loads[manifest][Head(todo).scope]
    <2>1. todo' = <<>> /\ outcome' = "invalid" /\ chart' = before'
      BY <1>2, <1>4 DEF LoadPlan, Done
    <2>2. RunIInv'
      BY <2>1 DEF RunIInv
    <2> QED BY <1>1, <2>1, <2>2 DEF ChartIInv, LoadPlan, Idle, IsTable, Given
  <1> QED BY <1>3, <1>4

LEMMA WarnIInv ==
    ASSUME ChartIInv, Warn
    PROVE  ChartIInv'
  <1>1. PICK n \in Nat : outcome = "running" /\ OthersKept /\ report = None /\ AtStep(n)
    BY Underway DEF Warn
  <1>2. /\ n + 1 \in 0 .. Len(AllSteps(envs)) - 1 /\ Tail(todo) # <<>>
        /\ Tail(todo) = SubSeq(AllSteps(envs), (n + 1) + 1, Len(AllSteps(envs)))
        /\ n + 1 <= Len(envs) + 1 => chart = before
    <2>1. /\ Head(todo).do = "warn" /\ n \in Nat
          /\ Len(AllSteps(envs)) \in Nat /\ Len(envs) \in Nat
      BY <1>1, NextStep DEF Warn
    <2>2. n + 1 < Len(AllSteps(envs))
      BY <1>1, <2>1, NextStep DEF AtStep
    <2>3. n + 1 <= Len(envs) + 1 => n <= Len(envs) + 1
      BY <2>1
    <2> QED BY <1>1, <2>2, <2>3 DEF AtStep
  <1>3. Stands(n + 1)'
    BY <1>1, OneMoreStands DEF Warn
  <1>4. todo' = Tail(todo) /\ outcome' = "running"
    BY <1>1 DEF Warn
  <1>5. RunIInv'
    BY <1>1, <1>2, <1>3, <1>4 DEF RunIInv, Warn, OthersKept
  <1> QED BY <1>1, <1>2, <1>4, <1>5 DEF ChartIInv, Warn, Idle, IsTable, Given

LEMMA WriteFileIInv ==
    ASSUME ChartIInv, WriteFile
    PROVE  ChartIInv'
  <1> DEFINE file == Head(todo).file
             made == render_tmpl(manifest, file)
  <1>1. PICK n \in Nat : outcome = "running" /\ OthersKept /\ report = None /\ AtStep(n)
    BY Underway DEF WriteFile
  <1>2. /\ n + 1 \in 0 .. Len(AllSteps(envs)) - 1 /\ Tail(todo) # <<>>
        /\ Tail(todo) = SubSeq(AllSteps(envs), (n + 1) + 1, Len(AllSteps(envs)))
        /\ ~(n + 1 <= Len(envs) + 1) /\ file \in GeneratedFiles(envs)
        /\ Head(todo) = AllSteps(envs)[n + 1] /\ Stands(n)
    <2>1. /\ Head(todo).do = "write" /\ n + 1 \in 1 .. Len(AllSteps(envs))
          /\ Len(AllSteps(envs)) \in Nat /\ Len(envs) \in Nat
          /\ Head(todo).do = "load" <=> n + 1 <= Len(envs) + 1
          /\ Head(todo).do = "clean" <=> n + 1 = Len(AllSteps(envs))
          /\ Head(todo).do = "write" => file \in GeneratedFiles(envs)
      BY <1>1, NextStep DEF WriteFile
    <2>2. n + 1 < Len(AllSteps(envs)) /\ ~(n + 1 <= Len(envs) + 1) /\ file \in GeneratedFiles(envs)
      BY <2>1
    <2> QED BY <1>1, <2>2 DEF AtStep
  <1>3. /\ DOMAIN chart' = DOMAIN chart \cup {file} /\ chart'[file] = made
        /\ \A f \in DOMAIN chart \ {file} : chart'[f] = chart[f]
        /\ IsTable(chart')
    BY DEF WriteFile, Laid, IsTable
  <1>4. Stands(n + 1)'
    <2>1. SUFFICES ASSUME NEW i \in 1 .. n + 1
          PROVE /\ AllSteps(envs)[i].do = "load" => Loads[manifest][AllSteps(envs)[i].scope]
                /\ AllSteps(envs)[i].do = "write" =>
                      /\ AllSteps(envs)[i].file \in DOMAIN chart'
                      /\ chart'[AllSteps(envs)[i].file]
                             = render_tmpl(manifest, AllSteps(envs)[i].file)
      BY DEF Stands, WriteFile, render_tmpl
    <2>2. CASE i = n + 1
      BY <2>2, <1>2, <1>3 DEF WriteFile
    <2>3. CASE i \in 1 .. n
      <3>1. /\ AllSteps(envs)[i].do = "load" => Loads[manifest][AllSteps(envs)[i].scope]
            /\ AllSteps(envs)[i].do = "write" =>
                  /\ AllSteps(envs)[i].file \in DOMAIN chart
                  /\ chart[AllSteps(envs)[i].file] = render_tmpl(manifest, AllSteps(envs)[i].file)
        BY <2>3, <1>2 DEF Stands
      <3>2. CASE AllSteps(envs)[i].file = file
        BY <3>1, <3>2, <1>3
      <3>3. CASE AllSteps(envs)[i].file # file
        BY <3>1, <3>3, <1>3
      <3> QED BY <3>2, <3>3
    <2> QED BY <2>2, <2>3
  <1>5. todo' = Tail(todo) /\ outcome' = "running"
    BY <1>1 DEF WriteFile
  <1>6. OthersKept'
    BY <1>1, <1>2, <1>3 DEF OthersKept, WriteFile
  <1>7. RunIInv'
    BY <1>2, <1>4, <1>5, <1>6 DEF RunIInv, WriteFile
  <1> QED BY <1>1, <1>2, <1>3, <1>5, <1>7 DEF ChartIInv, WriteFile, Idle, IsTable, Given

LEMMA RemoveObsoleteIInv ==
    ASSUME ChartIInv, remove_obsolete
    PROVE  ChartIInv'
  <1>1. PICK n \in Nat : outcome = "running" /\ OthersKept /\ report = None /\ AtStep(n)
    BY Underway DEF remove_obsolete
  <1>2. /\ Len(AllSteps(envs)) \in Nat /\ n + 1 = Len(AllSteps(envs))
        /\ n \in 0 .. Len(AllSteps(envs)) - 1 /\ Stands(n)
        /\ todo = SubSeq(AllSteps(envs), n + 1, Len(AllSteps(envs)))
        /\ envs \in Seq(Environments)
    BY <1>1, NextStep DEF remove_obsolete, AtStep, ChartIInv
  <1>3. \A i \in 1 .. n : AllSteps(envs)[i].do = "write" =>
            AllSteps(envs)[i].file \in GeneratedFiles(envs)
    <2>1. \A i \in 1 .. n : i \in 1 .. Len(AllSteps(envs))
      BY <1>2
    <2> QED BY <2>1, <1>2, StepsCover
  <1>4. ASSUME NEW f \in obsolete_present(chart),
               chart' = Without(chart, {f}), UNCHANGED <<todo, outcome>>
        PROVE  ChartIInv'
    <2>1. /\ DOMAIN chart' = DOMAIN chart \ {f} /\ \A g \in DOMAIN chart' : chart'[g] = chart[g]
          /\ IsTable(chart') /\ f \in OBSOLETE_FILES
      BY <1>4 DEF Without, IsTable, obsolete_present
    <2>2. Stands(n)'
      <3>1. SUFFICES ASSUME NEW i \in 1 .. n
            PROVE /\ AllSteps(envs)[i].do = "load" => Loads[manifest][AllSteps(envs)[i].scope]
                  /\ AllSteps(envs)[i].do = "write" =>
                        /\ AllSteps(envs)[i].file \in DOMAIN chart'
                        /\ chart'[AllSteps(envs)[i].file]
                               = render_tmpl(manifest, AllSteps(envs)[i].file)
        BY DEF Stands, remove_obsolete, render_tmpl
      <3>2. AllSteps(envs)[i].do = "write" => AllSteps(envs)[i].file # f
        BY <1>2, <1>3, <2>1, NoneObsolete
      <3>3. /\ AllSteps(envs)[i].do = "load" => Loads[manifest][AllSteps(envs)[i].scope]
            /\ AllSteps(envs)[i].do = "write" =>
                  /\ AllSteps(envs)[i].file \in DOMAIN chart
                  /\ chart[AllSteps(envs)[i].file] = render_tmpl(manifest, AllSteps(envs)[i].file)
        BY <1>2 DEF Stands
      <3> QED BY <3>2, <3>3, <2>1
    <2>3. OthersKept'
      BY <1>1, <2>1 DEF OthersKept, remove_obsolete
    <2>4. ~(n <= Len(envs) + 1)
      <3>1. AllSteps(envs)[n + 1].do = "clean" /\ n + 1 \in 1 .. Len(AllSteps(envs))
        BY <1>1, <1>2 DEF remove_obsolete, AtStep
      <3> QED BY <3>1, <1>2, StepsLayout
    <2>5. RunIInv'
      BY <1>1, <1>2, <1>4, <2>2, <2>3, <2>4 DEF RunIInv, remove_obsolete
    <2> QED BY <1>1, <1>4, <2>1, <2>5 DEF ChartIInv, remove_obsolete, Idle, IsTable, Given
  <1>5. ASSUME obsolete_present(chart) = {}, Done("done"), UNCHANGED chart
        PROVE  ChartIInv'
    <2>1. Stands(Len(AllSteps(envs)))
      <3>1. SUFFICES ASSUME NEW i \in 1 .. Len(AllSteps(envs)), i # n + 1
            PROVE /\ AllSteps(envs)[i].do = "load" => Loads[manifest][AllSteps(envs)[i].scope]
                  /\ AllSteps(envs)[i].do = "write" =>
                        /\ AllSteps(envs)[i].file \in DOMAIN chart
                        /\ chart[AllSteps(envs)[i].file]
                               = render_tmpl(manifest, AllSteps(envs)[i].file)
        BY <1>1 DEF Stands, remove_obsolete, AtStep
      <3>2. n \in Nat /\ Len(AllSteps(envs)) = n + 1
        BY <1>2
      <3>3. i \in 1 .. n
        BY <3>1, <3>2
      <3> QED BY <3>3, <1>2 DEF Stands
    <2>2. /\ Stands(Len(AllSteps(envs)))' /\ OthersKept' /\ (obsolete_present(chart) = {})'
          /\ outcome' = "done" /\ todo' = <<>>
      BY <1>1, <1>5, <2>1 DEF Stands, OthersKept, Done, remove_obsolete
    <2>3. RunIInv'
      BY <2>2 DEF RunIInv
    <2> QED BY <1>1, <2>2, <2>3, <1>5 DEF ChartIInv, remove_obsolete, Idle, IsTable, Given
  <1> QED BY <1>4, <1>5 DEF remove_obsolete

THEOREM ChartHolds == ChartSpec => []ChartIInv
  <1>1. ASSUME ChartIInv, [ChartNext]_chartVars
        PROVE  ChartIInv'
    <2>1. ASSUME NEW es \in Requests, Start(es) PROVE ChartIInv'
      BY <1>1, <2>1, StartIInv
    <2>2. ASSUME NEW es \in Requests, Check(es) PROVE ChartIInv'
      <3>1. /\ es \in Seq(Environments) /\ outcome' \notin {"running", "done", "invalid", "killed"}
            /\ Idle /\ Idle' /\ report' = collect_drift(manifest, chart, es)
        BY <2>2, RequestsAssumption DEF Check, Idle
      <3>2. RunIInv'
        BY <3>1 DEF RunIInv
      <3> QED BY <1>1, <2>2, <3>1, <3>2 DEF ChartIInv, Check, IsTable, collect_drift, render_tmpl
    <2>3. CASE LoadPlan
      BY <1>1, <2>3, LoadPlanIInv
    <2>4. CASE Warn
      BY <1>1, <2>4, WarnIInv
    <2>5. CASE WriteFile
      BY <1>1, <2>5, WriteFileIInv
    <2>6. CASE remove_obsolete
      BY <1>1, <2>6, RemoveObsoleteIInv
    <2>7. CASE Killed
      <3>1. outcome' = "killed" /\ todo' = <<>> /\ report' = None
        BY <1>1, <2>7, Underway DEF Killed, Done
      <3>2. RunIInv'
        BY <3>1 DEF RunIInv
      <3> QED BY <1>1, <2>7, <3>1, <3>2 DEF ChartIInv, Killed, Idle, IsTable, Given
    <2>8. ASSUME NEW m \in Drafts, Edit(m) PROVE ChartIInv'
      <3>1. manifest' \in DOMAIN Manifests /\ report' = None /\ Idle'
            /\ outcome' \notin {"running", "done", "invalid", "killed"}
        BY <2>8, RequestsAssumption DEF Edit, Idle
      <3>2. RunIInv'
        BY <3>1 DEF RunIInv
      <3> QED BY <1>1, <2>8, <3>1, <3>2 DEF ChartIInv, Edit, IsTable, Given
    <2>9. CASE EditByHand("values.yaml")
      <3>1. /\ report' = None /\ Idle' /\ outcome' \notin {"running", "done", "invalid", "killed"}
            /\ IsTable(chart')
        BY <1>1, <2>9, RequestsAssumption DEF EditByHand, Idle, IsTable, ChartIInv
      <3>2. RunIInv'
        BY <3>1 DEF RunIInv
      <3> QED BY <1>1, <2>9, <3>1, <3>2 DEF ChartIInv, EditByHand, IsTable, Given
    <2>10. CASE UNCHANGED chartVars
      <3>1. OthersKept' = OthersKept /\ obsolete_present(chart)' = obsolete_present(chart)
            /\ collect_drift(manifest, chart, envs)' = collect_drift(manifest, chart, envs)
        BY <2>10 DEF chartVars, OthersKept, obsolete_present, collect_drift, render_tmpl
      <3>2. \A n : Stands(n) => Stands(n)'
        BY <2>10 DEF chartVars, Stands, render_tmpl
      <3>3. RunIInv'
        BY <1>1, <2>10, <3>1, <3>2 DEF chartVars, ChartIInv, RunIInv
      <3> QED BY <1>1, <2>10, <3>1, <3>3 DEF chartVars, ChartIInv, Idle, IsTable, Given
    <2> QED BY <1>1, <2>1, <2>2, <2>3, <2>4, <2>5, <2>6, <2>7, <2>8, <2>9, <2>10 DEF ChartNext
  <1> QED BY <1>1, ChartInitIInv, PTL DEF ChartSpec

\* Whatever the manifests and whichever plan of them does not load.
THEOREM InvalidIsHarmless == ChartSpec => []InvalidLeavesChart
  <1>1. ChartIInv => InvalidLeavesChart
    BY DEF ChartIInv, RunIInv, InvalidLeavesChart
  <1> QED BY <1>1, ChartHolds, PTL

\* check and generate agree on what there is to do, in whatever state the
\* directory is.
THEOREM CheckAgrees == ChartSpec => []CheckTellsTruth
  <1>1. ASSUME ChartIInv, Given(report)
        PROVE  report = {} <=> Regenerated = chart
    <2> DEFINE G == GeneratedFiles(envs)
    <2>1. /\ report = {f \in G : f \notin DOMAIN chart \/ chart[f] # render_tmpl(manifest, f)}
                         \cup {f \in OBSOLETE_FILES : f \in DOMAIN chart}
          /\ IsTable(chart)
      BY <1>1 DEF ChartIInv, collect_drift, obsolete_present
    <2>2. G \cap OBSOLETE_FILES = {}
      BY <1>1, NoneObsolete DEF ChartIInv
    <2>3. /\ DOMAIN Regenerated = G \cup (DOMAIN chart \ OBSOLETE_FILES)
          /\ \A f \in G : Regenerated[f] = render_tmpl(manifest, f)
          /\ \A f \in (DOMAIN chart \ OBSOLETE_FILES) \ G : Regenerated[f] = chart[f]
          /\ IsTable(Regenerated)
      BY DEF Regenerated, Laid, Without, IsTable
    <2> HIDE DEF G
    <2>4. ASSUME report = {} PROVE Regenerated = chart
      <3>1. DOMAIN Regenerated = DOMAIN chart
        BY <2>1, <2>3, <2>4
      <3>2. \A f \in DOMAIN chart : Regenerated[f] = chart[f]
        BY <2>1, <2>3, <2>4
      <3> QED BY <3>1, <3>2, <2>1, <2>3 DEF IsTable
    <2>5. ASSUME Regenerated = chart PROVE report = {}
      BY <2>1, <2>2, <2>3, <2>5
    <2> QED BY <2>4, <2>5
  <1>2. ChartIInv => CheckTellsTruth
    BY <1>1 DEF CheckTellsTruth
  <1> QED BY <1>2, ChartHolds, PTL

---------------------------------------------------------------------------
(* What Helm makes of the files.                                           *)

\* What is laid under a table matters only where the table has nothing.
LEMMA LaidUnder ==
    ASSUME NEW over, NEW under, NEW base, DOMAIN under \subseteq DOMAIN over
    PROVE  Laid(over, Laid(under, base)) = Laid(over, base)
  BY DEF Laid

LEMMA LaidWithNothing ==
    ASSUME NEW table, IsTable(table)
    PROVE  Laid(table, NoEntries) = table /\ Laid(NoEntries, table) = table
  BY DEF Laid, NoEntries, IsTable

\* The keys of an environment's file: those to which values.yaml gives a
\* neutral value.
EnvMaps == {"strategy", "env", "nodeSelector", "podDisruptionBudget"}

LEMMA EnvFileKeys ==
    ASSUME NEW p, NEW q
    PROVE  /\ DOMAIN Neutral(q).leaf = DOMAIN build_context(p).leaf
           /\ DOMAIN Neutral(q).map = EnvMaps /\ DOMAIN build_context(p).map = EnvMaps
           /\ \A key \in EnvMaps : Neutral(q).map[key] = NoEntries
           /\ DOMAIN ServiceValues(q).map = {"requests", "limits"}
           /\ \A key \in {"requests", "limits"} : IsTable(ServiceValues(q).map[key])
  <1>1. DOMAIN Neutral(q).leaf = DOMAIN build_context(p).leaf
    BY DEF Neutral, build_context, pod_block, Laid
  <1>2. DOMAIN Neutral(q).map = EnvMaps /\ \A key \in EnvMaps : Neutral(q).map[key] = NoEntries
    BY DEF Neutral, EnvMaps
  <1>3. DOMAIN build_context(p).map = EnvMaps
    BY DEF build_context, pod_block, Laid, EnvMaps
  <1>4. DOMAIN ServiceValues(q).map = {"requests", "limits"}
        /\ \A key \in {"requests", "limits"} : IsTable(ServiceValues(q).map[key])
    <2>1. \A table : IsTable(Present(table))
      BY DEF Present, IsTable
    <2>2. /\ DOMAIN ServiceValues(q).map = {"requests", "limits"}
          /\ ServiceValues(q).map.requests = Present(q.workload.resources.requests)
          /\ ServiceValues(q).map.limits = Present(q.workload.resources.limits)
      BY DEF ServiceValues
    <2> QED BY <2>1, <2>2
  <1> QED BY <1>1, <1>2, <1>3, <1>4

\* values.yaml of one plan and the file of an environment's make the values
\* of the environment's plan, where the two agree on the service.
LEMMA MergeMakesPlan ==
    ASSUME NEW p, NEW q, ServiceValues(q) = ServiceValues(p),
           \A key \in EnvMaps : IsTable(build_context(p).map[key])
    PROVE  DeepMerge(base_context(q), build_context(p)) = PlanValues(p)
  <1> DEFINE over == build_context(p)
             service == ServiceValues(p)
             neutral == Neutral(q)
  <1>1. base_context(q) = [leaf |-> Laid(neutral.leaf, service.leaf),
                           map  |-> Laid(neutral.map, service.map)]
    BY DEF base_context
  <1>2. /\ DOMAIN neutral.leaf = DOMAIN over.leaf
        /\ DOMAIN neutral.map = EnvMaps /\ DOMAIN over.map = EnvMaps
        /\ \A key \in EnvMaps : neutral.map[key] = NoEntries
        /\ DOMAIN service.map = {"requests", "limits"}
        /\ \A key \in {"requests", "limits"} : IsTable(service.map[key])
    BY EnvFileKeys
  <1>tables. \A key \in EnvMaps : IsTable(over.map[key])
    OBVIOUS
  <1> HIDE DEF over, service, neutral
  <1>3. Laid(over.leaf, Laid(neutral.leaf, service.leaf)) = Laid(over.leaf, service.leaf)
    BY <1>2, LaidUnder
  <1> DEFINE base == Laid(neutral.map, service.map)
             merged == [key \in DOMAIN base \cup DOMAIN over.map |->
                           Laid(Entry(over.map, key), Entry(base, key))]
  <1>4. merged = Laid(over.map, service.map)
    <2>1. DOMAIN base = EnvMaps \cup {"requests", "limits"}
      BY <1>2 DEF Laid
    <2>2. \A key \in EnvMaps : base[key] = NoEntries
      BY <1>2 DEF Laid
    <2>3. \A key \in {"requests", "limits"} : key \notin EnvMaps /\ base[key] = service.map[key]
      BY <1>2 DEF Laid, EnvMaps
    <2> HIDE DEF base
    <2>4. ASSUME NEW key \in EnvMaps
          PROVE  merged[key] = Laid(over.map, service.map)[key]
      <3>1. merged[key] = Laid(over.map[key], NoEntries)
        BY <1>2, <2>1, <2>2 DEF Entry
      <3>2. Laid(over.map[key], NoEntries) = over.map[key]
        BY <1>tables, LaidWithNothing
      <3>3. Laid(over.map, service.map)[key] = over.map[key]
        BY <1>2 DEF Laid
      <3> QED BY <3>1, <3>2, <3>3
    <2>5. ASSUME NEW key \in {"requests", "limits"}
          PROVE  merged[key] = Laid(over.map, service.map)[key]
      <3>1. merged[key] = Laid(NoEntries, service.map[key])
        BY <1>2, <2>1, <2>3 DEF Entry
      <3>2. Laid(NoEntries, service.map[key]) = service.map[key]
        BY <1>2, LaidWithNothing
      <3>3. Laid(over.map, service.map)[key] = service.map[key]
        BY <1>2, <2>3 DEF Laid
      <3> QED BY <3>1, <3>2, <3>3
    <2>6. /\ DOMAIN merged = EnvMaps \cup {"requests", "limits"}
          /\ DOMAIN Laid(over.map, service.map) = EnvMaps \cup {"requests", "limits"}
      BY <1>2, <2>1 DEF Laid
    <2>7. \A key \in EnvMaps \cup {"requests", "limits"} :
              merged[key] = Laid(over.map, service.map)[key]
      BY <2>4, <2>5
    <2>8. merged = [key \in DOMAIN merged |-> merged[key]]
          /\ Laid(over.map, service.map)
                = [key \in DOMAIN Laid(over.map, service.map) |-> Laid(over.map, service.map)[key]]
      BY DEF Laid
    <2> HIDE DEF merged
    <2> QED BY <2>6, <2>7, <2>8
  <1>5. DeepMerge(base_context(q), over) = [leaf |-> Laid(over.leaf, service.leaf), map |-> merged]
    BY <1>1, <1>3 DEF DeepMerge
  <1> QED BY <1>4, <1>5 DEF PlanValues, over, service

---------------------------------------------------------------------------
(* What a plan says of the service whatever the environment.               *)

ServiceOf(m, p) ==
    /\ p.kind = Kind(m) /\ p.port = Port(m) /\ p.http_port = HttpPort(m)
    /\ p.health = Health(m) /\ p.is_rust = (Language(m) = "rust")
    /\ p.image_registry = Or(m.image.prefix, m.image.registry)
    /\ p.security = m.security
    /\ p.pod.service_account = resolve_service_account(m.service_account)
    /\ p.workload.kind = parse_kind(m.deploy.base.kind)
    /\ p.workload.pod_management_policy = m.deploy.base.pod_management_policy
    /\ p.workload.command = Or(m.service.command, IF Language(m) = "rust"
                                                  THEN "/usr/local/bin/<service>" ELSE "")
    /\ p.workload.args = Or(m.service.args, "")
    /\ p.workload.probes = resolve_probes(m.service.health, Health(m))
    /\ p.workload.volumes = resolve_volumes(m.volumes)
    /\ p.workload.ports = resolve_ports(m.ports)
    /\ p.workload.resources = resolve_resources(m.resources)

LEMMA ServicePart ==
    ASSUME NEW m, NEW scope
    PROVE  ServiceOf(m, PlanFor(m, scope))
  BY DEF ServiceOf, PlanFor, WorkloadContext, resolve_workload, PodSettings

\* Maps of the environment's file are tables.
LEMMA PlanTables ==
    ASSUME NEW m, RawConfig(m), NEW scope
    PROVE  \A key \in EnvMaps : IsTable(build_context(PlanFor(m, scope)).map[key])
  <1> DEFINE p == PlanFor(m, scope)
  <1>1. /\ build_context(p).map["nodeSelector"] = p.pod.placement.node_selector
        /\ build_context(p).map["podDisruptionBudget"]
              = IF p.pod.pdb = None THEN NoEntries ELSE Present(p.pod.pdb)
        /\ build_context(p).map["strategy"] = strategy_block(p.workload)
        /\ build_context(p).map["env"] = p.env_vars
    BY DEF build_context, pod_block, Laid
  <1>2. IsTable(NoEntries) /\ \A table : IsTable(Present(table))
    BY DEF Present, IsTable, NoEntries
  <1>3. IsTable(p.env_vars)
    <2>1. p.env_vars = EnvVars(m, scope)
      BY DEF PlanFor
    <2>2. IsTable(resolve_env_vars(m.env, scope))
      BY DEF resolve_env_vars, IsTable
    <2> QED BY <2>1, <2>2, <1>2 DEF EnvVars
  <1>4. IsTable(p.pod.placement.node_selector)
    <2>1. p.pod.placement = resolve_placement(IF scope = None THEN None ELSE m.placement,
                                              EnvName(scope))
      BY DEF PlanFor, PodSettings
    <2>2. ASSUME m.placement # None, NEW env
          PROVE  IsTable(resolve_placement(m.placement, env).node_selector)
      <3> DEFINE raw == m.placement
      <3>1. RawPlacement(raw)
        BY <2>2 DEF RawConfig, Given
      <3>2. raw.base.node_selector = None \/ IsTable(raw.base.node_selector)
        BY <3>1 DEF RawPlacement, TextTable, IsTable
      <3>3. \A e \in DOMAIN raw.envs :
                raw.envs[e].node_selector = None \/ IsTable(raw.envs[e].node_selector)
        BY <3>1 DEF RawPlacement, TextTable, IsTable, Range
      <3> HIDE DEF raw
      <3>4. IsTable(apply_placement(raw.base, DefaultPlacement).node_selector)
        BY <3>2, <1>2 DEF apply_placement, DefaultPlacement, Or
      <3>5. \A e \in DOMAIN raw.envs : IsTable(apply_placement(raw.envs[e],
                                           apply_placement(raw.base, DefaultPlacement)).node_selector)
        BY <3>3, <3>4 DEF apply_placement, Or
      <3> QED BY <2>2, <3>4, <3>5 DEF resolve_placement, raw
    <2>3. IsTable(resolve_placement(None, EnvName(scope)).node_selector)
      BY <1>2 DEF resolve_placement, DefaultPlacement
    <2> QED BY <2>1, <2>2, <2>3
  <1> QED BY <1>1, <1>2, <1>3, <1>4 DEF EnvMaps, strategy_block

LEMMA ServiceIsScopeless ==
    ASSUME NEW id \in DOMAIN Manifests, NEW scope \in Scopes
    PROVE  ServiceValues(PlanFor(Manifests[id], None)) = ServiceValues(PlanFor(Manifests[id], scope))
  <1> DEFINE m == Manifests[id]
             p == PlanFor(m, scope)
             q == PlanFor(m, None)
  <1>1. ServiceOf(m, p) /\ ServiceOf(m, q)
    BY ServicePart
  <1>2. (IF q.migrations = None THEN "" ELSE q.migrations.command)
           = (IF p.migrations = None THEN "" ELSE p.migrations.command)
    <2>1. /\ q.migrations = IF m.migrations = None THEN None
                            ELSE resolve_migrations(m.migrations, EnvName(None))
          /\ p.migrations = IF m.migrations = None THEN None
                            ELSE resolve_migrations(m.migrations, EnvName(scope))
      BY DEF PlanFor
    <2>2. EnvName(None) \in Environments \cup {""} /\ EnvName(scope) \in Environments \cup {""}
      BY DEF EnvName, Or, Scopes
    <2>3. m.migrations # None => /\ resolve_migrations(m.migrations, EnvName(None)) # None
                                 /\ resolve_migrations(m.migrations, EnvName(scope)) # None
      BY <2>2, NoneAssumption DEF Given
    <2>4. m.migrations # None => resolve_migrations(m.migrations, EnvName(None)).command
                                    = resolve_migrations(m.migrations, EnvName(scope)).command
      BY DEF resolve_migrations
    <2> HIDE DEF m, p, q
    <2> QED BY <2>1, <2>3, <2>4
  <1> HIDE DEF p, q, m
  <1>3. workload_context(q.workload) = workload_context(p.workload)
    BY <1>1 DEF ServiceOf, workload_context, extra_services
  <1>4. ServiceValues(q) = ServiceValues(p)
    BY <1>1, <1>2, <1>3 DEF ServiceOf, ServiceValues
  <1> QED BY <1>4 DEF p, q, m

\* values.yaml and values-<env>.yaml, as generate has just written them.
LEMMA FilesMakePlan ==
    ASSUME NEW id \in DOMAIN Manifests, NEW env \in Environments, Loads[id][None], Loads[id][env]
    PROVE  DeepMerge(base_context(PlanOf[id][None]), build_context(PlanOf[id][env]))
               = PlanValues(PlanOf[id][env])
  <1>1. PlanOf[id][None] = PlanFor(Manifests[id], None) /\ PlanOf[id][env] = PlanFor(Manifests[id], env)
    BY DEF PlanOf, Scopes
  <1>2. env \in Scopes
    BY DEF Scopes
  <1>3. \A key \in EnvMaps : IsTable(build_context(PlanFor(Manifests[id], env)).map[key])
    BY ManifestsAssumption, PlanTables
  <1>4. ServiceValues(PlanFor(Manifests[id], None)) = ServiceValues(PlanFor(Manifests[id], env))
    BY <1>2, ServiceIsScopeless
  <1> QED BY <1>1, <1>3, <1>4, MergeMakesPlan

LEMMA WhatIsRendered ==
    ASSUME NEW id, NEW env \in Environments
    PROVE  /\ render_tmpl(id, "values.yaml") = base_context(PlanOf[id][None])
           /\ render_tmpl(id, ValuesFile(env)) = build_context(PlanOf[id][env])
  <1>1. "values.yaml" \notin Range(StaticFiles) /\ ValuesFile(env) \notin Range(StaticFiles)
        /\ ValuesFile(env) # "Chart.yaml" /\ ValuesFile(env) # "values.yaml"
    BY FilesAssumption
  <1>2. (CHOOSE e \in Environments : ValuesFile(e) = ValuesFile(env)) = env
    BY FilesAssumption
  <1>3. render_tmpl(id, "values.yaml") = base_context(PlanOf[id][None])
    BY <1>1 DEF render_tmpl
  <1>4. render_tmpl(id, ValuesFile(env)) = build_context(PlanOf[id][env])
    BY <1>1, <1>2 DEF render_tmpl
  <1> QED BY <1>3, <1>4

\* A run that has ended has loaded every plan and left every file as it is
\* rendered from it.
LEMMA AllStands ==
    ASSUME ChartIInv, outcome = "done"
    PROVE  /\ \A scope \in {None} \cup Range(envs) : Loads[manifest][scope]
           /\ \A f \in GeneratedFiles(envs) :
                 f \in DOMAIN chart /\ chart[f] = render_tmpl(manifest, f)
  <1>1. envs \in Seq(Environments) /\ Stands(Len(AllSteps(envs)))
    BY DEF ChartIInv, RunIInv
  <1>2. /\ \A scope \in {None} \cup Range(envs) :
              \E i \in 1 .. Len(AllSteps(envs)) : AllSteps(envs)[i] = Load(scope)
        /\ \A f \in GeneratedFiles(envs) :
              \E i \in 1 .. Len(AllSteps(envs)) : AllSteps(envs)[i] = Write(f)
    BY <1>1, StepsCover
  <1>3. \A i \in 1 .. Len(AllSteps(envs)) :
           /\ AllSteps(envs)[i].do = "load" => Loads[manifest][AllSteps(envs)[i].scope]
           /\ AllSteps(envs)[i].do = "write" =>
                 /\ AllSteps(envs)[i].file \in DOMAIN chart
                 /\ chart[AllSteps(envs)[i].file] = render_tmpl(manifest, AllSteps(envs)[i].file)
    BY <1>1 DEF Stands
  <1>4. \A scope : Load(scope).do = "load" /\ Load(scope).scope = scope
    BY DEF Load
  <1>5. \A f : Write(f).do = "write" /\ Write(f).file = f
    BY DEF Write
  <1> QED BY <1>2, <1>3, <1>4, <1>5

THEOREM ChartIsThePlan == ChartSpec => []ChartSaysPlan
  <1>1. ASSUME ChartIInv, outcome = "done", NEW env \in Range(envs)
        PROVE  DeepMerge(chart["values.yaml"], chart[ValuesFile(env)])
                  = PlanValues(PlanOf[manifest][env])
    <2>1. env \in Environments /\ manifest \in DOMAIN Manifests
      BY <1>1 DEF ChartIInv, Range
    <2>2. "values.yaml" \in GeneratedFiles(envs) /\ ValuesFile(env) \in GeneratedFiles(envs)
      BY DEF GeneratedFiles
    <2>3. /\ chart["values.yaml"] = base_context(PlanOf[manifest][None])
          /\ chart[ValuesFile(env)] = build_context(PlanOf[manifest][env])
      BY <1>1, <2>1, <2>2, AllStands, WhatIsRendered
    <2>4. Loads[manifest][None] /\ Loads[manifest][env]
      BY <1>1, AllStands
    <2> QED BY <2>1, <2>3, <2>4, FilesMakePlan
  <1>2. ASSUME ChartIInv, outcome = "done"
        PROVE  Without(chart, GeneratedFiles(envs))
                  = Without(before, GeneratedFiles(envs) \cup OBSOLETE_FILES)
    <2>1. OthersKept /\ \A f \in OBSOLETE_FILES : f \notin DOMAIN chart
      BY <1>2 DEF ChartIInv, RunIInv, obsolete_present
    <2>2. DOMAIN chart \ GeneratedFiles(envs)
             = DOMAIN before \ (GeneratedFiles(envs) \cup OBSOLETE_FILES)
      BY <2>1 DEF OthersKept
    <2>3. \A f \in DOMAIN chart \ GeneratedFiles(envs) : chart[f] = before[f]
      BY <2>1 DEF OthersKept
    <2> QED BY <2>2, <2>3 DEF Without
  <1>3. ChartIInv => ChartSaysPlan
    BY <1>1, <1>2 DEF ChartSaysPlan
  <1> QED BY <1>3, ChartHolds, PTL

---------------------------------------------------------------------------
(* What a section comes to does not depend on the overlays of the other    *)
(* environments, section by section.                                       *)

\* h is the section s with no overlay but that of env.
OneOverlay(h, s, env) ==
    /\ h.base = s.base
    /\ DOMAIN h.envs \subseteq DOMAIN s.envs
    /\ env \in DOMAIN s.envs => env \in DOMAIN h.envs
    /\ \A e \in DOMAIN h.envs : h.envs[e] = s.envs[e]

LEMMA OverlayAtHome ==
    ASSUME NEW h, NEW s, NEW env, OneOverlay(h, s, env)
    PROVE  /\ env \in DOMAIN h.envs <=> env \in DOMAIN s.envs
           /\ Overlay(h, env) = Overlay(s, env) /\ h.base = s.base
           /\ LaidOver(h, env) = LaidOver(s, env)
  BY DEF OneOverlay, Overlay, LaidOver

LEMMA DeployAtHome ==
    ASSUME NEW h, NEW s, NEW env, OneOverlay(h, s, env)
    PROVE  /\ PullSecretsValid(s) => PullSecretsValid(h)
           /\ resolve_pull_secrets(h, Overlay(h, env)) = resolve_pull_secrets(s, Overlay(s, env))
  BY OverlayAtHome DEF OneOverlay, PullSecretsValid, resolve_pull_secrets

LEMMA AutoscaleAtHome ==
    ASSUME NEW h, NEW s, NEW env, h = None <=> s = None, s # None => OneOverlay(h, s, env),
           NEW kind, NEW replicas
    PROVE  /\ AutoscaleValid(s, kind, replicas, env) => AutoscaleValid(h, kind, replicas, env)
           /\ resolve_autoscale(h, replicas, env) = resolve_autoscale(s, replicas, env)
  <1>1. CASE s = None
    BY <1>1
  <1>2. CASE s # None
    <2>1. AutoscaleFields(h, env) = AutoscaleFields(s, env)
      BY <1>2, OverlayAtHome DEF AutoscaleFields
    <2>2. AutoscaleEnabled(h, env) = AutoscaleEnabled(s, env)
      BY <1>2, <2>1 DEF AutoscaleEnabled
    <2>3. MinReplicas(h, replicas, env) = MinReplicas(s, replicas, env)
      BY <2>1 DEF MinReplicas
    <2>4. (\A e \in DOMAIN s.envs : s.envs[e] # NoAutoscaleFields)
             => \A e \in DOMAIN h.envs : h.envs[e] # NoAutoscaleFields
      BY <1>2 DEF OneOverlay
    <2>5. resolve_autoscale(h, replicas, env) = resolve_autoscale(s, replicas, env)
      BY <2>1, <2>2, <2>3 DEF resolve_autoscale
    <2>6. AutoscaleValid(s, kind, replicas, env) => AutoscaleValid(h, kind, replicas, env)
      BY <1>2, <2>1, <2>2, <2>3, <2>4 DEF AutoscaleValid
    <2> QED BY <2>5, <2>6
  <1> QED BY <1>1, <1>2

LEMMA EnvAtHome ==
    ASSUME NEW h, NEW s, NEW env, OneOverlay(h, s, env)
    PROVE  /\ EnvVarsValid(s) => EnvVarsValid(h)
           /\ resolve_env_vars(h, env) = resolve_env_vars(s, env)
  <1>1. resolve_env_vars(h, env) = resolve_env_vars(s, env)
    BY OverlayAtHome DEF resolve_env_vars
  <1>2. EnvVarsValid(s) => EnvVarsValid(h)
    BY DEF OneOverlay, EnvVarsValid
  <1> QED BY <1>1, <1>2

LEMMA CallersAtHome ==
    ASSUME NEW h, NEW s, NEW env, OneOverlay(h, s, env)
    PROVE  /\ CallersValid(s, env) => CallersValid(h, env)
           /\ resolve_callers(h, env) = resolve_callers(s, env)
  <1>1. resolve_callers(h, env) = resolve_callers(s, env)
    BY OverlayAtHome DEF resolve_callers
  <1>2. CallersValid(s, env) => CallersValid(h, env)
    BY DEF OneOverlay, CallersValid
  <1> QED BY <1>1, <1>2

LEMMA EgressAtHome ==
    ASSUME NEW h, NEW s, NEW env, OneOverlay(h, s, env)
    PROVE  /\ EgressValid(s) => EgressValid(h)
           /\ resolve_egress(h, env) = resolve_egress(s, env)
  BY OverlayAtHome DEF OneOverlay, EgressValid, resolve_egress

LEMMA PlacementAtHome ==
    ASSUME NEW h, NEW s, NEW env, h = None <=> s = None, s # None => OneOverlay(h, s, env)
    PROVE  /\ PlacementValid(s) => PlacementValid(h)
           /\ resolve_placement(h, env) = resolve_placement(s, env)
  BY OverlayAtHome DEF OneOverlay, PlacementValid, resolve_placement

LEMMA PdbAtHome ==
    ASSUME NEW h, NEW s, NEW env, h = None <=> s = None, s # None => OneOverlay(h, s, env),
           NEW replicas
    PROVE  /\ PdbValid(s, env, replicas) => PdbValid(h, env, replicas)
           /\ resolve_pdb(h, env) = resolve_pdb(s, env)
  <1>1. CASE s = None
    BY <1>1
  <1>2. CASE s # None
    <2>1. Pdb(h, env) = Pdb(s, env)
      BY <1>2, OverlayAtHome DEF OneOverlay, Pdb
    <2>2. PdbEnabled(h, env) = PdbEnabled(s, env)
      BY <1>2, <2>1 DEF PdbEnabled
    <2>3. resolve_pdb(h, env) = resolve_pdb(s, env)
      BY <2>1, <2>2 DEF resolve_pdb
    <2>4. PdbFieldsValid(s.base) /\ (\A e \in DOMAIN s.envs : PdbFieldsValid(s.envs[e]))
             => PdbFieldsValid(h.base) /\ (\A e \in DOMAIN h.envs : PdbFieldsValid(h.envs[e]))
      BY <1>2 DEF OneOverlay
    <2>5. PdbValid(s, env, replicas) => PdbValid(h, env, replicas)
      BY <1>2, <2>2, <2>3, <2>4 DEF PdbValid
    <2> QED BY <2>3, <2>5
  <1> QED BY <1>1, <1>2

LEMMA DatastoreAtHome ==
    ASSUME NEW h, NEW s, NEW env, OneOverlay(h, s, env)
    PROVE  /\ MergeDatastore(h, env) = MergeDatastore(s, env)
           /\ DatabaseValid(s, env) => DatabaseValid(h, env)
           /\ CacheValid(s, env) => CacheValid(h, env)
  <1>1. MergeDatastore(h, env) = MergeDatastore(s, env)
    BY OverlayAtHome DEF MergeDatastore
  <1>2. Tables(h) \subseteq Tables(s) /\ h.base = s.base
    BY DEF OneOverlay, Tables, Range
  <1>3. \A kind : DatastoreTablesValid(kind, s) => DatastoreTablesValid(kind, h)
    BY <1>2 DEF DatastoreTablesValid
  <1> QED BY <1>1, <1>3 DEF DatabaseValid, CacheValid

\* The sections that have other keys beside their overlays.
LEMMA SecretsAtHome ==
    ASSUME NEW h, NEW s, NEW env,
           Overlay(h, env) = Overlay(s, env), h.create = s.create, h.provider = s.provider,
           h.required = s.required
    PROVE  resolve_secrets(h, env) = resolve_secrets(s, env)
  BY DEF resolve_secrets

LEMMA MigrationsAtHome ==
    ASSUME NEW h, NEW s, NEW env, Overlay(h, env) = Overlay(s, env),
           Range(h.envs) \subseteq Range(s.envs),
           h.removed = s.removed, h.mode = s.mode, h.tool = s.tool, h.dir = s.dir,
           h.command = s.command
    PROVE  /\ MigrationsValid(s) => MigrationsValid(h)
           /\ resolve_migrations(h, env) = resolve_migrations(s, env)
  BY DEF MigrationsValid, resolve_migrations

LEMMA DependenciesAtHome ==
    ASSUME NEW h, NEW s, NEW env, DOMAIN h = DOMAIN s,
           \A name \in DOMAIN s :
              /\ h[name].namespace = s[name].namespace /\ h[name].envs = s[name].envs
              /\ h[name].port = s[name].port /\ h[name].ports = s[name].ports
              /\ h[name].typed = s[name].typed /\ Pattern(h[name], env) = Pattern(s[name], env)
    PROVE  /\ DependsOnValid(s, env) => DependsOnValid(h, env)
           /\ resolve_depends_on(h, env) = resolve_depends_on(s, env)
  <1>1. \A name \in DOMAIN s : /\ DependencyParses(h[name]) = DependencyParses(s[name])
                               /\ ActiveIn(h[name], env) = ActiveIn(s[name], env)
    BY DEF DependencyParses, ActiveIn
  <1>2. Rendered(h, env) = Rendered(s, env) /\ Rendered(s, env) \subseteq DOMAIN s
    BY <1>1 DEF Rendered
  <1>3. resolve_depends_on(h, env) = resolve_depends_on(s, env)
    BY <1>2 DEF resolve_depends_on
  <1>4. DependsOnValid(s, env) => DependsOnValid(h, env)
    BY <1>1 DEF DependsOnValid
  <1> QED BY <1>3, <1>4

---------------------------------------------------------------------------
(* A manifest and what is left of it without the overlays of the other     *)
(* environments.                                                           *)

LEMMA HomeKeeps ==
    ASSUME NEW s, NEW env, s # None, "envs" \in DOMAIN s
    PROVE  LET h == Home(s, env)
           IN  /\ DOMAIN h = DOMAIN s
               /\ \A key \in DOMAIN s \ {"envs"} : h[key] = s[key]
               /\ DOMAIN h.envs = DOMAIN s.envs \cap {env}
               /\ \A e \in DOMAIN h.envs : h.envs[e] = s.envs[e]
               /\ Overlay(h, env) = Overlay(s, env)
               /\ Range(h.envs) \subseteq Range(s.envs)
  <1> DEFINE h == Home(s, env)
  <1>1. /\ DOMAIN h = DOMAIN s
        /\ \A key \in DOMAIN s \ {"envs"} : h[key] = s[key]
        /\ DOMAIN h.envs = DOMAIN s.envs \cap {env}
        /\ \A e \in DOMAIN h.envs : h.envs[e] = s.envs[e]
    BY DEF Home
  <1> HIDE DEF h
  <1>2. Overlay(h, env) = Overlay(s, env)
    BY <1>1 DEF Overlay
  <1>3. Range(h.envs) \subseteq Range(s.envs)
    BY <1>1 DEF Range
  <1> QED BY <1>1, <1>2, <1>3 DEF h

LEMMA HomeIsOneOverlay ==
    ASSUME NEW s, NEW env, DOMAIN s = {"base", "envs"}
    PROVE  OneOverlay(Home(s, env), s, env)
  <1>1. CASE s = None
    BY <1>1 DEF OneOverlay, Home
  <1>2. CASE s # None
    BY <1>2, HomeKeeps DEF OneOverlay
  <1> QED BY <1>1, <1>2

\* What the keys of a typed manifest are.
LEMMA SectionKeys ==
    ASSUME NEW m, RawConfig(m)
    PROVE  /\ DOMAIN m = Sections
           /\ \A key \in {"deploy", "env", "callers", "egress"} : DOMAIN m[key] = {"base", "envs"}
           /\ \A key \in {"autoscale", "placement", "pdb"} :
                 m[key] # None => DOMAIN m[key] = {"base", "envs"}
           /\ m.secrets # None => DOMAIN m.secrets = {"create", "provider", "required", "envs"}
           /\ m.migrations # None => DOMAIN m.migrations = {"tool", "dir", "command", "mode",
                                                            "removed", "envs"}
           /\ \A key \in {"databases", "caches"} : \A i \in DOMAIN m[key] :
                 DOMAIN m[key][i] = {"variant", "raw"} /\ DOMAIN m[key][i].raw = {"base", "envs"}
           /\ \A name \in DOMAIN m.depends_on : DOMAIN m.depends_on[name]
                 = {"namespace", "overrides", "envs", "port", "ports", "typed"}
  <1>1. DOMAIN m = Sections
        /\ \A key \in {"env", "callers", "egress"} : DOMAIN m[key] = {"base", "envs"}
    BY DEF RawConfig
  <1>2. DOMAIN m.deploy = {"base", "envs"}
    <2>1. RawDeploy(m.deploy)
      BY DEF RawConfig
    <2> DEFINE rest == [key \in DOMAIN m.deploy.base \ {"kind", "pod_management_policy"}
                           |-> m.deploy.base[key]]
               trimmed == [m.deploy EXCEPT !.base = rest]
    <2>2. DOMAIN trimmed = {"base", "envs"}
      BY <2>1 DEF RawDeploy, Sectioned
    <2>3. DOMAIN trimmed = DOMAIN m.deploy
      OBVIOUS
    <2> QED BY <2>2, <2>3
  <1>3. m.autoscale # None => DOMAIN m.autoscale = {"base", "envs"}
    BY DEF RawConfig, RawAutoscale, Sectioned, Given
  <1>4. m.placement # None => DOMAIN m.placement = {"base", "envs"}
    BY DEF RawConfig, RawPlacement, Sectioned, Given
  <1>5. m.pdb # None => DOMAIN m.pdb = {"base", "envs"}
    BY DEF RawConfig, RawPdb, Sectioned, Given
  <1>6. m.secrets # None => DOMAIN m.secrets = {"create", "provider", "required", "envs"}
    BY DEF RawConfig, RawSecrets, Given
  <1>7. m.migrations # None => DOMAIN m.migrations = {"tool", "dir", "command", "mode",
                                                      "removed", "envs"}
    BY DEF RawConfig, RawMigrations, Given
  <1>8. \A key \in {"databases", "caches"} : \A i \in DOMAIN m[key] :
           DOMAIN m[key][i] = {"variant", "raw"} /\ DOMAIN m[key][i].raw = {"base", "envs"}
    <2>1. \A raw : RawDatastore(raw) => DOMAIN raw = {"base", "envs"}
      BY DEF RawDatastore, Sectioned
    <2> QED BY <2>1 DEF RawConfig
  <1>9. \A name \in DOMAIN m.depends_on : DOMAIN m.depends_on[name]
           = {"namespace", "overrides", "envs", "port", "ports", "typed"}
    BY DEF RawConfig, Shorthand
  <1> QED BY <1>1, <1>2, <1>3, <1>4, <1>5, <1>6, <1>7, <1>8, <1>9

\* a is the manifest m as far as a plan for env looks at it.
SectionsAtHome(a, m, env) ==
    /\ \A key \in {"deploy", "env", "callers", "egress"} : OneOverlay(a[key], m[key], env)
    /\ \A key \in {"autoscale", "placement", "pdb"} :
          (a[key] = None <=> m[key] = None) /\ (m[key] # None => OneOverlay(a[key], m[key], env))
    /\ a.secrets = None <=> m.secrets = None
    /\ m.secrets # None => /\ Overlay(a.secrets, env) = Overlay(m.secrets, env)
                           /\ a.secrets.create = m.secrets.create
                           /\ a.secrets.provider = m.secrets.provider
                           /\ a.secrets.required = m.secrets.required
    /\ a.migrations = None <=> m.migrations = None
    /\ m.migrations # None => /\ Overlay(a.migrations, env) = Overlay(m.migrations, env)
                              /\ Range(a.migrations.envs) \subseteq Range(m.migrations.envs)
                              /\ \A key \in {"removed", "mode", "tool", "dir", "command"} :
                                    a.migrations[key] = m.migrations[key]

StoresAtHome(a, m, env) ==
    /\ DOMAIN a = DOMAIN m
    /\ \A i \in DOMAIN m : a[i].variant = m[i].variant /\ OneOverlay(a[i].raw, m[i].raw, env)

DependenciesKept(a, m, env) ==
    /\ DOMAIN a = DOMAIN m
    /\ \A name \in DOMAIN m :
          /\ a[name].namespace = m[name].namespace /\ a[name].envs = m[name].envs
          /\ a[name].port = m[name].port /\ a[name].ports = m[name].ports
          /\ a[name].typed = m[name].typed /\ Pattern(a[name], env) = Pattern(m[name], env)

Untouched == Sections \ {"deploy", "autoscale", "env", "callers", "egress", "placement", "pdb",
                         "secrets", "migrations", "databases", "caches", "depends_on"}

LEMMA OnlyForIsHome ==
    ASSUME NEW id \in DOMAIN Manifests, NEW env \in Environments
    PROVE  LET m == Manifests[id]
               a == OnlyFor(m, env)
           IN  /\ SectionsAtHome(a, m, env)
               /\ StoresAtHome(a.databases, m.databases, env)
               /\ StoresAtHome(a.caches, m.caches, env)
               /\ DependenciesKept(a.depends_on, m.depends_on, env)
               /\ \A key \in Untouched : a[key] = m[key]
  <1> DEFINE m == Manifests[id]
             a == OnlyFor(m, env)
             trimmed == {"deploy", "autoscale", "env", "callers", "egress", "placement", "pdb",
                         "secrets", "migrations"}
             stores == {"databases", "caches"}
  <1>1. RawConfig(m)
    BY ManifestsAssumption
  <1>2. \A key \in {"autoscale", "placement", "pdb", "secrets", "migrations"} :
           m[key] # None => Home(m[key], env) # None
    BY NoneAssumption DEF Given
  <1> HIDE DEF m
  <1>3. /\ \A key \in trimmed : a[key] = Home(m[key], env)
        /\ \A key \in stores : a[key] = [i \in DOMAIN m[key] |-> [m[key][i] EXCEPT !.raw = Home(@, env)]]
        /\ a.depends_on = [name \in DOMAIN m.depends_on |-> [m.depends_on[name] EXCEPT
                              !.overrides = [e \in DOMAIN @ \cap {env} |-> @[e]]]]
        /\ \A key \in Untouched : a[key] = m[key]
    BY <1>1, SectionKeys DEF OnlyFor, Untouched, Sections
  <1> HIDE DEF a
  <1>4. SectionsAtHome(a, m, env)
    <2>1. \A key \in {"deploy", "env", "callers", "egress"} : OneOverlay(a[key], m[key], env)
      <3> SUFFICES ASSUME NEW key \in {"deploy", "env", "callers", "egress"}
                   PROVE  OneOverlay(a[key], m[key], env)
        OBVIOUS
      <3>1. a[key] = Home(m[key], env) /\ DOMAIN m[key] = {"base", "envs"}
        BY <1>1, <1>3, SectionKeys
      <3>2. OneOverlay(Home(m[key], env), m[key], env)
        BY <3>1, HomeIsOneOverlay
      <3> QED BY <3>1, <3>2
    <2>2. \A key \in {"autoscale", "placement", "pdb"} :
             (a[key] = None <=> m[key] = None) /\ (m[key] # None => OneOverlay(a[key], m[key], env))
      <3> SUFFICES ASSUME NEW key \in {"autoscale", "placement", "pdb"}
                   PROVE  /\ a[key] = None <=> m[key] = None
                          /\ m[key] # None => OneOverlay(a[key], m[key], env)
        OBVIOUS
      <3>1. a[key] = Home(m[key], env)
        BY <1>3
      <3>2. m[key] # None => OneOverlay(a[key], m[key], env)
        <4>1. m[key] # None => DOMAIN m[key] = {"base", "envs"}
          BY <1>1, SectionKeys
        <4>2. m[key] # None => OneOverlay(Home(m[key], env), m[key], env)
          BY <4>1, HomeIsOneOverlay
        <4> QED BY <3>1, <4>2
      <3>3. m[key] = None => a[key] = None
        BY <3>1 DEF Home
      <3> QED BY <1>2, <3>1, <3>2, <3>3
    <2>3. a.secrets = Home(m.secrets, env) /\ a.migrations = Home(m.migrations, env)
      BY <1>3
    <2>4. (m.secrets = None => a.secrets = None) /\ (m.migrations = None => a.migrations = None)
      BY <2>3 DEF Home
    <2>5. m.secrets # None => /\ Overlay(a.secrets, env) = Overlay(m.secrets, env)
                              /\ a.secrets.create = m.secrets.create
                              /\ a.secrets.provider = m.secrets.provider
                              /\ a.secrets.required = m.secrets.required
      BY <1>1, <2>3, SectionKeys, HomeKeeps
    <2>6. m.migrations # None =>
             /\ Overlay(a.migrations, env) = Overlay(m.migrations, env)
             /\ Range(a.migrations.envs) \subseteq Range(m.migrations.envs)
             /\ \A key \in {"removed", "mode", "tool", "dir", "command"} :
                   a.migrations[key] = m.migrations[key]
      BY <1>1, <2>3, SectionKeys, HomeKeeps
    <2> QED BY <1>2, <2>1, <2>2, <2>3, <2>4, <2>5, <2>6 DEF SectionsAtHome
  <1>5. \A key \in stores : StoresAtHome(a[key], m[key], env)
    <2> SUFFICES ASSUME NEW key \in stores PROVE StoresAtHome(a[key], m[key], env)
      OBVIOUS
    <2>1. a[key] = [i \in DOMAIN m[key] |-> [m[key][i] EXCEPT !.raw = Home(@, env)]]
      BY <1>3
    <2>2. \A i \in DOMAIN m[key] : DOMAIN m[key][i] = {"variant", "raw"}
                                     /\ DOMAIN m[key][i].raw = {"base", "envs"}
      BY <1>1, SectionKeys
    <2>3. \A i \in DOMAIN m[key] : /\ a[key][i].variant = m[key][i].variant
                                     /\ a[key][i].raw = Home(m[key][i].raw, env)
      BY <2>1, <2>2
    <2>4. \A i \in DOMAIN m[key] : OneOverlay(Home(m[key][i].raw, env), m[key][i].raw, env)
      BY <2>2, HomeIsOneOverlay
    <2>5. DOMAIN a[key] = DOMAIN m[key]
      BY <2>1
    <2>6. \A i \in DOMAIN m[key] : OneOverlay(a[key][i].raw, m[key][i].raw, env)
      <3> SUFFICES ASSUME NEW i \in DOMAIN m[key]
                   PROVE  OneOverlay(a[key][i].raw, m[key][i].raw, env)
        OBVIOUS
      <3>1. a[key][i].raw = Home(m[key][i].raw, env)
        BY <2>3
      <3> QED BY <2>4, <3>1
    <2> QED BY <2>3, <2>5, <2>6 DEF StoresAtHome
  <1>6. DependenciesKept(a.depends_on, m.depends_on, env)
    <2> DEFINE deps == m.depends_on
               kept(name) == [e \in DOMAIN deps[name].overrides \cap {env} |-> deps[name].overrides[e]]
    <2>1. DOMAIN a.depends_on = DOMAIN deps
      BY <1>3
    <2> SUFFICES ASSUME NEW name \in DOMAIN deps
                 PROVE  LET d == a.depends_on[name] IN
                        /\ d.namespace = deps[name].namespace /\ d.envs = deps[name].envs
                        /\ d.port = deps[name].port /\ d.ports = deps[name].ports
                        /\ d.typed = deps[name].typed
                        /\ Pattern(d, env) = Pattern(deps[name], env)
      BY <2>1 DEF DependenciesKept
    <2>2. a.depends_on[name] = [deps[name] EXCEPT !.overrides = kept(name)]
      BY <1>3
    <2>3. DOMAIN deps[name] = {"namespace", "overrides", "envs", "port", "ports", "typed"}
      BY <1>1, SectionKeys
    <2>4. a.depends_on[name].overrides = kept(name)
      BY <2>2, <2>3
    <2>5. a.depends_on[name].namespace = deps[name].namespace
      BY <2>2, <2>3
    <2>6. Pattern(a.depends_on[name], env) = Pattern(deps[name], env)
      BY <2>4, <2>5 DEF Pattern
    <2> QED BY <2>2, <2>3, <2>5, <2>6
  <1> QED BY <1>3, <1>4, <1>5, <1>6 DEF a, m

LEMMA StoresMerge ==
    ASSUME NEW a, NEW m, NEW env, StoresAtHome(a, m, env)
    PROVE  /\ MergedStores(a, env) = MergedStores(m, env)
           /\ (\A i \in DOMAIN m : DatabaseValid(m[i].raw, env))
                 => \A i \in DOMAIN a : DatabaseValid(a[i].raw, env)
           /\ (\A i \in DOMAIN m : CacheValid(m[i].raw, env))
                 => \A i \in DOMAIN a : CacheValid(a[i].raw, env)
  <1>1. DOMAIN a = DOMAIN m
    BY DEF StoresAtHome
  <1>2. \A i \in DOMAIN m : /\ MergeDatastore(a[i].raw, env) = MergeDatastore(m[i].raw, env)
                            /\ DatabaseValid(m[i].raw, env) => DatabaseValid(a[i].raw, env)
                            /\ CacheValid(m[i].raw, env) => CacheValid(a[i].raw, env)
    BY DatastoreAtHome DEF StoresAtHome
  <1>3. \A i \in DOMAIN m : a[i].variant = m[i].variant
    BY DEF StoresAtHome
  <1>4. MergedStores(a, env) = MergedStores(m, env)
    BY <1>1, <1>2, <1>3 DEF MergedStores
  <1> QED BY <1>1, <1>2, <1>4

\* A manifest that agrees with another as far as an environment looks.
AtHome(a, m, env) ==
    /\ SectionsAtHome(a, m, env)
    /\ StoresAtHome(a.databases, m.databases, env) /\ StoresAtHome(a.caches, m.caches, env)
    /\ DependenciesKept(a.depends_on, m.depends_on, env)
    /\ \A key \in Untouched : a[key] = m[key]

LEMMA ServiceAtHome ==
    ASSUME NEW a, NEW m, NEW env, AtHome(a, m, env)
    PROVE  /\ a.service = m.service /\ a.client = m.client
           /\ Kind(a) = Kind(m) /\ Port(a) = Port(m) /\ HttpPort(a) = HttpPort(m)
           /\ Health(a) = Health(m) /\ Language(a) = Language(m)
           /\ \A key : DeployKey(a, env, key) = DeployKey(m, env, key)
           /\ Overlay(a.deploy, env) = Overlay(m.deploy, env) /\ a.deploy.base = m.deploy.base
           /\ McpMode(a, env) = McpMode(m, env)
  <1>1. a.service = m.service /\ a.client = m.client
    BY DEF AtHome, Untouched, Sections
  <1>2. Kind(a) = Kind(m) /\ WebMode(a) = WebMode(m) /\ Language(a) = Language(m)
    BY <1>1 DEF Kind, WebMode, Language
  <1>3. Port(a) = Port(m) /\ HttpPort(a) = HttpPort(m)
    BY <1>1, <1>2 DEF Port, HttpPort
  <1>4. Health(a) = Health(m)
    BY <1>1, <1>2, <1>3 DEF Health
  <1>5. OneOverlay(a.deploy, m.deploy, env)
    BY DEF AtHome, SectionsAtHome
  <1>6. Overlay(a.deploy, env) = Overlay(m.deploy, env) /\ a.deploy.base = m.deploy.base
    BY <1>5, OverlayAtHome
  <1>7. \A key : DeployKey(a, env, key) = DeployKey(m, env, key)
    BY <1>6 DEF DeployKey
  <1>8. McpMode(a, env) = McpMode(m, env)
    BY <1>2, <1>7 DEF McpMode
  <1> QED BY <1>1, <1>2, <1>3, <1>4, <1>6, <1>7, <1>8

LEMMA TablesAtHome ==
    ASSUME NEW a, NEW m, NEW env \in Environments, AtHome(a, m, env)
    PROVE  /\ EnvName(env) = env /\ env # None
           /\ DependsOn(a, env) = DependsOn(m, env)
           /\ NeedsOutboundProxy(a, env) = NeedsOutboundProxy(m, env)
           /\ EnvVars(a, env) = EnvVars(m, env) /\ CronJobs(a, env) = CronJobs(m, env)
           /\ Datastores(a, env) = Datastores(m, env)
           /\ Declared(a, env) = Declared(m, env)
           /\ Namespace(a, env) = Namespace(m, env)
           /\ NoVariableTwice(a, env) = NoVariableTwice(m, env)
  <1>1. EnvName(env) = env /\ env # None
    BY RequestsAssumption DEF EnvName, Or
  <1>2. DependsOn(a, env) = DependsOn(m, env)
    <2>1. DependenciesKept(a.depends_on, m.depends_on, env)
      BY DEF AtHome
    <2>2. resolve_depends_on(a.depends_on, env) = resolve_depends_on(m.depends_on, env)
      BY <2>1, DependenciesAtHome DEF DependenciesKept
    <2> QED BY <2>2 DEF DependsOn
  <1>3. NeedsOutboundProxy(a, env) = NeedsOutboundProxy(m, env)
    BY <1>2, ServiceAtHome DEF NeedsOutboundProxy
  <1>4. EnvVars(a, env) = EnvVars(m, env)
    <2>1. OneOverlay(a.env, m.env, env)
      BY DEF AtHome, SectionsAtHome
    <2> QED BY <2>1, EnvAtHome DEF EnvVars
  <1>5. CronJobs(a, env) = CronJobs(m, env)
    <2>1. a.cronjobs = m.cronjobs
      BY DEF AtHome, Untouched, Sections
    <2> QED BY <2>1 DEF CronJobs
  <1>6. Datastores(a, env) = Datastores(m, env)
    <2>1. /\ MergedStores(a.databases, env) = MergedStores(m.databases, env)
          /\ MergedStores(a.caches, env) = MergedStores(m.caches, env)
      BY StoresMerge DEF AtHome
    <2>2. a.service = m.service
      BY ServiceAtHome
    <2> QED BY <2>1, <2>2 DEF Datastores
  <1>7. Declared(a, env) = Declared(m, env)
    <2>1. (IF a.secrets = None THEN <<>> ELSE a.secrets.required)
             = (IF m.secrets = None THEN <<>> ELSE m.secrets.required)
      BY DEF AtHome, SectionsAtHome
    <2> QED BY <1>6, <2>1 DEF Declared
  <1>8. Namespace(a, env) = Namespace(m, env)
    <2>1. DeployKey(a, env, "namespace") = DeployKey(m, env, "namespace")
      BY ServiceAtHome
    <2> QED BY <2>1 DEF Namespace
  <1>9. NoVariableTwice(a, env) = NoVariableTwice(m, env)
    BY <1>4, <1>5, <1>7 DEF NoVariableTwice
  <1> QED BY <1>1, <1>2, <1>3, <1>4, <1>5, <1>6, <1>7, <1>8, <1>9

LEMMA WorkloadAtHome ==
    ASSUME NEW a, NEW m, NEW env \in Environments, AtHome(a, m, env)
    PROVE  LET acx == WorkloadContext(a, env)
               mcx == WorkloadContext(m, env)
           IN  /\ \A key \in {"env", "replicas", "port", "http_port", "health", "mcp", "proxy",
                              "is_rust"} : acx[key] = mcx[key]
               /\ WorkloadValid(m, Overlay(m.deploy, env), mcx)
                     => WorkloadValid(a, Overlay(a.deploy, env), acx)
               /\ resolve_workload(a, Overlay(a.deploy, env), acx)
                     = resolve_workload(m, Overlay(m.deploy, env), mcx)
  <1> DEFINE acx == WorkloadContext(a, env)
             mcx == WorkloadContext(m, env)
  <1>1. /\ acx.env = mcx.env /\ acx.replicas = mcx.replicas /\ acx.port = mcx.port
        /\ acx.http_port = mcx.http_port /\ acx.health = mcx.health /\ acx.mcp = mcx.mcp
        /\ acx.proxy = mcx.proxy /\ acx.is_rust = mcx.is_rust
        /\ acx.autoscale = a.autoscale /\ mcx.autoscale = m.autoscale /\ mcx.env = env
    BY ServiceAtHome, TablesAtHome DEF WorkloadContext
  <1> HIDE DEF acx, mcx
  <1>2. a.autoscale = None <=> m.autoscale = None
    BY DEF AtHome, SectionsAtHome
  <1>3. m.autoscale # None => OneOverlay(a.autoscale, m.autoscale, env)
    BY DEF AtHome, SectionsAtHome
  <1>4. /\ \A kind, replicas : AutoscaleValid(m.autoscale, kind, replicas, env)
                                  => AutoscaleValid(a.autoscale, kind, replicas, env)
        /\ \A replicas : resolve_autoscale(a.autoscale, replicas, env)
                            = resolve_autoscale(m.autoscale, replicas, env)
    BY <1>2, <1>3, AutoscaleAtHome
  <1>5. /\ a.ports = m.ports /\ a.volumes = m.volumes /\ a.resources = m.resources
        /\ a.service = m.service
    BY DEF AtHome, Untouched, Sections
  <1>6. Overlay(a.deploy, env) = Overlay(m.deploy, env) /\ a.deploy.base = m.deploy.base
    BY ServiceAtHome
  <1>7. PortsValid(a.ports, acx) = PortsValid(m.ports, mcx)
    BY <1>1, <1>5 DEF PortsValid, ReservedPorts
  <1>8. WorkloadValid(m, Overlay(m.deploy, env), mcx)
           => WorkloadValid(a, Overlay(a.deploy, env), acx)
    BY <1>1, <1>4, <1>5, <1>6, <1>7 DEF WorkloadValid
  <1>9. resolve_workload(a, Overlay(a.deploy, env), acx)
           = resolve_workload(m, Overlay(m.deploy, env), mcx)
    BY <1>1, <1>4, <1>5, <1>6 DEF resolve_workload
  <1> QED BY <1>1, <1>8, <1>9 DEF acx, mcx

LEMMA PodAtHome ==
    ASSUME NEW a, NEW m, NEW env \in Environments, AtHome(a, m, env)
    PROVE  /\ PodSettings(a, env) = PodSettings(m, env)
           /\ PullSecretsValid(m.deploy) => PullSecretsValid(a.deploy)
           /\ PlacementValid(m.placement) => PlacementValid(a.placement)
           /\ \A replicas : PdbValid(m.pdb, env, replicas) => PdbValid(a.pdb, env, replicas)
  <1>1. OneOverlay(a.deploy, m.deploy, env)
    BY DEF AtHome, SectionsAtHome
  <1>2. /\ a.placement = None <=> m.placement = None
        /\ m.placement # None => OneOverlay(a.placement, m.placement, env)
        /\ a.pdb = None <=> m.pdb = None
        /\ m.pdb # None => OneOverlay(a.pdb, m.pdb, env)
    BY DEF AtHome, SectionsAtHome
  <1>3. /\ PullSecretsValid(m.deploy) => PullSecretsValid(a.deploy)
        /\ resolve_pull_secrets(a.deploy, Overlay(a.deploy, env))
              = resolve_pull_secrets(m.deploy, Overlay(m.deploy, env))
    BY <1>1, DeployAtHome
  <1>4. /\ PlacementValid(m.placement) => PlacementValid(a.placement)
        /\ resolve_placement(a.placement, env) = resolve_placement(m.placement, env)
    BY <1>2, PlacementAtHome
  <1>5. /\ \A replicas : PdbValid(m.pdb, env, replicas) => PdbValid(a.pdb, env, replicas)
        /\ resolve_pdb(a.pdb, env) = resolve_pdb(m.pdb, env)
    BY <1>2, PdbAtHome
  <1>6. a.service_account = m.service_account
    BY DEF AtHome, Untouched, Sections
  <1>7. CronJobs(a, env) = CronJobs(m, env) /\ EnvName(env) = env /\ env # None
    BY TablesAtHome
  <1>8. PodSettings(a, env) = PodSettings(m, env)
    BY <1>3, <1>4, <1>5, <1>6, <1>7 DEF PodSettings
  <1> QED BY <1>3, <1>4, <1>5, <1>8

LEMMA PlanAtHome ==
    ASSUME NEW a, NEW m, NEW env \in Environments, AtHome(a, m, env), PlanValid(m, env)
    PROVE  PlanValid(a, env) /\ PlanFor(a, env) = PlanFor(m, env)
  <1>1. EnvName(env) = env /\ env # None
    BY TablesAtHome
  <1>2. /\ a.schema = m.schema /\ a.cronjobs = m.cronjobs
        /\ a.service_account = m.service_account /\ a.config = m.config
        /\ a.image = m.image /\ a.security = m.security
    BY DEF AtHome, Untouched, Sections
  <1>3. /\ a.migrations = None <=> m.migrations = None
        /\ m.migrations # None =>
              /\ MigrationsValid(m.migrations) => MigrationsValid(a.migrations)
              /\ resolve_migrations(a.migrations, env) = resolve_migrations(m.migrations, env)
    BY MigrationsAtHome DEF AtHome, SectionsAtHome
  <1>4. /\ a.secrets = None <=> m.secrets = None
        /\ m.secrets # None => resolve_secrets(a.secrets, env) = resolve_secrets(m.secrets, env)
    BY SecretsAtHome DEF AtHome, SectionsAtHome
  <1>5. /\ OneOverlay(a.callers, m.callers, env) /\ OneOverlay(a.egress, m.egress, env)
        /\ OneOverlay(a.env, m.env, env)
    BY DEF AtHome, SectionsAtHome
  <1>6. ScopedSectionsValid(a, env)
    <2>1. ScopedSectionsValid(m, env)
      BY <1>1 DEF PlanValid
    <2>2. DependsOnValid(a.depends_on, env)
      <3>1. DependsOnValid(m.depends_on, env) /\ DependenciesKept(a.depends_on, m.depends_on, env)
        BY <2>1 DEF ScopedSectionsValid, AtHome
      <3> QED BY <3>1, DependenciesAtHome DEF DependenciesKept
    <2>3. EnvVarsValid(a.env) /\ CallersValid(a.callers, env) /\ EgressValid(a.egress)
      BY <2>1, <1>5, EnvAtHome, CallersAtHome, EgressAtHome DEF ScopedSectionsValid
    <2>4. /\ \A i \in DOMAIN a.databases : DatabaseValid(a.databases[i].raw, env)
          /\ \A i \in DOMAIN a.caches : CacheValid(a.caches[i].raw, env)
      <3>1. /\ StoresAtHome(a.databases, m.databases, env) /\ StoresAtHome(a.caches, m.caches, env)
            /\ \A i \in DOMAIN m.databases : DatabaseValid(m.databases[i].raw, env)
            /\ \A i \in DOMAIN m.caches : CacheValid(m.caches[i].raw, env)
        BY <2>1 DEF ScopedSectionsValid, AtHome
      <3> QED BY <3>1, StoresMerge
    <2>5. PlacementValid(a.placement) /\ PdbValid(a.pdb, env, DeployKey(a, env, "replicas"))
      BY <2>1, PodAtHome, ServiceAtHome DEF ScopedSectionsValid
    <2> QED BY <2>1, <2>2, <2>3, <2>4, <2>5, <1>2, TablesAtHome DEF ScopedSectionsValid
  <1>7. PlanValid(a, env)
    BY <1>1, <1>2, <1>3, <1>6, TablesAtHome, PodAtHome, WorkloadAtHome DEF PlanValid
  <1>8. PlanFor(a, env) = PlanFor(m, env)
    <2> DEFINE acx == WorkloadContext(a, env)
               mcx == WorkloadContext(m, env)
    <2>1. /\ acx.port = mcx.port /\ acx.http_port = mcx.http_port /\ acx.health = mcx.health
          /\ acx.is_rust = mcx.is_rust /\ acx.replicas = mcx.replicas /\ acx.mcp = mcx.mcp
          /\ acx.proxy = mcx.proxy
          /\ resolve_workload(a, Overlay(a.deploy, env), acx)
                = resolve_workload(m, Overlay(m.deploy, env), mcx)
      BY WorkloadAtHome
    <2> HIDE DEF acx, mcx
    <2>2. /\ a.service = m.service /\ Kind(a) = Kind(m)
          /\ \A key : DeployKey(a, env, key) = DeployKey(m, env, key)
      BY ServiceAtHome
    <2>3. /\ Namespace(a, env) = Namespace(m, env) /\ DependsOn(a, env) = DependsOn(m, env)
          /\ Datastores(a, env) = Datastores(m, env) /\ EnvVars(a, env) = EnvVars(m, env)
      BY TablesAtHome
    <2>4. /\ resolve_callers(a.callers, env) = resolve_callers(m.callers, env)
          /\ resolve_egress(a.egress, env) = resolve_egress(m.egress, env)
      BY <1>5, CallersAtHome, EgressAtHome
    <2>5. /\ (IF a.secrets = None THEN None ELSE resolve_secrets(a.secrets, env))
                = (IF m.secrets = None THEN None ELSE resolve_secrets(m.secrets, env))
          /\ (IF a.migrations = None THEN None ELSE resolve_migrations(a.migrations, env))
                = (IF m.migrations = None THEN None ELSE resolve_migrations(m.migrations, env))
      BY <1>3, <1>4
    <2>6. PodSettings(a, env) = PodSettings(m, env)
      BY PodAtHome
    <2> QED BY <1>1, <1>2, <2>1, <2>2, <2>3, <2>4, <2>5, <2>6 DEF PlanFor, acx, mcx
  <1> QED BY <1>7, <1>8

LEMMA EveryOneStaysHome ==
    \A id \in DOMAIN Manifests : StaysHome[id]
  <1> SUFFICES ASSUME NEW id \in DOMAIN Manifests, NEW env \in Environments, Loads[id][env]
               PROVE  LET alone == OnlyFor(Manifests[id], env)
                      IN  PlanValid(alone, env) /\ PlanFor(alone, env) = PlanOf[id][env]
    BY DEF StaysHome
  <1> DEFINE m == Manifests[id]
             alone == OnlyFor(m, env)
  <1>1. AtHome(alone, m, env)
    BY OnlyForIsHome DEF AtHome
  <1>2. PlanValid(m, env) /\ PlanOf[id][env] = PlanFor(m, env)
    BY DEF Loads, PlanOf, Scopes
  <1> HIDE DEF m, alone
  <1>3. PlanValid(alone, env) /\ PlanFor(alone, env) = PlanFor(m, env)
    BY <1>1, <1>2, PlanAtHome
  <1> QED BY <1>2, <1>3 DEF m, alone

\* OverlaysStayHome, for all the manifests: what is written in the overlay of
\* one environment - in whichever of the twelve sections that have overlays -
\* leaves the plans of all others as they would be without it.
THEOREM OverlaysKeepHome == ChartSpec => []OverlaysStayHome
  <1>1. ChartIInv => OverlaysStayHome
    BY EveryOneStaysHome DEF ChartIInv, OverlaysStayHome
  <1> QED BY <1>1, ChartHolds, PTL

---------------------------------------------------------------------------
(* Induction over the natural numbers, in terms of sets, and what a        *)
(* concatenation of lists holds.                                           *)

\* Below: the relation "less than" on the natural numbers.
Below == {ss \in Nat \X Nat : ss[1] < ss[2]}

\* Induction over the natural numbers, for a set: what holds 0 and with every
\* number the next holds them all.
LEMMA SetInduction ==
    ASSUME NEW P, 0 \in P, \A n \in Nat : n \in P => n + 1 \in P
    PROVE  Nat \subseteq P
  <1> DEFINE S == Nat \ P
  <1>1. SUFFICES ASSUME S # {} PROVE FALSE
    OBVIOUS
  <1>2. IsWellFoundedOn(Below, Nat)
    BY NatLessThanWellFounded, Zenon DEF OpToRel, Below
  <1>3. PICK x \in S : \A y \in S : <<y, x>> \notin Below
    <2>1. S \subseteq Nat
      OBVIOUS
    <2> HIDE DEF S
    <2> QED BY <1>1, <1>2, <2>1, WFMin
  <1>4. x \in Nat /\ x # 0
    OBVIOUS
  <1>5. <<x - 1, x>> \in Below
    BY <1>4 DEF Below
  <1>6. x \in P
    BY <1>3, <1>4, <1>5
  <1> QED BY <1>6

Upto(f, k, list, others) ==
    f = [i \in 0 .. k |-> IF i = 0 THEN list ELSE f[i - 1] \o others[i]]

LEMMA UptoExists ==
    ASSUME NEW list, NEW others
    PROVE  \A k \in Nat : \E f : Upto(f, k, list, others)
  <1> DEFINE P == {k \in Nat : \E f : Upto(f, k, list, others)}
  <1>1. 0 \in P
    <2>1. Upto([i \in 0 .. 0 |-> list], 0, list, others)
      BY DEF Upto
    <2> QED BY <2>1
  <1>2. ASSUME NEW n \in Nat, n \in P PROVE n + 1 \in P
    <2>1. PICK f : Upto(f, n, list, others)
      BY <1>2
    <2> DEFINE g == [i \in 0 .. n + 1 |-> IF i = n + 1 THEN f[n] \o others[n + 1] ELSE f[i]]
    <2>2. \A i \in 0 .. n + 1 : g[i] = IF i = 0 THEN list ELSE g[i - 1] \o others[i]
      <3> SUFFICES ASSUME NEW i \in 0 .. n + 1
                   PROVE  g[i] = IF i = 0 THEN list ELSE g[i - 1] \o others[i]
        OBVIOUS
      <3>1. CASE i = n + 1
        <4>1. g[i] = f[n] \o others[n + 1] /\ g[n] = f[n]
          BY <3>1
        <4>2. i # 0 /\ i - 1 = n
          BY <3>1
        <4> HIDE DEF g
        <4> QED BY <3>1, <4>1, <4>2
      <3>2. CASE i # n + 1
        <4>1. g[i] = f[i] /\ (i # 0 => g[i - 1] = f[i - 1])
          BY <3>2
        <4>2. f[i] = IF i = 0 THEN list ELSE f[i - 1] \o others[i]
          BY <2>1, <3>2 DEF Upto
        <4> HIDE DEF g
        <4> QED BY <4>1, <4>2
      <3> QED BY <3>1, <3>2
    <2>3. g = [i \in 0 .. n + 1 |-> g[i]]
      OBVIOUS
    <2> HIDE DEF g
    <2>4. Upto(g, n + 1, list, others)
      BY <2>2, <2>3 DEF Upto
    <2> QED BY <2>4
  <1> HIDE DEF P
  <1>3. Nat \subseteq P
    BY <1>1, <1>2, SetInduction
  <1> QED BY <1>3 DEF P

\* The function by which lists are concatenated.
LEMMA ConcatenatedBy ==
    ASSUME NEW list, NEW others, Len(others) \in Nat
    PROVE  \E f : /\ Upto(f, Len(others), list, others)
                  /\ Concatenated(list, others) = f[Len(others)]
  <1> DEFINE f[i \in 0 .. Len(others)] == IF i = 0 THEN list ELSE f[i - 1] \o others[i]
  <1>1. Len(others) \in Nat
    OBVIOUS
  <1>2. \E g : g = [i \in 0 .. Len(others) |-> IF i = 0 THEN list ELSE g[i - 1] \o others[i]]
    <2>1. \E g : Upto(g, Len(others), list, others)
      BY <1>1, UptoExists
    <2> QED BY <2>1 DEF Upto
  <1>3. f = [i \in 0 .. Len(others) |-> IF i = 0 THEN list ELSE f[i - 1] \o others[i]]
    BY <1>2
  <1>4. Concatenated(list, others) = f[Len(others)]
    BY DEF Concatenated
  <1> HIDE DEF f
  <1> QED BY <1>3, <1>4 DEF Upto


\* all is made of a list and the first k of some others.
MadeOf(all, list, others, k, S) ==
    /\ all \in Seq(S)
    /\ \A i \in DOMAIN list : \E j \in DOMAIN all : all[j] = list[i]
    /\ \A i \in 1 .. k : \E start \in Nat : \A l \in DOMAIN others[i] :
          start + l \in DOMAIN all /\ all[start + l] = others[i][l]
    /\ \A j \in DOMAIN all : \/ \E i \in DOMAIN list : all[j] = list[i]
                             \/ \E i \in 1 .. k : \E l \in DOMAIN others[i] :
                                   all[j] = others[i][l]

\* A concatenation holds its lists one after the other, and nothing else.
LEMMA ConcatenatedLists ==
    ASSUME NEW S, NEW list \in Seq(S), NEW others \in Seq(Seq(S))
    PROVE  MadeOf(Concatenated(list, others), list, others, Len(others), S)
  <1> DEFINE n == Len(others)
  <1>1. n \in Nat /\ DOMAIN others = 1 .. n
    OBVIOUS
  <1>2. PICK f : Upto(f, n, list, others) /\ Concatenated(list, others) = f[n]
    BY <1>1, ConcatenatedBy
  <1> DEFINE P == {k \in Nat : k <= n => MadeOf(f[k], list, others, k, S)}
  <1>3. 0 \in P
    <2>1. f[0] = list
      BY <1>1, <1>2 DEF Upto
    <2> QED BY <2>1 DEF MadeOf
  <1>4. ASSUME NEW k \in Nat, k \in P PROVE k + 1 \in P
    <2> SUFFICES ASSUME k + 1 <= n PROVE MadeOf(f[k + 1], list, others, k + 1, S)
      OBVIOUS
    <2> DEFINE a == f[k]
               b == others[k + 1]
    <2>1. MadeOf(a, list, others, k, S) /\ b \in Seq(S)
      <3>1. MadeOf(f[k], list, others, k, S)
        <4>1. k <= n
          BY <1>1
        <4> QED BY <1>4, <4>1
      <3>2. k + 1 \in DOMAIN others
        BY <1>1
      <3> QED BY <3>1, <3>2
    <2>2. f[k + 1] = a \o b
      <3>1. k + 1 \in 0 .. n /\ k + 1 # 0 /\ (k + 1) - 1 = k
        BY <1>1
      <3>2. f[k + 1] = f[(k + 1) - 1] \o others[k + 1]
        BY <1>2, <3>1 DEF Upto
      <3> QED BY <3>1, <3>2
    <2> HIDE DEF a, b
    <2>3. Len(a) \in Nat /\ DOMAIN a = 1 .. Len(a) /\ Len(b) \in Nat /\ DOMAIN b = 1 .. Len(b)
      BY <2>1 DEF MadeOf
    <2> DEFINE c == a \o b
    <2>4. /\ c \in Seq(S) /\ DOMAIN c = 1 .. Len(a) + Len(b)
          /\ \A j \in DOMAIN a : c[j] = a[j]
          /\ \A l \in DOMAIN b : c[Len(a) + l] = b[l]
      <3>1. a \in Seq(S) /\ b \in Seq(S)
        BY <2>1 DEF MadeOf
      <3> QED BY <2>3, <3>1
    <2> HIDE DEF c
    <2>5. \A j \in DOMAIN c : j \in DOMAIN a \/ \E l \in DOMAIN b : j = Len(a) + l
      <3> TAKE j \in DOMAIN c
      <3>1. j \in Nat /\ j >= 1 /\ j <= Len(a) + Len(b)
        BY <2>3, <2>4
      <3>2. CASE j > Len(a)
        <4>1. j - Len(a) \in DOMAIN b /\ j = Len(a) + (j - Len(a))
          BY <2>3, <3>1, <3>2
        <4> QED BY <4>1
      <3> QED BY <2>3, <3>1, <3>2
    <2>6. \A j \in DOMAIN a : j \in DOMAIN c
      BY <2>3, <2>4
    <2>7. \A l \in DOMAIN b : Len(a) + l \in DOMAIN c
      BY <2>3, <2>4
    <2>8. 1 .. k + 1 = 1 .. k \cup {k + 1}
      OBVIOUS
    <2>9. \A i \in DOMAIN list : \E j \in DOMAIN c : c[j] = list[i]
      BY <2>1, <2>4, <2>6 DEF MadeOf
    <2>10. \A i \in 1 .. k + 1 : \E start \in Nat : \A l \in DOMAIN others[i] :
              start + l \in DOMAIN c /\ c[start + l] = others[i][l]
      <3> SUFFICES ASSUME NEW i \in 1 .. k + 1
                   PROVE  \E start \in Nat : \A l \in DOMAIN others[i] :
                             start + l \in DOMAIN c /\ c[start + l] = others[i][l]
        OBVIOUS
      <3>1. CASE i \in 1 .. k
        <4>1. PICK start \in Nat : \A l \in DOMAIN others[i] :
                 start + l \in DOMAIN a /\ a[start + l] = others[i][l]
          BY <2>1, <3>1 DEF MadeOf
        <4> QED BY <2>4, <2>6, <4>1
      <3>2. CASE i = k + 1
        BY <2>3, <2>4, <2>7, <3>2 DEF b
      <3> QED BY <2>8, <3>1, <3>2
    <2>11. \A j \in DOMAIN c : \/ \E i \in DOMAIN list : c[j] = list[i]
                               \/ \E i \in 1 .. k + 1 : \E l \in DOMAIN others[i] :
                                     c[j] = others[i][l]
      <3> SUFFICES ASSUME NEW j \in DOMAIN c
                   PROVE  \/ \E i \in DOMAIN list : c[j] = list[i]
                          \/ \E i \in 1 .. k + 1 : \E l \in DOMAIN others[i] :
                                c[j] = others[i][l]
        OBVIOUS
      <3>1. CASE j \in DOMAIN a
        <4>1. c[j] = a[j]
          BY <2>4, <3>1
        <4>2. \/ \E i \in DOMAIN list : a[j] = list[i]
              \/ \E i \in 1 .. k : \E l \in DOMAIN others[i] : a[j] = others[i][l]
          BY <2>1, <3>1 DEF MadeOf
        <4> QED BY <2>8, <4>1, <4>2
      <3>2. CASE \E l \in DOMAIN b : j = Len(a) + l
        <4>1. PICK l \in DOMAIN b : c[j] = b[l]
          BY <2>4, <3>2
        <4>2. k + 1 \in 1 .. k + 1 /\ b = others[k + 1]
          BY DEF b
        <4> QED BY <4>1, <4>2
      <3> QED BY <2>5, <3>1, <3>2
    <2>13. f[k + 1] = c
      BY <2>2 DEF c
    <2>14. MadeOf(c, list, others, k + 1, S)
      BY <2>4, <2>9, <2>10, <2>11 DEF MadeOf
    <2> QED BY <2>13, <2>14
  <1> HIDE DEF P
  <1>5. Nat \subseteq P
    BY <1>3, <1>4, SetInduction
  <1>6. MadeOf(f[n], list, others, n, S)
    <2>1. n \in P /\ n <= n
      BY <1>1, <1>5
    <2> HIDE DEF n
    <2> QED BY <2>1 DEF P
  <1> QED BY <1>2, <1>6

---------------------------------------------------------------------------
(* The variables of a container.                                           *)

\* Two lists of one element, one after the other.
LEMMA OneAndOne ==
    ASSUME NEW a, NEW b
    PROVE  <<a>> \o <<b>> = <<a, b>>
  <1> DEFINE S == {a, b}
  <1>1. <<a>> \in Seq(S) /\ <<b>> \in Seq(S) /\ <<a, b>> \in Seq(S)
    OBVIOUS
  <1>2. Len(<<a>>) = 1 /\ Len(<<b>>) = 1 /\ Len(<<a, b>>) = 2
    OBVIOUS
  <1>3. <<a>>[1] = a /\ <<b>>[1] = b /\ <<a, b>>[1] = a /\ <<a, b>>[2] = b
    OBVIOUS
  <1> DEFINE s == <<a>>
             t == <<b>>
             c == s \o t
             d == <<a, b>>
  <1>4. c \in Seq(S) /\ Len(c) = 2 /\ c[1] = a /\ c[2] = b
    <2> HIDE DEF s, t, S
    <2>1. c \in Seq(S) /\ Len(c) = Len(s) + Len(t)
          /\ \A i \in 1 .. Len(s) + Len(t) : c[i] = IF i <= Len(s) THEN s[i] ELSE t[i - Len(s)]
      BY <1>1, ConcatProperties DEF s, t
    <2> HIDE DEF c
    <2>2. Len(s) = 1 /\ Len(t) = 1 /\ s[1] = a /\ t[1] = b
      BY <1>2, <1>3 DEF s, t
    <2> QED BY <2>1, <2>2
  <1>5. d \in Seq(S) /\ Len(d) = 2 /\ d[1] = a /\ d[2] = b
    BY <1>1, <1>2, <1>3
  <1> HIDE DEF c, d, S
  <1>6. \A i \in 1 .. Len(c) : c[i] = d[i]
    BY <1>4, <1>5
  <1>7. c = d
    BY <1>4, <1>5, <1>6, SeqEqual
  <1> QED BY <1>7 DEF c, d

\* A list of one element.
LEMMA OneOf ==
    ASSUME NEW S, NEW a \in S
    PROVE  <<a>> \in Seq(S)
  OBVIOUS

\* An entry of a datastore, whose variables have names.
IsEntry(e) == \E spec : /\ spec.env # None /\ HelperEnv(spec) # None
                        /\ e = extend_database(spec) \/ e = extend_cache(spec)

\* What the template renders of an entry is what the code compares, but for
\* the one that refers to itself; the helper comes first.
LEMMA EntryVariables ==
    ASSUME NEW e, IsEntry(e)
    PROVE  /\ ~RefersToItself(e) => datastoreEnv(e) = env_names(e)
           /\ \A k \in DOMAIN datastoreEnv(e) :
                 \E l \in DOMAIN env_names(e) : env_names(e)[l] = datastoreEnv(e)[k]
           /\ e.value.refers_to # None => datastoreEnv(e) = <<e.value.refers_to, e.env>>
  <1>1. PICK spec : /\ spec.env # None /\ HelperEnv(spec) # None
                    /\ e = extend_database(spec) \/ e = extend_cache(spec)
    BY DEF IsEntry
  <1> DEFINE helper == HelperEnv(spec)
  <1>2. CASE e = extend_database(spec) /\ spec.source.url = None /\ spec.tls
    <2>1. /\ e.env = spec.env /\ e.secret.env = helper /\ e.value.refers_to = helper
          /\ e.value.url = None
      BY <1>2 DEF extend_database
    <2>2. datastoreEnv(e) = <<helper, e.env>>
      <3>1. helper # None
        BY <1>1
      <3> HIDE DEF helper
      <3>2. datastoreEnv(e) = <<helper>> \o <<e.env>>
        BY <2>1, <3>1 DEF datastoreEnv, Given
      <3> QED BY <3>2, OneAndOne
    <2>3. env_names(e) = IF helper = e.env THEN <<e.env>> ELSE <<helper, e.env>>
      BY <1>1, <2>1 DEF env_names
    <2>4. ~RefersToItself(e) => helper # e.env
      BY <1>1, <2>1 DEF RefersToItself, Given
    <2> HIDE DEF helper
    <2>5. \A k \in DOMAIN <<helper, e.env>> :
             \E l \in DOMAIN env_names(e) : env_names(e)[l] = <<helper, e.env>>[k]
      <3>1. CASE helper = e.env
        <4>1. env_names(e) = <<e.env>>
          BY <2>3, <3>1
        <4>2. 1 \in DOMAIN env_names(e) /\ env_names(e)[1] = e.env
          BY <4>1
        <4>3. \A k \in DOMAIN <<helper, e.env>> : <<helper, e.env>>[k] = e.env
          BY <3>1
        <4> QED BY <4>2, <4>3
      <3>2. CASE helper # e.env
        BY <2>3, <3>2
      <3> QED BY <3>1, <3>2
    <2> QED BY <2>1, <2>2, <2>3, <2>4, <2>5
  <1>3. CASE ~(e = extend_database(spec) /\ spec.source.url = None /\ spec.tls)
    <2>1. e.value.refers_to = None /\ e.env = spec.env /\ e.value.url = spec.source.url
      BY <1>1, <1>3 DEF extend_database, extend_cache
    <2>2. e.secret.env = IF spec.source.url = None THEN spec.env ELSE None
      BY <1>1, <1>3 DEF extend_database, extend_cache
    <2>3. datastoreEnv(e) = <<e.env>>
      <3>1. CASE spec.source.url = None
        <4>1. datastoreEnv(e) = <<e.env>> \o <<>>
          BY <1>1, <2>1, <2>2, <3>1 DEF datastoreEnv, Given
        <4> QED BY <4>1
      <3>2. CASE spec.source.url # None
        <4>1. datastoreEnv(e) = <<>> \o <<e.env>>
          BY <2>1, <2>2, <3>2 DEF datastoreEnv, Given
        <4> QED BY <4>1
      <3> QED BY <3>1, <3>2
    <2>4. env_names(e) = <<e.env>>
      BY <2>1, <2>2 DEF env_names
    <2> QED BY <2>1, <2>3, <2>4
  <1> QED BY <1>2, <1>3

LEMMA StoresAreEntries ==
    ASSUME NEW id \in DOMAIN Manifests, NEW env \in Environments
    PROVE  LET stores == Datastores(Manifests[id], env)
           IN  /\ stores \in Seq({stores[i] : i \in DOMAIN stores})
               /\ \A i \in DOMAIN stores : IsEntry(stores[i])
  <1> DEFINE m == Manifests[id]
             databases == Databases(MergedStores(m.databases, env), env, m.service.name)
             caches == Caches(MergedStores(m.caches, env), env, m.service.name)
             lists == databases \o caches
             S == {databases[i][1] : i \in {j \in DOMAIN databases : databases[j] # <<>>}}
                      \cup {caches[i][1] : i \in {j \in DOMAIN caches : caches[j] # <<>>}}
  <1>1. RawConfig(m)
    BY ManifestsAssumption
  <1>2. \A key \in {"databases", "caches"} : m[key] \in Seq(Range(m[key]))
    BY <1>1 DEF RawConfig
  <1>3. \A store \in Range(m.databases) \cup Range(m.caches) :
           None \notin {HelperEnv(store), env_prefix(store.variant) \o "DATABASE_URL",
                        env_prefix(store.variant) \o "REDIS_URL"}
    BY NoneAssumption
  <1> HIDE DEF m
  <1>4. /\ databases \in Seq({databases[i] : i \in DOMAIN databases})
        /\ caches \in Seq({caches[i] : i \in DOMAIN caches})
        /\ DOMAIN databases = DOMAIN m.databases /\ DOMAIN caches = DOMAIN m.caches
    <2>1. /\ DOMAIN MergedStores(m.databases, env) = DOMAIN m.databases
          /\ DOMAIN MergedStores(m.caches, env) = DOMAIN m.caches
      BY DEF MergedStores
    <2>2. DOMAIN databases = DOMAIN m.databases /\ DOMAIN caches = DOMAIN m.caches
      BY <2>1 DEF Databases, Caches
    <2>3. /\ Len(m.databases) \in Nat /\ DOMAIN m.databases = 1 .. Len(m.databases)
          /\ Len(m.caches) \in Nat /\ DOMAIN m.caches = 1 .. Len(m.caches)
      <3>1. m.databases \in Seq(Range(m.databases)) /\ m.caches \in Seq(Range(m.caches))
        BY <1>2
      <3> QED BY <3>1
    <2>4. databases = [i \in DOMAIN databases |-> databases[i]] /\ caches = [i \in DOMAIN caches |-> caches[i]]
      BY DEF Databases, Caches
    <2> HIDE DEF databases, caches
    <2>5. databases \in Seq({databases[i] : i \in DOMAIN databases})
      BY <2>2, <2>3, <2>4, IsASeq
    <2>6. caches \in Seq({caches[i] : i \in DOMAIN caches})
      BY <2>2, <2>3, <2>4, IsASeq
    <2> QED BY <2>2, <2>5, <2>6
  <1>5. \A i \in DOMAIN databases : databases[i] = <<>> \/ \E e : IsEntry(e) /\ databases[i] = <<e>>
    <2> SUFFICES ASSUME NEW i \in DOMAIN databases, databases[i] # <<>>
                 PROVE  \E e : IsEntry(e) /\ databases[i] = <<e>>
      OBVIOUS
    <2> DEFINE store == m.databases[i]
               f == MergeDatastore(store.raw, env)
               spec == resolve_database(f, env, m.service.name, store.variant)
    <2>1. databases[i] = <<extend_database(spec)>>
      BY <1>4 DEF Databases, MergedStores
    <2>2. store \in Range(m.databases)
      BY <1>4 DEF Range
    <2>3. spec.variant = store.variant /\ spec.env = Or(f.env, env_prefix(store.variant) \o "DATABASE_URL")
      BY DEF resolve_database
    <2> HIDE DEF spec, f
    <2>4. spec.env # None /\ HelperEnv(spec) # None
      BY <1>3, <2>2, <2>3 DEF Or, HelperEnv
    <2> QED BY <2>1, <2>4 DEF IsEntry
  <1>6. \A i \in DOMAIN caches : caches[i] = <<>> \/ \E e : IsEntry(e) /\ caches[i] = <<e>>
    <2> SUFFICES ASSUME NEW i \in DOMAIN caches, caches[i] # <<>>
                 PROVE  \E e : IsEntry(e) /\ caches[i] = <<e>>
      OBVIOUS
    <2> DEFINE store == m.caches[i]
               f == MergeDatastore(store.raw, env)
               spec == resolve_cache(f, env, m.service.name, store.variant)
    <2>1. caches[i] = <<extend_cache(spec)>>
      BY <1>4 DEF Caches, MergedStores
    <2>2. store \in Range(m.caches)
      BY <1>4 DEF Range
    <2>3. spec.variant = store.variant /\ spec.env = Or(f.env, env_prefix(store.variant) \o "REDIS_URL")
      BY DEF resolve_cache
    <2> HIDE DEF spec, f
    <2>4. spec.env # None /\ HelperEnv(spec) # None
      BY <1>3, <2>2, <2>3 DEF Or, HelperEnv
    <2> QED BY <2>1, <2>4 DEF IsEntry
  <1> HIDE DEF databases, caches
  <1>7. (\A i \in DOMAIN databases : databases[i] \in Seq(S))
        /\ (\A i \in DOMAIN caches : caches[i] \in Seq(S))
    <2>1. ASSUME NEW i \in DOMAIN databases PROVE databases[i] \in Seq(S)
      <3>1. CASE databases[i] = <<>>
        BY <3>1
      <3>2. CASE databases[i] # <<>>
        <4>1. databases[i] = <<databases[i][1]>>
          BY <1>5, <3>2
        <4>2. databases[i][1] \in S
          BY <3>2
        <4> HIDE DEF S
        <4>3. <<databases[i][1]>> \in Seq(S)
          BY <4>2, OneOf
        <4> QED BY <4>1, <4>3
      <3> QED BY <3>1, <3>2
    <2>2. ASSUME NEW i \in DOMAIN caches PROVE caches[i] \in Seq(S)
      <3>1. CASE caches[i] = <<>>
        BY <3>1
      <3>2. CASE caches[i] # <<>>
        <4>1. caches[i] = <<caches[i][1]>>
          BY <1>6, <3>2
        <4>2. caches[i][1] \in S
          BY <3>2
        <4> HIDE DEF S
        <4>3. <<caches[i][1]>> \in Seq(S)
          BY <4>2, OneOf
        <4> QED BY <4>1, <4>3
      <3> QED BY <3>1, <3>2
    <2> HIDE DEF S
    <2> QED BY <2>1, <2>2
  <1>8. \A e \in S : IsEntry(e)
    <2>1. \A i \in DOMAIN databases : databases[i] # <<>> => IsEntry(databases[i][1])
      BY <1>5
    <2>2. \A i \in DOMAIN caches : caches[i] # <<>> => IsEntry(caches[i][1])
      BY <1>6
    <2> QED BY <2>1, <2>2
  <1> HIDE DEF S
  <1>9. databases \in Seq(Seq(S)) /\ caches \in Seq(Seq(S))
    BY <1>4, <1>7
  <1>10. lists \in Seq(Seq(S))
    BY <1>9
  <1> DEFINE stores == Concatenated(<<>>, lists)
  <1>11. stores \in Seq(S)
    <2>1. <<>> \in Seq(S)
      OBVIOUS
    <2> HIDE DEF lists
    <2>2. MadeOf(stores, <<>>, lists, Len(lists), S)
      BY <1>10, <2>1, ConcatenatedLists
    <2> QED BY <2>2 DEF MadeOf
  <1>12. Datastores(m, env) = stores
    BY RequestsAssumption DEF Datastores, databases, caches
  <1> HIDE DEF stores
  <1>13. stores \in Seq({stores[i] : i \in DOMAIN stores}) /\ \A i \in DOMAIN stores : IsEntry(stores[i])
    BY <1>8, <1>11
  <1> QED BY <1>12, <1>13 DEF m

\* The lists of variables an entry has hold its own two names at most.
LEMMA VariablesAreLists ==
    ASSUME NEW e
    PROVE  /\ datastoreEnv(e) \in Seq({e.secret.env, e.env})
           /\ env_names(e) \in Seq({e.secret.env, e.env})
  <1> DEFINE V == {e.secret.env, e.env}
             a == IF e.secret.env = None THEN <<>> ELSE <<e.secret.env>>
             b == IF Given(e.value.refers_to) \/ Given(e.value.url) THEN <<e.env>> ELSE <<>>
  <1>1. a \in Seq(V) /\ b \in Seq(V)
    <2>1. <<>> \in Seq(V) /\ <<e.secret.env>> \in Seq(V) /\ <<e.env>> \in Seq(V)
      BY OneOf
    <2> HIDE DEF V
    <2> QED BY <2>1
  <1>2. datastoreEnv(e) = a \o b
    BY DEF datastoreEnv
  <1>3. env_names(e) \in Seq(V)
    <2>1. <<e.env>> \in Seq(V) /\ <<e.secret.env, e.env>> \in Seq(V)
      OBVIOUS
    <2> HIDE DEF V
    <2> QED BY <2>1 DEF env_names
  <1> HIDE DEF a, b, V
  <1>4. a \o b \in Seq(V)
    BY <1>1
  <1> QED BY <1>2, <1>3, <1>4 DEF V

\* What of the keys of the Secret and the datastores is rendered, against
\* what the code compares.
RenderedList(keys, stores) == Concatenated(keys, [i \in DOMAIN stores |-> datastoreEnv(stores[i])])

LEMMA RenderedIsDeclared ==
    ASSUME NEW T, NEW keys \in Seq(T), NEW U, NEW stores \in Seq(U),
           \A i \in DOMAIN stores : IsEntry(stores[i])
    PROVE  /\ (\A i \in DOMAIN stores : ~RefersToItself(stores[i]))
                 => RenderedList(keys, stores) = declared(keys, stores)
           /\ Range(RenderedList(keys, stores)) \subseteq Range(declared(keys, stores))
           /\ \A i \in DOMAIN stores : stores[i].value.refers_to # None =>
                 \E j, k \in DOMAIN RenderedList(keys, stores) :
                    /\ j < k
                    /\ RenderedList(keys, stores)[j] = stores[i].value.refers_to
                    /\ RenderedList(keys, stores)[k] = stores[i].env
  <1> DEFINE V == T \cup UNION {{stores[i].secret.env, stores[i].env} : i \in DOMAIN stores}
             rendered == [i \in DOMAIN stores |-> datastoreEnv(stores[i])]
             listed == [i \in DOMAIN stores |-> env_names(stores[i])]
             first == Concatenated(keys, rendered)
             decl == Concatenated(keys, listed)
  <1>1. RenderedList(keys, stores) = first /\ declared(keys, stores) = decl
    BY DEF RenderedList, declared
  <1>2. Len(stores) \in Nat /\ DOMAIN stores = 1 .. Len(stores)
    OBVIOUS
  <1>3. keys \in Seq(V)
    <2>1. T \subseteq V
      OBVIOUS
    <2> HIDE DEF V
    <2> QED BY <2>1, SeqMonotonic
  <1>4. \A i \in DOMAIN stores : datastoreEnv(stores[i]) \in Seq(V) /\ env_names(stores[i]) \in Seq(V)
    <2> SUFFICES ASSUME NEW i \in DOMAIN stores
                 PROVE  datastoreEnv(stores[i]) \in Seq(V) /\ env_names(stores[i]) \in Seq(V)
      OBVIOUS
    <2> DEFINE W == {stores[i].secret.env, stores[i].env}
    <2>1. W \subseteq V
      OBVIOUS
    <2>2. datastoreEnv(stores[i]) \in Seq(W) /\ env_names(stores[i]) \in Seq(W)
      BY VariablesAreLists
    <2> HIDE DEF V, W
    <2> QED BY <2>1, <2>2, SeqMonotonic
  <1> HIDE DEF V
  <1>5. rendered \in Seq(Seq(V)) /\ listed \in Seq(Seq(V))
    BY <1>2, <1>4
  <1>6. /\ Len(rendered) = Len(stores) /\ Len(listed) = Len(stores)
        /\ \A i \in DOMAIN stores : /\ rendered[i] = datastoreEnv(stores[i])
                                    /\ listed[i] = env_names(stores[i])
    BY <1>2
  <1>7. (\A i \in DOMAIN stores : ~RefersToItself(stores[i])) => rendered = listed
    BY EntryVariables
  <1> HIDE DEF rendered, listed
  <1>8. MadeOf(first, keys, rendered, Len(stores), V) /\ MadeOf(decl, keys, listed, Len(stores), V)
    BY <1>3, <1>5, <1>6, ConcatenatedLists
  <1>9. (\A i \in DOMAIN stores : ~RefersToItself(stores[i])) => first = decl
    BY <1>7
  <1> HIDE DEF first, decl
  <1>10. \A j \in DOMAIN first : \E k \in DOMAIN decl : decl[k] = first[j]
    <2> SUFFICES ASSUME NEW j \in DOMAIN first
                 PROVE  \E k \in DOMAIN decl : decl[k] = first[j]
      OBVIOUS
    <2>1. CASE \E i \in DOMAIN keys : first[j] = keys[i]
      BY <1>8, <2>1 DEF MadeOf
    <2>2. CASE \E i \in 1 .. Len(stores) : \E l \in DOMAIN rendered[i] : first[j] = rendered[i][l]
      <3>1. PICK i \in 1 .. Len(stores) : \E l \in DOMAIN rendered[i] : first[j] = rendered[i][l]
        BY <2>2
      <3>2. i \in DOMAIN stores
        BY <1>2
      <3>3. rendered[i] = datastoreEnv(stores[i]) /\ listed[i] = env_names(stores[i])
        BY <1>6, <3>2
      <3>4. \A k \in DOMAIN datastoreEnv(stores[i]) :
               \E l \in DOMAIN env_names(stores[i]) :
                  env_names(stores[i])[l] = datastoreEnv(stores[i])[k]
        BY <3>2, EntryVariables
      <3>5. PICK l \in DOMAIN listed[i] : listed[i][l] = first[j]
        BY <3>1, <3>3, <3>4
      <3>6. PICK start \in Nat : \A n \in DOMAIN listed[i] :
               start + n \in DOMAIN decl /\ decl[start + n] = listed[i][n]
        BY <1>8 DEF MadeOf
      <3> QED BY <3>5, <3>6
    <2>3. \/ \E i \in DOMAIN keys : first[j] = keys[i]
          \/ \E i \in 1 .. Len(stores) : \E l \in DOMAIN rendered[i] : first[j] = rendered[i][l]
      BY <1>8 DEF MadeOf
    <2> QED BY <2>1, <2>2, <2>3
  <1>11. Range(first) \subseteq Range(decl)
    BY <1>10 DEF Range
  <1>12. ASSUME NEW i \in DOMAIN stores, stores[i].value.refers_to # None
         PROVE  \E j, k \in DOMAIN first : /\ j < k /\ first[j] = stores[i].value.refers_to
                                           /\ first[k] = stores[i].env
    <2> DEFINE helper == stores[i].value.refers_to
               own == stores[i].env
    <2>1. rendered[i] = <<helper, own>>
      BY <1>6, <1>12, EntryVariables
    <2>2. i \in 1 .. Len(stores)
      BY <1>2
    <2>3. PICK start \in Nat : \A n \in DOMAIN rendered[i] :
             start + n \in DOMAIN first /\ first[start + n] = rendered[i][n]
      BY <1>8, <2>2 DEF MadeOf
    <2> HIDE DEF helper, own
    <2>4. 1 \in DOMAIN rendered[i] /\ 2 \in DOMAIN rendered[i]
          /\ rendered[i][1] = helper /\ rendered[i][2] = own
      BY <2>1
    <2>5. /\ start + 1 \in DOMAIN first /\ first[start + 1] = helper
          /\ start + 2 \in DOMAIN first /\ first[start + 2] = own
      BY <2>3, <2>4
    <2>6. start + 1 < start + 2
      OBVIOUS
    <2> QED BY <2>5, <2>6 DEF helper, own
  <1> QED BY <1>1, <1>9, <1>11, <1>12

\* Where the values of a plan keep what the containers' variables are from.
LEMMA ValuesOfPlan ==
    ASSUME NEW p
    PROVE  /\ PlanValues(p).leaf.datastores = p.datastores
           /\ PlanValues(p).leaf.secretKeys = IF p.secrets = None THEN <<>> ELSE p.secrets.required
           /\ PlanValues(p).leaf.cronjobs = p.pod.cronjobs
           /\ PlanValues(p).map.env = p.env_vars
  <1>1. /\ PlanValues(p).leaf = Laid(build_context(p).leaf, ServiceValues(p).leaf)
        /\ PlanValues(p).map = Laid(build_context(p).map, ServiceValues(p).map)
    BY DEF PlanValues
  <1>2. /\ build_context(p).leaf.datastores = p.datastores
        /\ build_context(p).leaf.secretKeys = IF p.secrets = None THEN <<>> ELSE p.secrets.required
        /\ build_context(p).leaf.cronjobs = p.pod.cronjobs
        /\ build_context(p).map.env = p.env_vars
        /\ {"datastores", "secretKeys", "cronjobs"} \subseteq DOMAIN build_context(p).leaf
        /\ "env" \in DOMAIN build_context(p).map
    BY DEF build_context, pod_block, Laid
  <1>3. ASSUME NEW over, NEW base, NEW key \in DOMAIN over PROVE Laid(over, base)[key] = over[key]
    BY DEF Laid
  <1> QED BY <1>1, <1>2, <1>3

LEMMA VariablesOfPlan ==
    ASSUME NEW id \in DOMAIN Manifests, NEW env \in Environments, Loads[id][env]
    PROVE  LET m == Manifests[id]
               keys == IF m.secrets = None THEN <<>> ELSE m.secrets.required
               values == PlanValues(PlanOf[id][env])
           IN  /\ keys \in Seq(STRING)
               /\ values.leaf.datastores = Datastores(m, env)
               /\ SecretsFirst(values) = RenderedList(keys, Datastores(m, env))
               /\ Declared(m, env) = declared(keys, Datastores(m, env))
               /\ values.map.env = EnvVars(m, env)
               /\ values.leaf.cronjobs = CronJobs(m, env)
               /\ NoVariableTwice(m, env)
  <1> DEFINE m == Manifests[id]
             keys == IF m.secrets = None THEN <<>> ELSE m.secrets.required
             p == PlanFor(m, env)
  <1>1. PlanOf[id][env] = p /\ PlanValid(m, env)
    BY DEF PlanOf, Loads, Scopes
  <1>2. RawConfig(m)
    BY ManifestsAssumption
  <1>3. EnvName(env) = env
    BY RequestsAssumption DEF EnvName, Or
  <1>4. m.secrets # None => resolve_secrets(m.secrets, env) # None
    BY NoneAssumption DEF Given
  <1> HIDE DEF m
  <1>5. /\ p.datastores = Datastores(m, env) /\ p.env_vars = EnvVars(m, env)
        /\ p.pod.cronjobs = CronJobs(m, env)
        /\ p.secrets = IF m.secrets = None THEN None ELSE resolve_secrets(m.secrets, env)
    BY <1>3 DEF PlanFor, PodSettings
  <1> HIDE DEF p
  <1>6. (IF p.secrets = None THEN <<>> ELSE p.secrets.required) = keys
    <2>1. resolve_secrets(m.secrets, env).required = m.secrets.required
      BY DEF resolve_secrets
    <2> QED BY <1>4, <1>5, <2>1
  <1>7. keys \in Seq(STRING)
    <2>1. m.secrets # None => RawSecrets(m.secrets)
      BY <1>2 DEF RawConfig, Given
    <2>2. m.secrets # None => m.secrets.required \in Seq(STRING)
      BY <2>1 DEF RawSecrets
    <2>3. <<>> \in Seq(STRING)
      OBVIOUS
    <2> QED BY <2>2, <2>3
  <1> HIDE DEF keys
  <1> DEFINE values == PlanValues(p)
  <1>8. /\ values.leaf.datastores = Datastores(m, env) /\ values.leaf.secretKeys = keys
        /\ values.leaf.cronjobs = CronJobs(m, env) /\ values.map.env = EnvVars(m, env)
    BY <1>5, <1>6, ValuesOfPlan
  <1> HIDE DEF values
  <1>9. SecretsFirst(values) = RenderedList(keys, Datastores(m, env))
    BY <1>8 DEF SecretsFirst, RenderedList
  <1>10. Declared(m, env) = declared(keys, Datastores(m, env))
    BY DEF Declared, keys
  <1>11. NoVariableTwice(m, env)
    BY <1>1 DEF PlanValid
  <1> QED BY <1>1, <1>7, <1>8, <1>9, <1>10, <1>11 DEF values, keys, m

\* Among the variables the chart puts into a container no name comes twice,
\* but for a database that refers to itself, and a variable follows the one
\* it refers to: the code compares names, the template renders entries.
THEOREM VariablesAreOnce == ChartSpec => []OneVariableOnce
  <1>1. ChartIInv => OneVariableOnce
    <2> SUFFICES ASSUME ChartIInv, NEW env \in Environments, Loads[manifest][env]
                 PROVE  LET values == PlanValues(PlanOf[manifest][env])
                            first == SecretsFirst(values)
                            stores == Range(values.leaf.datastores)
                        IN  /\ (\A store \in stores : ~RefersToItself(store)) => IsInjective(first)
                            /\ Range(first) \cap DOMAIN values.map.env = {}
                            /\ \A job \in values.leaf.cronjobs : Range(first) \cap DOMAIN job.env = {}
                            /\ \A store \in stores : Given(store.value.refers_to) =>
                                  \E i, j \in DOMAIN first : /\ i < j
                                                            /\ first[i] = store.value.refers_to
                                                            /\ first[j] = store.env
      BY DEF OneVariableOnce, ValidIn
    <2> DEFINE m == Manifests[manifest]
               keys == IF m.secrets = None THEN <<>> ELSE m.secrets.required
               values == PlanValues(PlanOf[manifest][env])
               list == Datastores(m, env)
               first == SecretsFirst(values)
               decl == Declared(m, env)
    <2>1. manifest \in DOMAIN Manifests
      BY DEF ChartIInv
    <2>2. /\ keys \in Seq(STRING) /\ values.leaf.datastores = list
          /\ first = RenderedList(keys, list) /\ decl = declared(keys, list)
          /\ values.map.env = EnvVars(m, env) /\ values.leaf.cronjobs = CronJobs(m, env)
          /\ NoVariableTwice(m, env)
      BY <2>1, VariablesOfPlan
    <2>3. list \in Seq({list[i] : i \in DOMAIN list}) /\ \A i \in DOMAIN list : IsEntry(list[i])
      BY <2>1, StoresAreEntries
    <2>4. /\ IsInjective(decl) /\ DOMAIN EnvVars(m, env) \cap Range(decl) = {}
          /\ \A job \in CronJobs(m, env) : DOMAIN job.env \cap Range(decl) = {}
      BY <2>2 DEF NoVariableTwice
    <2> HIDE DEF m, keys, values, list, first, decl
    <2>5. /\ (\A i \in DOMAIN list : ~RefersToItself(list[i])) => first = decl
          /\ Range(first) \subseteq Range(decl)
          /\ \A i \in DOMAIN list : list[i].value.refers_to # None =>
                \E j, k \in DOMAIN first : /\ j < k /\ first[j] = list[i].value.refers_to
                                          /\ first[k] = list[i].env
      BY <2>2, <2>3, RenderedIsDeclared
    <2>6. \A i \in DOMAIN list : list[i] \in Range(list)
      BY DEF Range
    <2>7. \A store \in Range(list) : \E i \in DOMAIN list : store = list[i]
      BY DEF Range
    <2>8. (\A store \in Range(list) : ~RefersToItself(store)) => IsInjective(first)
      BY <2>4, <2>5, <2>6
    <2>9. /\ Range(first) \cap DOMAIN values.map.env = {}
          /\ \A job \in values.leaf.cronjobs : Range(first) \cap DOMAIN job.env = {}
      BY <2>2, <2>4, <2>5
    <2>10. \A store \in Range(list) : Given(store.value.refers_to) =>
              \E i, j \in DOMAIN first : i < j /\ first[i] = store.value.refers_to
                                             /\ first[j] = store.env
      BY <2>5, <2>7 DEF Given
    <2> QED BY <2>2, <2>8, <2>9, <2>10 DEF values, first
  <1> QED BY <1>1, ChartHolds, PTL

\* Where the values of a plan keep what its network policy is made of.
LEMMA NetworkOfPlan ==
    ASSUME NEW p
    PROVE  /\ PlanValues(p).leaf.networkPolicy = for_plan(p)
           /\ PlanValues(p).leaf.httpPort = Or(p.http_port, 0)
  <1>1. PlanValues(p).leaf = Laid(build_context(p).leaf, ServiceValues(p).leaf)
    BY DEF PlanValues
  <1>2. /\ build_context(p).leaf.networkPolicy = for_plan(p)
        /\ "networkPolicy" \in DOMAIN build_context(p).leaf
        /\ "httpPort" \notin DOMAIN build_context(p).leaf
    BY DEF build_context, pod_block, Laid
  <1>3. /\ ServiceValues(p).leaf.httpPort = Or(p.http_port, 0)
        /\ "httpPort" \in DOMAIN ServiceValues(p).leaf
    BY DEF ServiceValues, workload_context, Laid
  <1>4. ASSUME NEW over, NEW base
        PROVE  /\ \A key \in DOMAIN over : Laid(over, base)[key] = over[key]
               /\ \A key \in DOMAIN base \ DOMAIN over : Laid(over, base)[key] = base[key]
    BY DEF Laid
  <1> QED BY <1>1, <1>2, <1>3, <1>4

\* A service that depends on another, and that the other says nothing of, is
\* among its callers, and may use all its ports.
LEMMA DerivedIsAdmitted ==
    ASSUME NEW plans, NEW p \in plans, NEW q \in plans,
           p = [key \in DOMAIN p |-> p[key]], "callers" \in DOMAIN p,
           DependsOnPlan(q, p), ~\E c \in p.callers : c.source = ServiceRef(q),
           NEW port \in {p.port, p.http_port} \ {None, 0}
    PROVE  AdmitsService(PlanValues(WithDerivedCallers(p, plans)), q.name, q.namespace, port)
  <1> DEFINE all == WithDerivedCallers(p, plans)
             caller == from_service(ServiceRef(q))
             entry == [name |-> q.name, namespace |-> q.namespace, labels |-> {}, ports |-> <<>>]
             values == PlanValues(all)
  <1>1. caller \in all.callers
    BY DEF WithDerivedCallers
  <1>2. all.port = p.port /\ all.http_port = p.http_port
    BY DEF WithDerivedCallers
  <1>3. CallerValues(caller) = entry
    BY DEF CallerValues, from_service, ServiceRef
  <1> HIDE DEF all, caller
  <1>4. values.leaf.networkPolicy = for_plan(all) /\ values.leaf.httpPort = Or(all.http_port, 0)
    BY NetworkOfPlan
  <1> HIDE DEF values
  <1>5. /\ entry \in values.leaf.networkPolicy.callers
        /\ values.leaf.networkPolicy.port = p.port
    <2>1. for_plan(all).callers = {CallerValues(c) : c \in all.callers} /\ for_plan(all).port = all.port
      BY DEF for_plan
    <2> QED BY <1>1, <1>2, <1>3, <1>4, <2>1
  <1>6. port \in {p.port} \cup ({values.leaf.httpPort} \ {0})
    BY <1>2, <1>4 DEF Or
  <1>7. port \in IngressPorts(values, entry)
    BY <1>5, <1>6 DEF IngressPorts
  <1> QED BY <1>5, <1>7 DEF AdmitsService, values, all

\* In any workspace the network policies of the two ends agree, whatever the
\* other services say: who depends on a service is let in by it on the ports
\* it serves, unless an entry of [callers] names it.
THEOREM PoliciesMatch == ChartSpec => []PoliciesAgree
  <1>1. ASSUME NEW id \in DOMAIN Manifests PROVE Agree[id]
    <2> SUFFICES ASSUME NEW env \in Environments
                 PROVE  LET services == {m \in {Manifests[id]} \cup Neighbours : PlanValid(m, env)}
                            plans == {PlanFor(m, env) : m \in services}
                            values == [p \in plans |-> PlanValues(WithDerivedCallers(p, plans))]
                        IN  \A p, q \in plans : \A port \in {p.port, p.http_port} \ {None, 0} :
                                (/\ LetsReach(values[q], p.name, p.namespace, port)
                                 /\ DependsOnPlan(q, p)
                                 /\ ~\E c \in p.callers : c.source = ServiceRef(q))
                                => AdmitsService(values[p], q.name, q.namespace, port)
      BY DEF Agree
    <2> DEFINE services == {m \in {Manifests[id]} \cup Neighbours : PlanValid(m, env)}
               plans == {PlanFor(m, env) : m \in services}
               values == [p \in plans |-> PlanValues(WithDerivedCallers(p, plans))]
    <2>1. \A p \in plans : p = [key \in DOMAIN p |-> p[key]] /\ "callers" \in DOMAIN p
      BY DEF PlanFor
    <2> HIDE DEF plans
    <2>2. \A p, q \in plans : \A port \in {p.port, p.http_port} \ {None, 0} :
             /\ DependsOnPlan(q, p)
             /\ ~\E c \in p.callers : c.source = ServiceRef(q)
             => AdmitsService(PlanValues(WithDerivedCallers(p, plans)), q.name, q.namespace, port)
      BY <2>1, DerivedIsAdmitted
    <2> QED BY <2>2 DEF plans
  <1>2. ChartIInv => PoliciesAgree
    BY <1>1 DEF ChartIInv, PoliciesAgree
  <1> QED BY <1>2, ChartHolds, PTL

---------------------------------------------------------------------------
(* What the check of a disruption budget achieves.                         *)

CountsPods(budget) ==
    \A v \in {budget.min_available, budget.max_unavailable} \ {None} : ~v.percent

\* A budget that counts pods lets one go, unless the autoscaler may run fewer
\* pods than [deploy].replicas says, or that is one: plan.rs:1004 gives the
\* check (pod.rs:530-545) the replicas, and it compares counts only.
EvictionByReplicas ==
    \A env \in Environments : ValidIn(env) =>
        LET values == PlanValues(PlanOf[manifest][env])
        IN  /\ pdb(values) # None /\ CountsPods(pdb(values))
            /\ values.leaf.replicaCount \in 2 .. minReplicas(values)
            => LetsGo(pdb(values), minReplicas(values))

\* Where the values of a plan keep what its disruption budget is made of.
LEMMA BudgetOfPlan ==
    ASSUME NEW p
    PROVE  LET leaf == PlanValues(p).leaf
           IN  /\ leaf.pdbEnabled = (p.pod.pdb # None) /\ leaf.replicaCount = p.replicas
               /\ PlanValues(p).map.podDisruptionBudget
                     = IF p.pod.pdb = None THEN NoEntries ELSE Present(p.pod.pdb)
  <1>1. /\ PlanValues(p).leaf = Laid(build_context(p).leaf, ServiceValues(p).leaf)
        /\ PlanValues(p).map = Laid(build_context(p).map, ServiceValues(p).map)
    BY DEF PlanValues
  <1>2. build_context(p).leaf.replicaCount = p.replicas
    BY DEF build_context, pod_block, Laid
  <1>8. "replicaCount" \in DOMAIN build_context(p).leaf
    BY DEF build_context, pod_block, Laid
  <1>4. /\ build_context(p).map.podDisruptionBudget = pod_block(p.pod).map.podDisruptionBudget
        /\ "podDisruptionBudget" \in DOMAIN build_context(p).map
    BY DEF build_context, pod_block, Laid
  <1>5. pod_block(p.pod).map.podDisruptionBudget
           = IF p.pod.pdb = None THEN NoEntries ELSE Present(p.pod.pdb)
    BY DEF pod_block
  <1>6. /\ build_context(p).leaf.pdbEnabled = pod_block(p.pod).leaf.pdbEnabled
        /\ "pdbEnabled" \in DOMAIN build_context(p).leaf
    BY DEF build_context, pod_block, Laid
  <1>7. pod_block(p.pod).leaf.pdbEnabled = (p.pod.pdb # None)
    BY DEF pod_block
  <1>3. ASSUME NEW over, NEW base, NEW key \in DOMAIN over PROVE Laid(over, base)[key] = over[key]
    BY DEF Laid
  <1> QED BY <1>1, <1>2, <1>3, <1>4, <1>5, <1>6, <1>7, <1>8

\* The range of the autoscaler, and what the plan has made sure of.
LEMMA RangeOfPlan ==
    ASSUME NEW p
    PROVE  LET leaf == PlanValues(p).leaf
           IN  /\ leaf.autoscalingEnabled => HasAutoscale(p)
               /\ HasAutoscale(p) => leaf.minReplicas = p.workload.autoscale.min_replicas
  <1>1. PlanValues(p).leaf = Laid(build_context(p).leaf, ServiceValues(p).leaf)
    BY DEF PlanValues
  <1>2. build_context(p).leaf.autoscalingEnabled => HasAutoscale(p)
    BY DEF build_context, pod_block, Laid
  <1>3. HasAutoscale(p) => build_context(p).leaf.minReplicas = p.workload.autoscale.min_replicas
    BY DEF build_context, pod_block, Laid
  <1>4. "autoscalingEnabled" \in DOMAIN build_context(p).leaf
    BY DEF build_context, pod_block, Laid
  <1>5. "minReplicas" \in DOMAIN build_context(p).leaf
    BY DEF build_context, pod_block, Laid
  <1>6. ASSUME NEW over, NEW base, NEW key \in DOMAIN over PROVE Laid(over, base)[key] = over[key]
    BY DEF Laid
  <1> QED BY <1>1, <1>2, <1>3, <1>4, <1>5, <1>6

LEMMA RangeIsChecked ==
    ASSUME NEW m, NEW env, PlanValid(m, env), HasAutoscale(PlanFor(m, env))
    PROVE  PlanFor(m, env).workload.autoscale.min_replicas \in Int
  <1> DEFINE cx == WorkloadContext(m, env)
             min == MinReplicas(cx.autoscale, cx.replicas, cx.env)
             max == AutoscaleFields(cx.autoscale, cx.env).max_replicas
             range == resolve_autoscale(cx.autoscale, cx.replicas, cx.env)
  <1>1. PlanFor(m, env).workload.autoscale = range
    BY DEF PlanFor, resolve_workload
  <1>2. \E kind : AutoscaleValid(cx.autoscale, kind, cx.replicas, cx.env)
    BY DEF PlanValid, WorkloadValid
  <1>3. range # None
    BY <1>1 DEF HasAutoscale
  <1> HIDE DEF cx
  <1>4. AutoscaleEnabled(cx.autoscale, cx.env) /\ range.min_replicas = min
    BY <1>3 DEF resolve_autoscale
  <1>5. min \in 1 .. max
    BY <1>2, <1>4 DEF AutoscaleValid
  <1> HIDE DEF min, max, range
  <1> QED BY <1>1, <1>4, <1>5

\* A budget is one of the tables', whose counts are not negative, or the
\* default; a count of pods that must stay is below the replicas, and one of
\* pods that may be missing is not 0.
LEMMA BudgetIsChecked ==
    ASSUME NEW raw, NEW env, NEW replicas \in Nat, raw # None => RawPdb(raw),
           PdbValid(raw, env, replicas), resolve_pdb(raw, env) # None
    PROVE  LET b == resolve_pdb(raw, env)
           IN  /\ DOMAIN b = {"min_available", "max_unavailable"}
               /\ \A v \in {b.min_available, b.max_unavailable} \ {None} : v \in RawCount /\ v.n >= 0
               /\ replicas > 1 /\ Given(b.min_available) /\ ~b.min_available.percent
                     => b.min_available.n < replicas
               /\ b.max_unavailable # [percent |-> FALSE, n |-> 0]
  <1> DEFINE b == resolve_pdb(raw, env)
             Fields == [enabled : Maybe(BOOLEAN), min_available : Maybe(RawCount),
                        max_unavailable : Maybe(RawCount)]
             Sound(c) == /\ DOMAIN c = {"min_available", "max_unavailable"}
                         /\ \A v \in {c.min_available, c.max_unavailable} \ {None} :
                                v \in RawCount /\ v.n >= 0
  <1>1. PdbEnabled(raw, env) /\ b = Or(Pdb(raw, env).budget, OneAtATime)
    BY DEF resolve_pdb
  <1>2. raw # None /\ RawPdb(raw)
    BY <1>1 DEF PdbEnabled
  <1>3. /\ PdbFieldsValid(raw.base) /\ raw.base \in Fields
        /\ \A e \in DOMAIN raw.envs : PdbFieldsValid(raw.envs[e]) /\ raw.envs[e] \in Fields
    BY <1>2 DEF PdbValid, RawPdb, Sectioned
  <1>4. /\ replicas > 1 /\ Given(b.min_available) /\ ~b.min_available.percent
              => b.min_available.n < replicas
        /\ b.max_unavailable # [percent |-> FALSE, n |-> 0]
    BY <1>1, <1>2 DEF PdbValid
  <1>5. ASSUME NEW t \in Fields, PdbFieldsValid(t), PdbTable(t).budget # None
        PROVE  Sound(PdbTable(t).budget)
    <2>1. Given(t.min_available) \/ Given(t.max_unavailable)
      BY <1>5 DEF PdbTable
    <2>2. PdbTable(t).budget = [min_available |-> t.min_available,
                                max_unavailable |-> t.max_unavailable]
      BY <2>1 DEF PdbTable
    <2>3. \A v \in {t.min_available, t.max_unavailable} \ {None} : v \in RawCount /\ v.n >= 0
      BY <1>5 DEF PdbFieldsValid, IntOrPercent, Maybe
    <2> QED BY <2>2, <2>3
  <1>6. Sound(OneAtATime)
    <2>1. OneAtATime.max_unavailable = [percent |-> FALSE, n |-> 1]
          /\ OneAtATime.min_available = None
          /\ DOMAIN OneAtATime = {"min_available", "max_unavailable"}
      BY DEF OneAtATime
    <2>2. [percent |-> FALSE, n |-> 1] \in RawCount
      BY DEF RawCount
    <2>3. \A v \in {OneAtATime.min_available, OneAtATime.max_unavailable} \ {None} :
             v = [percent |-> FALSE, n |-> 1]
      BY <2>1
    <2>4. [percent |-> FALSE, n |-> 1].n >= 0
      OBVIOUS
    <2> HIDE DEF OneAtATime
    <2> QED BY <2>1, <2>2, <2>3, <2>4
  <1>7. \/ Pdb(raw, env).budget = PdbTable(raw.base).budget
        \/ env \in DOMAIN raw.envs /\ Pdb(raw, env).budget = PdbTable(raw.envs[env]).budget
    BY DEF Pdb, Merge, PdbTable, Or
  <1> HIDE DEF Fields, Sound
  <1>8. Sound(b)
    BY <1>1, <1>3, <1>5, <1>6, <1>7 DEF Or
  <1> QED BY <1>4, <1>8 DEF Sound

\* The check of a budget achieves what it is for where the budget is a count
\* and the chart never runs fewer pods than the replicas it is checked for;
\* percentages and an autoscaler that begins below them get past it.
THEOREM BudgetsLetGo == ChartSpec => []EvictionByReplicas
  <1>1. ChartIInv => EvictionByReplicas
    <2> SUFFICES ASSUME ChartIInv, NEW env \in Environments, Loads[manifest][env],
                        NEW values, values = PlanValues(PlanOf[manifest][env]),
                        pdb(values) # None, CountsPods(pdb(values)),
                        values.leaf.replicaCount \in 2 .. minReplicas(values)
                 PROVE  LetsGo(pdb(values), minReplicas(values))
      BY DEF EvictionByReplicas, ValidIn
    <2> DEFINE m == Manifests[manifest]
               p == PlanFor(m, env)
               b == resolve_pdb(m.pdb, env)
               pods == minReplicas(values)
               rendered == pdb(values)
    <2>1. manifest \in DOMAIN Manifests
      BY DEF ChartIInv
    <2>2. values = PlanValues(p) /\ PlanValid(m, env)
      BY <2>1 DEF PlanOf, Loads, Scopes
    <2>3. RawConfig(m) /\ env # None /\ EnvName(env) = env
      <3>1. RawConfig(m)
        BY <2>1, ManifestsAssumption
      <3>2. env # None
        BY RequestsAssumption
      <3> QED BY <3>1, <3>2 DEF EnvName, Or
    <2> HIDE DEF m
    <2>4. p.pod.pdb = b /\ p.replicas = DeployKey(m, env, "replicas")
      BY <2>3 DEF PlanFor, PodSettings, WorkloadContext
    <2>5. PdbValid(m.pdb, env, p.replicas) /\ (m.pdb # None => RawPdb(m.pdb))
      BY <2>2, <2>3, <2>4 DEF PlanValid, ScopedSectionsValid, RawConfig, Given
    <2> HIDE DEF p
    <2>6. /\ values.leaf.pdbEnabled = (b # None) /\ values.leaf.replicaCount = p.replicas
          /\ values.map.podDisruptionBudget = IF b = None THEN NoEntries ELSE Present(b)
      BY <2>2, <2>4, BudgetOfPlan
    <2>7. b # None /\ values.map.podDisruptionBudget = Present(b)
      BY <2>6 DEF pdb
    <2>8. p.replicas \in Nat /\ p.replicas > 1 /\ p.replicas <= pods /\ pods \in Int
      <3>1. p.replicas \in 2 .. pods
        BY <2>6
      <3>2. pods \in Int
        <4>1. CASE ~values.leaf.autoscalingEnabled
          BY <2>6, <3>1, <4>1 DEF minReplicas
        <4>2. CASE values.leaf.autoscalingEnabled
          <5>1. HasAutoscale(p) /\ pods = p.workload.autoscale.min_replicas
            BY <2>2, <4>2, RangeOfPlan DEF minReplicas
          <5>2. p.workload.autoscale.min_replicas \in Int
            BY <2>2, <5>1, RangeIsChecked DEF p
          <5> QED BY <5>1, <5>2
        <4> QED BY <4>1, <4>2
      <3> QED BY <3>1, <3>2
    <2>9. /\ DOMAIN b = {"min_available", "max_unavailable"}
          /\ \A v \in {b.min_available, b.max_unavailable} \ {None} : v \in RawCount /\ v.n >= 0
          /\ p.replicas > 1 /\ Given(b.min_available) /\ ~b.min_available.percent
                => b.min_available.n < p.replicas
          /\ b.max_unavailable # [percent |-> FALSE, n |-> 0]
      BY <2>5, <2>7, <2>8, BudgetIsChecked
    <2> HIDE DEF b, pods
    <2>10. /\ rendered.min_available = (IF b.min_available # None THEN b.min_available ELSE None)
           /\ rendered.max_unavailable = IF b.max_unavailable # None THEN b.max_unavailable
                                         ELSE [percent |-> FALSE, n |-> 1]
      <3>1. DOMAIN Present(b) = {key \in {"min_available", "max_unavailable"} : b[key] # None}
            /\ \A key \in DOMAIN Present(b) : Present(b)[key] = b[key]
        BY <2>9 DEF Present, Given
      <3> QED BY <2>7, <3>1 DEF pdb
    <2> HIDE DEF rendered
    <2>11. ASSUME Given(rendered.min_available) PROVE LetsGo(rendered, pods)
      <3>1. rendered.min_available = b.min_available /\ Given(b.min_available)
        BY <2>10, <2>11 DEF Given
      <3>2. ~b.min_available.percent
        BY <2>11, <3>1 DEF CountsPods, rendered, Given
      <3>3. b.min_available.n \in Int /\ b.min_available.n < p.replicas
        BY <2>8, <2>9, <3>1, <3>2 DEF RawCount, Given
      <3>4. b.min_available.n < pods
        BY <2>8, <3>3
      <3> QED BY <2>11, <3>1, <3>2, <3>4 DEF LetsGo
    <2>12. ASSUME ~Given(rendered.min_available) PROVE LetsGo(rendered, pods)
      <3>1. rendered.max_unavailable.n > 0
        <4>1. CASE b.max_unavailable = None
          BY <2>10, <4>1
        <4>2. CASE b.max_unavailable # None
          <5>1. /\ rendered.max_unavailable = b.max_unavailable
                /\ b.max_unavailable \in RawCount /\ b.max_unavailable.n >= 0
            BY <2>9, <2>10, <4>2
          <5>2. ~b.max_unavailable.percent
            BY <4>2, <5>1 DEF CountsPods, rendered
          <5>3. b.max_unavailable.n # 0
            BY <2>9, <5>1, <5>2 DEF RawCount
          <5> QED BY <5>1, <5>3 DEF RawCount
        <4> QED BY <4>1, <4>2
      <3> QED BY <2>12, <3>1 DEF LetsGo
    <2> QED BY <2>11, <2>12 DEF rendered, pods
  <1> QED BY <1>1, ChartHolds, PTL

---------------------------------------------------------------------------
(* `service new': what a scaffold leaves when it says it has created one.  *)

BothCrates == {"server", "client-rust"}

\* The first n writes of a command into a directory that was not there: what
\* the directory holds, and what is left to write.
Course(c, n, log) ==
    /\ log[0] = [dir |-> Unset, left |-> Writes(c)]
    /\ \A i \in 1 .. n : LET was == log[i - 1] IN
          /\ was.left # <<>>
          /\ log[i] = [dir |-> Changed(was.dir, Head(was.left)), left |-> Tail(was.left)]

\* So far the writes of a command lead to a directory.
Leads(c, dir, left) ==
    \E n \in Nat : \E log : Course(c, n, log) /\ log[n] = [dir |-> dir, left |-> left]

\* The directory all of them lead to.
Whole(c) == CHOOSE dir : Leads(c, dir, <<>>)

ScaffoldIInv ==
    /\ scaffolding = "running" => Leads(command, directory, steps)
    /\ scaffolding = "created" => Leads(command, directory, <<>>) /\ printed = NextSteps(command)
    /\ enclosing \in [workspace : {"none", "list", "no list"}, members : {{}, BothCrates}]

LEMMA CourseBegins ==
    ASSUME NEW c
    PROVE  Leads(c, Unset, Writes(c))
  <1> DEFINE log == [i \in {0} |-> [dir |-> Unset, left |-> Writes(c)]]
  <1>1. Course(c, 0, log)
    BY DEF Course
  <1>2. log[0] = [dir |-> Unset, left |-> Writes(c)]
    OBVIOUS
  <1> HIDE DEF log
  <1> QED BY <1>1, <1>2 DEF Leads

LEMMA CourseGoesOn ==
    ASSUME NEW c, NEW dir, NEW left, Leads(c, dir, left), left # <<>>
    PROVE  Leads(c, Changed(dir, Head(left)), Tail(left))
  <1>0. PICK n \in Nat : \E log : Course(c, n, log) /\ log[n] = [dir |-> dir, left |-> left]
    BY DEF Leads
  <1>1. PICK log : Course(c, n, log) /\ log[n] = [dir |-> dir, left |-> left]
    BY <1>0
  <1> DEFINE next == [dir |-> Changed(dir, Head(left)), left |-> Tail(left)]
             longer == [i \in 0 .. n + 1 |-> IF i = n + 1 THEN next ELSE log[i]]
  <1>2. longer[n + 1] = next /\ \A i \in 0 .. n : longer[i] = log[i]
    OBVIOUS
  <1>3. log[n].dir = dir /\ log[n].left = left
    BY <1>1
  <1> HIDE DEF longer
  <1>4. Course(c, n + 1, longer)
    <2>1. longer[0] = log[0]
      BY <1>2
    <2>2. ASSUME NEW i \in 1 .. n + 1
          PROVE  /\ longer[i - 1].left # <<>>
                 /\ longer[i] = [dir |-> Changed(longer[i - 1].dir, Head(longer[i - 1].left)),
                                 left |-> Tail(longer[i - 1].left)]
      <3>1. CASE i = n + 1
        <4>1. longer[i - 1] = log[n] /\ longer[i] = next
          BY <1>2, <3>1
        <4> QED BY <1>3, <4>1
      <3>2. CASE i # n + 1
        <4>1. i \in 1 .. n /\ longer[i - 1] = log[i - 1] /\ longer[i] = log[i]
          BY <1>2, <3>2
        <4> QED BY <1>1, <4>1 DEF Course
      <3> QED BY <3>1, <3>2
    <2> HIDE DEF next
    <2> QED BY <1>1, <2>1, <2>2 DEF Course
  <1> QED BY <1>2, <1>4 DEF Leads

\* The writes of a command lead to one directory.
LEMMA CourseEnds ==
    ASSUME NEW c, NEW dir, Leads(c, dir, <<>>)
    PROVE  dir = Whole(c)
  <1> SUFFICES ASSUME NEW a, NEW b, Leads(c, a, <<>>), Leads(c, b, <<>>) PROVE a = b
    BY DEF Whole
  <1>a. PICK n \in Nat : \E log : Course(c, n, log) /\ log[n] = [dir |-> a, left |-> <<>>]
    BY DEF Leads
  <1>b. PICK m \in Nat : \E log : Course(c, m, log) /\ log[m] = [dir |-> b, left |-> <<>>]
    BY DEF Leads
  <1>1. PICK log : Course(c, n, log) /\ log[n] = [dir |-> a, left |-> <<>>]
    BY <1>a
  <1>2. PICK other : Course(c, m, other) /\ other[m] = [dir |-> b, left |-> <<>>]
    BY <1>b
  <1> DEFINE P == {k \in Nat : k <= n /\ k <= m => log[k] = other[k]}
  <1>3. 0 \in P
    BY <1>1, <1>2 DEF Course
  <1>4. ASSUME NEW k \in Nat, k \in P PROVE k + 1 \in P
    <2> SUFFICES ASSUME k + 1 <= n, k + 1 <= m PROVE log[k + 1] = other[k + 1]
      OBVIOUS
    <2>1. k + 1 \in 1 .. n /\ k + 1 \in 1 .. m /\ (k + 1) - 1 = k
      OBVIOUS
    <2>2. log[k] = other[k]
      BY <1>4
    <2>3. log[k + 1] = [dir |-> Changed(log[k].dir, Head(log[k].left)), left |-> Tail(log[k].left)]
      BY <1>1, <2>1 DEF Course
    <2>4. other[k + 1] = [dir |-> Changed(other[k].dir, Head(other[k].left)),
                          left |-> Tail(other[k].left)]
      BY <1>2, <2>1 DEF Course
    <2> QED BY <2>2, <2>3, <2>4
  <1> HIDE DEF P
  <1>5. Nat \subseteq P
    BY <1>3, <1>4, SetInduction
  <1>6. \A k \in Nat : k <= n /\ k <= m => log[k] = other[k]
    BY <1>5 DEF P
  <1>7. ~(n < m)
    <2> SUFFICES ASSUME n < m PROVE FALSE
      OBVIOUS
    <2>1. n + 1 \in 1 .. m /\ (n + 1) - 1 = n /\ other[n] = log[n]
      BY <1>6
    <2>2. other[n].left # <<>>
      BY <1>2, <2>1 DEF Course
    <2> QED BY <1>1, <2>1, <2>2
  <1>8. ~(m < n)
    <2> SUFFICES ASSUME m < n PROVE FALSE
      OBVIOUS
    <2>1. m + 1 \in 1 .. n /\ (m + 1) - 1 = m /\ other[m] = log[m]
      BY <1>6
    <2>2. log[m].left # <<>>
      BY <1>1, <2>1 DEF Course
    <2> QED BY <1>2, <2>1, <2>2
  <1>9. n = m /\ log[n] = other[n]
    BY <1>6, <1>7, <1>8
  <1> QED BY <1>1, <1>2, <1>9

LEMMA ScaffoldBegins == ScaffoldInit => ScaffoldIInv
  BY DEF ScaffoldInit, ScaffoldIInv

\* An accepted command finds no directory, whatever was tried before it.
LEMMA AcceptedAfresh ==
    ASSUME ScaffoldIInv, NEW c \in Commands, NewService(c)
    PROVE  ScaffoldIInv'
  <1>1. CASE Accepted(c)
    <2>1. directory' = Unset /\ steps' = Writes(c) /\ command' = c /\ scaffolding' = "running"
      BY <1>1 DEF NewService, Accepted, Exists
    <2>2. Leads(command', directory', steps')
      BY <2>1, CourseBegins
    <2> QED BY <2>1, <2>2 DEF ScaffoldIInv, NewService
  <1>2. CASE ~Accepted(c)
    BY <1>2 DEF NewService, ScaffoldIInv
  <1> QED BY <1>1, <1>2

\* Joining a workspace changes nothing in the directory.
LEMMA JoinElsewhere ==
    ASSUME NEW dir, NEW step, step.do = "join"
    PROVE  Changed(dir, step) = dir
  BY DEF Changed

LEMMA JoinedOrNot ==
    ASSUME ScaffoldIInv, maybe_add_to_workspace
    PROVE  ScaffoldIInv'
  <1>1. Leads(command, directory, steps) /\ steps # <<>>
    BY DEF maybe_add_to_workspace, ScaffoldIInv
  <1>2. Leads(command, directory, Tail(steps))
    BY <1>1, CourseGoesOn, JoinElsewhere DEF maybe_add_to_workspace
  <1>3. enclosing' \in [workspace : {"none", "list", "no list"}, members : {{}, BothCrates}]
    BY DEF maybe_add_to_workspace, ScaffoldIInv, BothCrates
  <1>4. CASE scaffolding' = "failed"
    BY <1>3, <1>4 DEF ScaffoldIInv
  <1>5. CASE scaffolding' # "failed"
    <2>1. steps' = Tail(steps) /\ scaffolding' = "running" /\ command' = command /\ directory' = directory
      BY <1>5 DEF maybe_add_to_workspace
    <2> QED BY <1>2, <1>3, <2>1 DEF ScaffoldIInv
  <1> QED BY <1>4, <1>5

LEMMA ScaffoldStep == ScaffoldIInv /\ [ScaffoldNext]_scaffoldVars => ScaffoldIInv'
  <1> SUFFICES ASSUME ScaffoldIInv, [ScaffoldNext]_scaffoldVars PROVE ScaffoldIInv'
    OBVIOUS
  <1>1. CASE \E c \in Commands : NewService(c)
    BY <1>1, AcceptedAfresh
  <1>2. CASE WriteNext
    <2>1. Leads(command, directory, steps) /\ steps # <<>>
      BY <1>2 DEF WriteNext, ScaffoldIInv
    <2>2. Leads(command, Changed(directory, Head(steps)), Tail(steps))
      BY <2>1, CourseGoesOn
    <2>3. /\ command' = command /\ directory' = Changed(directory, Head(steps)) /\ steps' = Tail(steps)
          /\ scaffolding' = "running" /\ enclosing' = enclosing
      BY <1>2 DEF WriteNext
    <2> QED BY <2>2, <2>3 DEF ScaffoldIInv
  <1>3. CASE maybe_add_to_workspace
    BY <1>3, JoinedOrNot
  <1>4. CASE StepFails
    BY <1>4 DEF StepFails, ScaffoldIInv
  <1>5. CASE Created
    <2>1. /\ command' = command /\ directory' = directory /\ enclosing' = enclosing
          /\ scaffolding' = "created" /\ steps = <<>> /\ printed' = NextSteps(command)
      BY <1>5 DEF Created
    <2>2. Leads(command, directory, <<>>)
      BY <1>5, <2>1 DEF Created, ScaffoldIInv
    <2> QED BY <2>1, <2>2 DEF ScaffoldIInv
  <1>6. CASE ScaffoldKilled
    BY <1>6 DEF ScaffoldKilled, ScaffoldIInv
  <1>7. CASE RemoveService
    BY <1>7 DEF RemoveService, ScaffoldIInv
  <1>8. CASE UNCHANGED scaffoldVars
    <2>1. /\ command' = command /\ directory' = directory /\ enclosing' = enclosing
          /\ steps' = steps /\ scaffolding' = scaffolding /\ printed' = printed
      BY <1>8 DEF scaffoldVars
    <2> QED BY <2>1 DEF ScaffoldIInv
  <1> QED BY <1>1, <1>2, <1>3, <1>4, <1>5, <1>6, <1>7, <1>8 DEF ScaffoldNext

\* A service that was created is what one undisturbed run of its command
\* writes, and the message is that command's: nothing remains of the attempts
\* that were refused, failed, killed and deleted before it.  The workspace
\* around it has both crates as members or neither.
CreatedIsWhole ==
    /\ scaffolding = "created" => directory = Whole(command) /\ printed = NextSteps(command)
    /\ enclosing.members \in {{}, BothCrates}

THEOREM ScaffoldsAlike == ScaffoldSpec => []CreatedIsWhole
  <1>1. ScaffoldIInv => CreatedIsWhole
    BY CourseEnds DEF ScaffoldIInv, CreatedIsWhole
  <1> QED BY <1>1, ScaffoldBegins, ScaffoldStep, PTL DEF ScaffoldSpec
===========================================================================
