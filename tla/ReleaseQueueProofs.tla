------------------------- MODULE ReleaseQueueProofs -------------------------
(***************************************************************************)
(* The release queue keeps its entries and its order, for any number of    *)
(* runs and attempts, merges by hand and failed steps.                     *)
(***************************************************************************)
EXTENDS ReleaseQueue, SequenceTheorems, TLAPS

Job == [pc : Active \cup {"idle", "done", "failed"}, attempt : 0..MaxAttempts,
        mode : Modes, base : Seq(Entries), head : Nat, merged : BOOLEAN]

-----------------------------------------------------------------------------
(* The file.                                                               *)

Distinct(s) == \A i, j \in DOMAIN s : s[i] = s[j] => i = j

\* The file holds each entry once, and none that was taken out.
FileOK ==
  /\ file \in Seq(Entries) /\ head \in Nat /\ taken \subseteq Entries
  /\ Distinct(file) /\ PromotedStaysOut

LEMMA AppendKeeps ==
  ASSUME FileOK, NEW e \in Entries, ~Queued(e), Commit(Append(file, e)), taken' = taken
  PROVE  /\ FileOK' /\ IsPrefix(file, file')
         /\ \A x : Queued(x)' <=> Queued(x) \/ x = e
         /\ head' = head + 1
<1>1. /\ file \in Seq(Entries) /\ Len(file) \in Nat /\ DOMAIN file = 1..Len(file)
      /\ file' = Append(file, e) /\ head' = head + 1
  BY DEF FileOK, Commit
<1>2. /\ file' \in Seq(Entries) /\ Len(file') = Len(file) + 1
      /\ DOMAIN file' = 1..(Len(file) + 1)
      /\ \A i \in 1..Len(file) : file'[i] = file[i]
      /\ file'[Len(file) + 1] = e
  BY <1>1
<1>3. e \notin taken /\ \A i \in DOMAIN file : file[i] # e
  BY DEF Queued
<1>4. Distinct(file')
  BY <1>1, <1>2, <1>3 DEF FileOK, Distinct
<1>5. PromotedStaysOut'
  BY <1>1, <1>2, <1>3 DEF FileOK, PromotedStaysOut
<1>6. IsPrefix(file, file')
  BY <1>1, <1>2 DEF IsPrefix
<1>7. ASSUME NEW x PROVE Queued(x)' <=> Queued(x) \/ x = e
  <2>1. (\E i \in DOMAIN file' : file'[i] = x) <=> (\E i \in DOMAIN file : file[i] = x) \/ x = e
    BY <1>1, <1>2
  <2> QED
    BY <2>1 DEF Queued
<1> QED
  BY <1>1, <1>2, <1>4, <1>5, <1>6, <1>7 DEF FileOK

\* What is left of a sequence without its i-th element.
LEMMA Removed ==
  ASSUME NEW S, NEW s \in Seq(S), NEW i \in 1..Len(s)
  PROVE  /\ RemoveAt(s, i) \in Seq(S) /\ Len(RemoveAt(s, i)) = Len(s) - 1
         /\ \A k \in 1..(i - 1) : RemoveAt(s, i)[k] = s[k]
         /\ \A k \in i..(Len(s) - 1) : RemoveAt(s, i)[k] = s[k + 1]
<1> DEFINE front == SubSeq(s, 1, i - 1)
           back == SubSeq(s, i + 1, Len(s))
<1>1. Len(s) \in Nat /\ i \in Int /\ \A k \in 1..Len(s) : s[k] \in S
  OBVIOUS
<1>2. /\ front \in Seq(S) /\ Len(front) = i - 1
      /\ \A k \in 1..(i - 1) : front[k] = s[k]
  <2>1. \A k \in 1..(i - 1) : s[k] \in S
    BY <1>1
  <2>2. /\ front \in Seq(S) /\ Len(front) = IF 1 <= i - 1 THEN (i - 1) - 1 + 1 ELSE 0
        /\ \A k \in 1..((i - 1) - 1 + 1) : front[k] = s[1 + k - 1]
    BY <1>1, <2>1, SubSeqProperties
  <2> HIDE DEF front
  <2> QED
    BY <1>1, <2>2
<1>3. /\ back \in Seq(S) /\ Len(back) = Len(s) - i
      /\ \A k \in 1..(Len(s) - i) : back[k] = s[i + k]
  <2>1. \A k \in (i + 1)..Len(s) : s[k] \in S
    BY <1>1
  <2>2. /\ back \in Seq(S)
        /\ Len(back) = IF i + 1 <= Len(s) THEN Len(s) - (i + 1) + 1 ELSE 0
        /\ \A k \in 1..(Len(s) - (i + 1) + 1) : back[k] = s[i + 1 + k - 1]
    BY <1>1, <2>1, SubSeqProperties
  <2> HIDE DEF back
  <2> QED
    BY <1>1, <2>2
<1>4. RemoveAt(s, i) = front \o back
  BY DEF RemoveAt
<1> HIDE DEF front, back
<1>5. /\ front \o back \in Seq(S) /\ Len(front \o back) = (i - 1) + (Len(s) - i)
      /\ \A k \in 1..((i - 1) + (Len(s) - i)) :
           (front \o back)[k] = IF k <= i - 1 THEN front[k] ELSE back[k - (i - 1)]
  <2>1. front \in Seq(S) /\ back \in Seq(S)
    BY <1>2, <1>3
  <2>2. /\ front \o back \in Seq(S) /\ Len(front \o back) = Len(front) + Len(back)
        /\ \A k \in 1..(Len(front) + Len(back)) :
             (front \o back)[k] = IF k <= Len(front) THEN front[k] ELSE back[k - Len(front)]
    BY <2>1, ConcatProperties
  <2> QED
    BY <1>2, <1>3, <2>2
<1>6. ASSUME NEW k \in 1..(i - 1) PROVE (front \o back)[k] = s[k]
  <2>1. k <= i - 1 /\ k \in 1..((i - 1) + (Len(s) - i))
    BY <1>1
  <2>2. (front \o back)[k] = front[k]
    BY <1>5, <2>1
  <2> QED
    BY <1>2, <2>2
<1>7. ASSUME NEW k \in i..(Len(s) - 1) PROVE (front \o back)[k] = s[k + 1]
  <2>1. (front \o back)[k] = back[k - (i - 1)] /\ k - (i - 1) \in 1..(Len(s) - i)
    BY <1>1, <1>5
  <2>2. back[k - (i - 1)] = s[i + (k - (i - 1))]
    BY <1>3, <2>1
  <2>3. i + (k - (i - 1)) = k + 1
    BY <1>1
  <2> QED
    BY <2>1, <2>2, <2>3
<1> QED
  BY <1>1, <1>4, <1>5, <1>6, <1>7

LEMMA PromoteKeeps ==
  ASSUME FileOK, Promote
  PROVE  /\ FileOK' /\ taken' # taken /\ head' = head + 1
         /\ \A x : Queued(x)' <=> Queued(x)
<1>1. PICK i \in DOMAIN file : Commit(RemoveAt(file, i)) /\ taken' = taken \cup {file[i]}
  BY DEF Promote
<1>2. /\ file \in Seq(Entries) /\ Len(file) \in Nat /\ DOMAIN file = 1..Len(file)
      /\ i \in 1..Len(file) /\ head' = head + 1 /\ file' = RemoveAt(file, i)
  BY <1>1 DEF FileOK, Commit
<1>3. /\ file' \in Seq(Entries) /\ Len(file') = Len(file) - 1
      /\ \A k \in 1..(i - 1) : file'[k] = file[k]
      /\ \A k \in i..(Len(file) - 1) : file'[k] = file[k + 1]
  BY <1>2, Removed
<1>5. DOMAIN file' = 1..(Len(file) - 1)
  BY <1>3
<1>6. /\ \A k \in 1..(i - 1) : file'[k] = file[k]
      /\ \A k \in i..(Len(file) - 1) : file'[k] = file[k + 1]
  BY <1>3
<1>7. \A k \in DOMAIN file' : \E l \in DOMAIN file : l # i /\ file'[k] = file[l]
  BY <1>2, <1>5, <1>6
<1>8. \A l \in DOMAIN file : l # i => \E k \in DOMAIN file' : file'[k] = file[l]
  <2> SUFFICES ASSUME NEW l \in DOMAIN file, l # i
               PROVE  \E k \in DOMAIN file' : file'[k] = file[l]
    OBVIOUS
  <2>1. CASE l < i
    <3>1. l \in DOMAIN file' /\ file'[l] = file[l]
      BY <1>2, <1>5, <1>6, <2>1
    <3> QED
      BY <3>1
  <2>2. CASE l > i
    <3>1. l - 1 \in DOMAIN file' /\ file'[l - 1] = file[l]
      BY <1>2, <1>5, <1>6, <2>2
    <3> QED
      BY <3>1
  <2> QED
    BY <1>2, <2>1, <2>2
<1>9. Distinct(file')
  <2> DEFINE Old(k) == IF k < i THEN k ELSE k + 1
  <2>1. \A k \in DOMAIN file' : Old(k) \in DOMAIN file /\ file'[k] = file[Old(k)]
    BY <1>2, <1>5, <1>6
  <2>2. \A k, l \in DOMAIN file' : Old(k) = Old(l) => k = l
    BY <1>2, <1>5
  <2> HIDE DEF Old
  <2> QED
    BY <2>1, <2>2 DEF FileOK, Distinct
<1>10. PromotedStaysOut'
  BY <1>1, <1>7 DEF FileOK, PromotedStaysOut, Distinct
<1>11. taken' # taken
  BY <1>1 DEF FileOK, PromotedStaysOut
<1>12. ASSUME NEW x PROVE Queued(x)' <=> Queued(x)
  BY <1>1, <1>7, <1>8 DEF Queued
<1>13. taken' \subseteq Entries
  BY <1>1, <1>2 DEF FileOK
<1> QED
  BY <1>2, <1>3, <1>5, <1>9, <1>10, <1>11, <1>12, <1>13 DEF FileOK

-----------------------------------------------------------------------------
(* The entries of the runs.                                                *)

\* What the job of the run says of its entry, in the attempt it is at.
CurrentOK(r, e) ==
  /\ job[r].pc \in {"clone", "push", "branch", "create"} => pr[e] = "none" /\ ~Queued(e)
  /\ job[r].pc = "create" =>
       /\ branch[<<r, 1>>] # None /\ branch[<<r, 1>>].entry = e
       /\ branch[<<r, 1>>].mergedAt = None
  /\ job[r].pc \in {"merge", "delete"} =>
       branch[<<r, 1>>] = None \/ branch[<<r, 1>>].entry = e
  /\ job[r].pc = "delete" => pr[e] = "merged"
  /\ job[r].merged => Queued(e)
  /\ job[r].pc = "done" /\ job[r].mode = "direct" => Queued(e)

\* The entry of an attempt to come is nowhere, that of an open pull request is what
\* the branch holds, and that of a merged one is in the queue or was taken out.
EntryOK(r, a) ==
  /\ job[r].attempt < a => pr[<<r, a>>] = "none" /\ ~Queued(<<r, a>>)
  /\ pr[<<r, a>>] = "open" =>
       /\ branch[<<r, 1>>] # None /\ branch[<<r, 1>>].entry = <<r, a>>
       /\ branch[<<r, 1>>].mergedAt = None /\ ~Queued(<<r, a>>)
  /\ pr[<<r, a>>] = "merged" => Queued(<<r, a>>)
  /\ job[r].attempt = a => CurrentOK(r, <<r, a>>)

JobOK(r) ==
  /\ job[r].pc \in {"branch", "create", "merge", "delete", "view"} => job[r].mode # "direct"
  /\ job[r].pc # "idle" \/ job[r].merged => job[r].attempt \in Attempts
  /\ job[r].head <= head
  /\ job[r].pc = "push" /\ job[r].head = head => job[r].base = file

TypesOK ==
  /\ branch \in [Entries -> Heads \cup {None}]
  /\ pr \in [Entries -> {"none", "open", "merged", "closed"}]
  /\ job \in [Runs -> Job]

IInv ==
  /\ FileOK /\ TypesOK
  /\ \A r \in Runs : JobOK(r) /\ \A a \in Attempts : EntryOK(r, a)

\* Only the job of r changes, and it becomes x.
JobBecomes(r, x) ==
  /\ job' \in [Runs -> Job] /\ job'[r] = x
  /\ \A q \in Runs : q # r => job'[q] = job[q]

LEMMA StepBecomes ==
  ASSUME job \in [Runs -> Job], NEW r \in Runs, NEW from, NEW to, Step(r, from, to),
         to \in Active \cup {"idle", "done", "failed"}
  PROVE  /\ JobBecomes(r, [job[r] EXCEPT !.pc = to]) /\ job[r].pc = from
         /\ job'[r].pc = to /\ job'[r].attempt = job[r].attempt
         /\ job'[r].mode = job[r].mode /\ job'[r].base = job[r].base
         /\ job'[r].head = job[r].head /\ job'[r].merged = job[r].merged
<1> DEFINE x == [job[r] EXCEPT !.pc = to]
<1>1. /\ x \in Job /\ x.pc = to /\ x.attempt = job[r].attempt
      /\ x.mode = job[r].mode /\ x.base = job[r].base
      /\ x.head = job[r].head /\ x.merged = job[r].merged
  BY DEF Job
<1>2. job' = [job EXCEPT ![r] = x] /\ job[r].pc = from
  BY DEF Step
<1> HIDE DEF x
<1>3. JobBecomes(r, x)
  BY <1>1, <1>2 DEF JobBecomes
<1>4. job'[r] = x
  BY <1>3 DEF JobBecomes
<1> QED
  BY <1>1, <1>2, <1>3, <1>4 DEF x

LEMMA FirstEntry == \A r \in Runs : <<r, 1>> \in Entries /\ 1 \in Attempts
  BY ReleaseAssumption DEF Entries, Attempts

LEMMA EntryIsEntry == \A r \in Runs, a \in Attempts : <<r, a>> \in Entries
  BY DEF Entries

\* The other runs do not notice a step that leaves their branch and their pull
\* requests alone.
LEMMA OthersKeep ==
  ASSUME IInv, NEW q \in Runs, job'[q] = job[q], branch'[<<q, 1>>] = branch[<<q, 1>>],
         \A a \in Attempts : pr'[<<q, a>>] = pr[<<q, a>>],
         \A a \in Attempts : Queued(<<q, a>>)' <=> Queued(<<q, a>>),
         (head' = head /\ file' = file) \/ head' = head + 1
  PROVE  JobOK(q)' /\ \A a \in Attempts : EntryOK(q, a)'
<1>1. /\ JobOK(q) /\ head \in Nat /\ job[q].head \in Nat
      /\ \A a \in Attempts : EntryOK(q, a)
  BY DEF IInv, FileOK, TypesOK, Job
<1>2. JobOK(q)'
  BY <1>1 DEF JobOK
<1>3. ASSUME NEW a \in Attempts PROVE EntryOK(q, a)'
  <2>1. EntryOK(q, a) /\ pr'[<<q, a>>] = pr[<<q, a>>]
        /\ (Queued(<<q, a>>)' <=> Queued(<<q, a>>))
    BY <1>1
  <2> QED
    BY <2>1 DEF EntryOK, CurrentOK
<1> QED
  BY <1>2, <1>3


\* A step about one run: the invariant is left to show for that run.
LEMMA OneRun ==
  ASSUME IInv, NEW r \in Runs,
         \A q \in Runs : q # r => job'[q] = job[q],
         \A q \in Runs : q # r => branch'[<<q, 1>>] = branch[<<q, 1>>],
         \A q \in Runs, a \in Attempts : q # r => pr'[<<q, a>>] = pr[<<q, a>>],
         \A q \in Runs, a \in Attempts : q # r => (Queued(<<q, a>>)' <=> Queued(<<q, a>>)),
         (head' = head /\ file' = file) \/ head' = head + 1,
         FileOK', TypesOK', JobOK(r)', \A a \in Attempts : EntryOK(r, a)'
  PROVE  IInv'
<1>1. \A q \in Runs : q # r => JobOK(q)' /\ \A a \in Attempts : EntryOK(q, a)'
  BY OthersKeep
<1> QED
  BY <1>1 DEF IInv

\* Nothing outside the job changes.
LEMMA JobOnly ==
  ASSUME FileOK, UNCHANGED <<file, head, taken>>
  PROVE  FileOK' /\ \A x : Queued(x)' <=> Queued(x)
<1>1. file' = file /\ head' = head /\ taken' = taken
  OBVIOUS
<1> QED
  BY <1>1 DEF FileOK, PromotedStaysOut, Queued

LEMMA StartIInv ==
  ASSUME IInv, NEW r \in Runs, Start(r) PROVE IInv'
<1> DEFINE x == [job[r] EXCEPT !.pc = "clone", !.attempt = job[r].attempt + 1,
                               !.merged = FALSE]
<1>1. /\ UNCHANGED <<file, head, taken, branch, pr>> /\ TypesOK /\ FileOK
      /\ job[r].attempt < MaxAttempts /\ job' = [job EXCEPT ![r] = x]
  BY DEF Start, IInv
<1>2. job[r] \in Job /\ MaxAttempts \in Nat /\ job[r].attempt \in Nat
      /\ job[r].attempt + 1 \in 0..MaxAttempts
  BY <1>1, ReleaseAssumption DEF TypesOK, Job
<1>3. /\ x \in Job /\ x.pc = "clone" /\ x.attempt = job[r].attempt + 1 /\ x.merged = FALSE
      /\ x.head = job[r].head
  BY <1>1, <1>2 DEF Job, Active
<1> HIDE DEF x
<1>4. job' \in [Runs -> Job] /\ job'[r] = x /\ \A q \in Runs : q # r => job'[q] = job[q]
  BY <1>1, <1>3 DEF TypesOK
<1>5. FileOK' /\ \A y : Queued(y)' <=> Queued(y)
  BY <1>1, JobOnly
<1>6. TypesOK'
  BY <1>1, <1>4 DEF TypesOK
<1>7. JobOK(r)'
  BY <1>1, <1>2, <1>3, <1>4 DEF JobOK, IInv, Attempts
<1>8. ASSUME NEW a \in Attempts PROVE EntryOK(r, a)'
  <2>1. EntryOK(r, a) /\ a \in Int
    BY DEF IInv, Attempts
  <2>2. job[r].attempt + 1 <= a => job[r].attempt < a
    BY <1>2, <2>1
  <2>3. job'[r].attempt < a => job[r].attempt < a
    BY <1>2, <1>3, <1>4, <2>1
  <2>4. job'[r].attempt = a => job[r].attempt < a
    BY <1>2, <1>3, <1>4, <2>1
  <2> QED
    BY <1>1, <1>3, <1>4, <1>5, <2>1, <2>3, <2>4 DEF EntryOK, CurrentOK
<1> QED
  BY <1>1, <1>4, <1>5, <1>6, <1>7, <1>8, OneRun

LEMMA CloneIInv ==
  ASSUME IInv, NEW r \in Runs, Clone(r) PROVE IInv'
<1> DEFINE to == IF job[r].mode = "direct" THEN "push" ELSE "branch"
           x == [job[r] EXCEPT !.pc = to, !.base = file, !.head = head]
<1>1. /\ UNCHANGED <<file, head, taken, branch, pr>> /\ TypesOK /\ FileOK
      /\ job[r].pc = "clone" /\ job' = [job EXCEPT ![r] = x]
  BY DEF Clone, IInv
<1>2. job[r] \in Job /\ file \in Seq(Entries) /\ head \in Nat
  BY <1>1 DEF TypesOK, FileOK
<1>3. /\ x \in Job /\ x.pc = to /\ x.attempt = job[r].attempt /\ x.merged = job[r].merged
      /\ x.mode = job[r].mode /\ x.base = file /\ x.head = head
  BY <1>2 DEF Job, Active
<1>4. to \in {"push", "branch"} /\ (to = "branch" => job[r].mode # "direct")
  OBVIOUS
<1> HIDE DEF x, to
<1>5. job' \in [Runs -> Job] /\ job'[r] = x /\ \A q \in Runs : q # r => job'[q] = job[q]
  BY <1>1, <1>3 DEF TypesOK
<1>6. FileOK' /\ \A y : Queued(y)' <=> Queued(y)
  BY <1>1, JobOnly
<1>7. TypesOK'
  BY <1>1, <1>5 DEF TypesOK
<1>8. JobOK(r)'
  BY <1>1, <1>2, <1>3, <1>4, <1>5 DEF JobOK, IInv
<1>9. ASSUME NEW a \in Attempts PROVE EntryOK(r, a)'
  <2>1. EntryOK(r, a)
    BY DEF IInv
  <2> QED
    BY <1>1, <1>3, <1>4, <1>5, <1>6, <2>1 DEF EntryOK, CurrentOK
<1> QED
  BY <1>1, <1>5, <1>6, <1>7, <1>8, <1>9, OneRun

\* The jobs that stop where they are, go on with what is done already, or read.
LEMMA QuietIInv ==
  ASSUME IInv, NEW r \in Runs, Stop(r) \/ MergePrAgain(r) \/ View(r) PROVE IInv'
<1>1. UNCHANGED <<file, head, taken, branch, pr>> /\ TypesOK /\ FileOK
  BY DEF Stop, MergePrAgain, View, IInv
<1>2. PICK from, to \in Active \cup {"idle", "done", "failed"} :
        /\ Step(r, from, to)
        /\ \/ to = "failed"
           \/ from = "view" /\ to = "done"
           \/ from = "merge" /\ to = "delete" /\ pr[Entry(r)] = "merged"
        /\ from \in Active
  BY DEF Stop, MergePrAgain, View, Active
<1>3. /\ JobBecomes(r, [job[r] EXCEPT !.pc = to]) /\ job[r].pc = from
      /\ job'[r].pc = to /\ job'[r].attempt = job[r].attempt
      /\ job'[r].mode = job[r].mode /\ job'[r].base = job[r].base
      /\ job'[r].head = job[r].head /\ job'[r].merged = job[r].merged
  BY <1>1, <1>2, StepBecomes DEF TypesOK
<1>4. FileOK' /\ \A x : Queued(x)' <=> Queued(x)
  BY <1>1, JobOnly
<1>5. TypesOK' /\ \A q \in Runs : q # r => job'[q] = job[q]
  BY <1>1, <1>3 DEF TypesOK, JobBecomes
<1>6. JobOK(r)'
  BY <1>1, <1>2, <1>3 DEF IInv, JobOK, Active
<1>7. ASSUME NEW a \in Attempts PROVE EntryOK(r, a)'
  <2>1. EntryOK(r, a) /\ JobOK(r)
    BY DEF IInv
  <2> QED
    BY <1>1, <1>2, <1>3, <1>4, <2>1 DEF EntryOK, CurrentOK, JobOK, Entry
<1> QED
  BY <1>1, <1>4, <1>5, <1>6, <1>7, OneRun

-----------------------------------------------------------------------------
(* The steps that write.                                                   *)

LEMMA PushMainIInv ==
  ASSUME IInv, NEW r \in Runs, PushMain(r) PROVE IInv' /\ IsPrefix(file, file')
<1> DEFINE e == Entry(r)
<1>1. /\ head = job[r].head /\ job[r].pc = "push"
      /\ Commit(Append(job[r].base, e)) /\ UNCHANGED <<taken, branch, pr>>
      /\ TypesOK /\ FileOK /\ JobOK(r)
  BY DEF PushMain, StepOrFail, Step, IInv
<1>2. PICK pc \in {"done", "failed"} : Step(r, "push", pc)
  BY DEF PushMain, StepOrFail
<1>3. /\ JobBecomes(r, [job[r] EXCEPT !.pc = pc])
      /\ job'[r].pc = pc /\ job'[r].attempt = job[r].attempt
      /\ job'[r].mode = job[r].mode /\ job'[r].base = job[r].base
      /\ job'[r].head = job[r].head /\ job'[r].merged = job[r].merged
  BY <1>1, <1>2, StepBecomes DEF TypesOK
<1>4. job[r].attempt \in Attempts /\ job[r].base = file /\ job[r].head \in Nat /\ head \in Nat
  BY <1>1 DEF JobOK, TypesOK, Job, FileOK
<1>5. e = <<r, job[r].attempt>> /\ e \in Entries
  BY <1>4, EntryIsEntry DEF Entry
<1>6. EntryOK(r, job[r].attempt)
  BY <1>4 DEF IInv
<1>7. pr[e] = "none" /\ ~Queued(e)
  BY <1>1, <1>5, <1>6 DEF EntryOK, CurrentOK
<1> HIDE DEF e
<1>8. /\ FileOK' /\ IsPrefix(file, file') /\ head' = head + 1
      /\ \A x : Queued(x)' <=> Queued(x) \/ x = e
  BY <1>1, <1>4, <1>5, <1>7, AppendKeeps
<1>9. TypesOK' /\ \A q \in Runs : q # r => job'[q] = job[q]
  BY <1>1, <1>3 DEF TypesOK, JobBecomes
<1>10. JobOK(r)'
  BY <1>1, <1>2, <1>3, <1>4, <1>8 DEF JobOK
<1>11. ASSUME NEW a \in Attempts PROVE EntryOK(r, a)'
  <2>1. EntryOK(r, a) /\ pr' = pr /\ branch' = branch
    BY <1>1 DEF IInv
  <2>2. CASE a = job[r].attempt
    <3>1. <<r, a>> = e
      BY <2>2, <1>5
    <3>3. Queued(<<r, a>>)'
      BY <3>1, <1>8
    <3>2. job'[r].attempt = a /\ pr'[<<r, a>>] = "none"
      BY <1>3, <1>7, <2>1, <2>2, <3>1
    <3> QED
      BY <1>2, <1>3, <1>4, <2>2, <3>2, <3>3 DEF EntryOK, CurrentOK, Attempts
  <2>3. CASE a # job[r].attempt
    <3>1. <<r, a>> # e
      BY <2>3, <1>5
    <3>2. Queued(<<r, a>>)' <=> Queued(<<r, a>>)
      BY <1>8, <3>1
    <3> QED
      BY <1>3, <2>1, <2>3, <3>2 DEF EntryOK
  <2> QED
    BY <2>2, <2>3
<1>12. \A q \in Runs, a \in Attempts : q # r => (Queued(<<q, a>>)' <=> Queued(<<q, a>>))
  BY <1>5, <1>8
<1> QED
  BY <1>1, <1>8, <1>9, <1>10, <1>11, <1>12, OneRun

LEMMA PushBranchIInv ==
  ASSUME IInv, NEW r \in Runs, PushBranch(r) PROVE IInv'
<1> DEFINE e == Entry(r)
           b == <<r, 1>>
           new == [entry |-> e, base |-> job[r].base, head |-> job[r].head, mergedAt |-> None]
<1>1. /\ job[r].pc = "branch" /\ UNCHANGED <<file, head, taken, pr>>
      /\ TypesOK /\ FileOK /\ JobOK(r)
  BY DEF PushBranch, IInv
<1>2. Branch(r) = b /\ b \in Entries
  BY FirstEntry DEF Branch, BranchOf, Entry
<1>3. /\ branch[b] # None => branch[b].mergedAt # None
      /\ branch' = [branch EXCEPT ![b] = new]
  BY <1>2 DEF PushBranch
<1>4. PICK pc \in {"create", "failed"} : Step(r, "branch", pc)
  BY DEF PushBranch, StepOrFail
<1>5. /\ JobBecomes(r, [job[r] EXCEPT !.pc = pc])
      /\ job'[r].pc = pc /\ job'[r].attempt = job[r].attempt
      /\ job'[r].mode = job[r].mode /\ job'[r].base = job[r].base
      /\ job'[r].head = job[r].head /\ job'[r].merged = job[r].merged
  BY <1>1, <1>4, StepBecomes DEF TypesOK, Active
<1>6. job[r].attempt \in Attempts /\ job[r] \in Job
  BY <1>1 DEF JobOK, TypesOK
<1>7. e = <<r, job[r].attempt>> /\ e \in Entries
  BY <1>6, EntryIsEntry DEF Entry
<1>8. new \in Heads /\ new # None /\ new.entry = e /\ new.mergedAt = None
  BY <1>6, <1>7, ReleaseAssumption DEF Heads, Job
<1> HIDE DEF e, b, new
<1>9. /\ branch' \in [Entries -> Heads \cup {None}] /\ branch'[b] = new
      /\ \A c \in Entries : c # b => branch'[c] = branch[c]
  BY <1>1, <1>2, <1>3, <1>8 DEF TypesOK
<1>10. FileOK' /\ \A x : Queued(x)' <=> Queued(x)
  BY <1>1, JobOnly
<1>11. TypesOK' /\ \A q \in Runs : q # r => job'[q] = job[q]
  BY <1>1, <1>5, <1>9 DEF TypesOK, JobBecomes
<1>12. JobOK(r)'
  BY <1>1, <1>4, <1>5 DEF IInv, JobOK
<1>13. ASSUME NEW a \in Attempts PROVE EntryOK(r, a)'
  <2>1. EntryOK(r, a) /\ pr' = pr
    BY <1>1 DEF IInv
  <2>2. pr[<<r, a>>] # "open"
    BY <2>1, <1>3 DEF EntryOK, b
  <2>3. branch'[<<r, 1>>] # None /\ branch'[<<r, 1>>].entry = e
        /\ branch'[<<r, 1>>].mergedAt = None
    BY <1>8, <1>9 DEF b
  <2>4. job[r].attempt = a => e = <<r, a>>
    BY <1>7
  <2> QED
    BY <1>1, <1>4, <1>5, <1>10, <2>1, <2>2, <2>3, <2>4 DEF EntryOK, CurrentOK
<1>14. \A q \in Runs : q # r => branch'[<<q, 1>>] = branch[<<q, 1>>]
  BY <1>9, FirstEntry DEF b
<1> QED
  BY <1>1, <1>10, <1>11, <1>12, <1>13, <1>14, OneRun

LEMMA CreatePrIInv ==
  ASSUME IInv, NEW r \in Runs, CreatePr(r) PROVE IInv'
<1> DEFINE e == Entry(r)
<1>1. /\ job[r].pc = "create" /\ UNCHANGED <<file, head, taken, branch>>
      /\ pr' = [pr EXCEPT ![e] = "open"]
      /\ TypesOK /\ FileOK /\ JobOK(r)
  BY DEF CreatePr, IInv
<1>2. PICK pc \in {"view", "merge", "failed"} : Step(r, "create", pc)
  BY DEF CreatePr, StepOrFail
<1>3. /\ JobBecomes(r, [job[r] EXCEPT !.pc = pc])
      /\ job'[r].pc = pc /\ job'[r].attempt = job[r].attempt
      /\ job'[r].mode = job[r].mode /\ job'[r].base = job[r].base
      /\ job'[r].head = job[r].head /\ job'[r].merged = job[r].merged
  BY <1>1, <1>2, StepBecomes DEF TypesOK, Active
<1>4. job[r].attempt \in Attempts
  BY <1>1 DEF JobOK
<1>5. e = <<r, job[r].attempt>> /\ e \in Entries
  BY <1>4, EntryIsEntry DEF Entry
<1>6. EntryOK(r, job[r].attempt)
  BY <1>4 DEF IInv
<1>7. /\ branch[<<r, 1>>] # None /\ branch[<<r, 1>>].entry = e
      /\ branch[<<r, 1>>].mergedAt = None /\ ~Queued(e)
  BY <1>1, <1>5, <1>6 DEF EntryOK, CurrentOK
<1> HIDE DEF e
<1>8. /\ pr' \in [Entries -> {"none", "open", "merged", "closed"}] /\ pr'[e] = "open"
      /\ \A x \in Entries : x # e => pr'[x] = pr[x]
  BY <1>1, <1>5 DEF TypesOK
<1>9. FileOK' /\ \A x : Queued(x)' <=> Queued(x)
  BY <1>1, JobOnly
<1>10. TypesOK' /\ \A q \in Runs : q # r => job'[q] = job[q]
  BY <1>1, <1>3, <1>8 DEF TypesOK, JobBecomes
<1>11. JobOK(r)'
  BY <1>1, <1>2, <1>3 DEF IInv, JobOK
<1>12. ASSUME NEW a \in Attempts PROVE EntryOK(r, a)'
  <2>1. EntryOK(r, a) /\ branch' = branch /\ <<r, a>> \in Entries
    BY <1>1, EntryIsEntry DEF IInv
  <2>2. CASE a = job[r].attempt
    <3>1. <<r, a>> = e /\ ~(job'[r].attempt < a)
      BY <2>2, <1>3, <1>4, <1>5 DEF Attempts
    <3> QED
      BY <1>1, <1>2, <1>3, <1>6, <1>7, <1>8, <1>9, <2>1, <2>2, <3>1 DEF EntryOK, CurrentOK
  <2>3. CASE a # job[r].attempt
    <3>1. <<r, a>> # e
      BY <2>3, <1>5
    <3>2. pr'[<<r, a>>] = pr[<<r, a>>]
      BY <1>8, <2>1, <3>1
    <3> QED
      BY <1>3, <1>9, <2>1, <2>3, <3>2 DEF EntryOK
  <2> QED
    BY <2>2, <2>3
<1>13. \A q \in Runs, a \in Attempts : q # r => pr'[<<q, a>>] = pr[<<q, a>>]
  BY <1>5, <1>8, EntryIsEntry
<1> QED
  BY <1>1, <1>9, <1>10, <1>11, <1>12, <1>13, OneRun

\* What merging an open pull request changes, whoever does it.
LEMMA Merges ==
  ASSUME IInv, NEW r \in Runs, NEW a \in Attempts, NEW method,
         pr[<<r, a>>] = "open", MergeEntry(<<r, a>>, method)
  PROVE  /\ FileOK' /\ IsPrefix(file, file') /\ head' = head + 1
         /\ \A x : Queued(x)' <=> Queued(x) \/ x = <<r, a>>
         /\ branch' \in [Entries -> Heads \cup {None}]
         /\ pr' \in [Entries -> {"none", "open", "merged", "closed"}]
         /\ branch'[<<r, 1>>].entry = <<r, a>>
         /\ \A q \in Runs : q # r => branch'[<<q, 1>>] = branch[<<q, 1>>]
         /\ pr'[<<r, a>>] = "merged"
         /\ \A q \in Runs, c \in Attempts : <<q, c>> # <<r, a>> => pr'[<<q, c>>] = pr[<<q, c>>]
         /\ branch[<<r, 1>>] # None /\ branch[<<r, 1>>].entry = <<r, a>>
         /\ \A c \in Attempts : c # a => pr[<<r, c>>] # "open"
<1> DEFINE b == <<r, 1>>
           e == <<r, a>>
           old == branch[b]
           at == IF method = "merge" THEN head + 1 ELSE None
           new == [old EXCEPT !.mergedAt = at]
<1>1. /\ e \in Entries /\ b \in Entries /\ BranchOf(e) = b
      /\ FileOK /\ TypesOK /\ EntryOK(r, a) /\ \A c \in Attempts : EntryOK(r, c)
  BY FirstEntry, EntryIsEntry DEF IInv, BranchOf
<1>2. old # None /\ old.entry = e /\ ~Queued(e)
  BY <1>1 DEF EntryOK
<1>3. /\ Commit(Append(file, e)) /\ branch' = [branch EXCEPT ![b] = new]
      /\ pr' = [pr EXCEPT ![e] = "merged"] /\ taken' = taken
  BY <1>1, <1>2 DEF MergeEntry, Merged
<1>4. old \in Heads /\ at \in Nat \cup {None}
  BY <1>1, <1>2 DEF TypesOK, FileOK
<1>5. new \in Heads /\ new.entry = e
  BY <1>2, <1>4 DEF Heads
<1>6. \A c \in Attempts : c # a => pr[<<r, c>>] # "open"
  BY <1>1, <1>2 DEF EntryOK
<1> HIDE DEF new, old, at
<1>7. /\ FileOK' /\ IsPrefix(file, file') /\ head' = head + 1
      /\ \A x : Queued(x)' <=> Queued(x) \/ x = e
  BY <1>1, <1>2, <1>3, AppendKeeps
<1>8. /\ branch' \in [Entries -> Heads \cup {None}] /\ branch'[b] = new
      /\ \A c \in Entries : c # b => branch'[c] = branch[c]
  BY <1>1, <1>3, <1>5 DEF TypesOK
<1>9. /\ pr' \in [Entries -> {"none", "open", "merged", "closed"}] /\ pr'[e] = "merged"
      /\ \A c \in Entries : c # e => pr'[c] = pr[c]
  BY <1>1, <1>3 DEF TypesOK
<1>10. \A q \in Runs : q # r => branch'[<<q, 1>>] = branch[<<q, 1>>]
  BY <1>8, FirstEntry
<1>11. \A q \in Runs, c \in Attempts : <<q, c>> # e => pr'[<<q, c>>] = pr[<<q, c>>]
  BY <1>9, EntryIsEntry
<1> QED
  BY <1>2, <1>5, <1>6, <1>7, <1>8, <1>9, <1>10, <1>11 DEF old

LEMMA MergePrIInv ==
  ASSUME IInv, NEW r \in Runs, MergePr(r) PROVE IInv' /\ IsPrefix(file, file')
<1>1. job[r].pc = "merge" /\ pr[Entry(r)] = "open" /\ TypesOK /\ FileOK /\ JobOK(r)
  BY DEF MergePr, IInv
<1>2. PICK a \in Attempts : a = job[r].attempt
  BY <1>1 DEF JobOK
<1>3. Entry(r) = <<r, a>>
  BY <1>2 DEF Entry
<1>4. PICK method : MergeEntry(<<r, a>>, method)
  BY <1>3 DEF MergePr
<1>5. pr[<<r, a>>] = "open"
  BY <1>1, <1>3
<1>6. PICK pc \in {"delete", "failed"} : Step(r, "merge", pc)
  BY DEF MergePr, StepOrFail
<1>7. /\ JobBecomes(r, [job[r] EXCEPT !.pc = pc])
      /\ job'[r].pc = pc /\ job'[r].attempt = a
      /\ job'[r].mode = job[r].mode /\ job'[r].base = job[r].base
      /\ job'[r].head = job[r].head /\ job'[r].merged = job[r].merged
  BY <1>1, <1>2, <1>6, StepBecomes DEF TypesOK, Active
<1>8. /\ FileOK' /\ IsPrefix(file, file') /\ head' = head + 1
      /\ \A x : Queued(x)' <=> Queued(x) \/ x = <<r, a>>
      /\ branch' \in [Entries -> Heads \cup {None}]
      /\ pr' \in [Entries -> {"none", "open", "merged", "closed"}]
      /\ branch'[<<r, 1>>].entry = <<r, a>>
      /\ \A q \in Runs : q # r => branch'[<<q, 1>>] = branch[<<q, 1>>]
      /\ pr'[<<r, a>>] = "merged"
      /\ \A q \in Runs, c \in Attempts : <<q, c>> # <<r, a>> => pr'[<<q, c>>] = pr[<<q, c>>]
      /\ \A c \in Attempts : c # a => pr[<<r, c>>] # "open"
  BY <1>4, <1>5, Merges
<1>9. TypesOK' /\ \A q \in Runs : q # r => job'[q] = job[q]
  BY <1>7, <1>8 DEF TypesOK, JobBecomes
<1>10. JobOK(r)'
  <2>1. job[r].head \in Nat /\ head \in Nat
    BY <1>1 DEF TypesOK, FileOK, Job
  <2> QED
    BY <1>1, <1>2, <1>6, <1>7, <1>8, <2>1 DEF JobOK
<1>11. ASSUME NEW c \in Attempts PROVE EntryOK(r, c)'
  <2>1. EntryOK(r, c)
    BY DEF IInv
  <2>2. CASE c = a
    <3>1. ~(a < a)
      BY DEF Attempts
    <3> QED
      BY <1>6, <1>7, <1>8, <2>2, <3>1 DEF EntryOK, CurrentOK
  <2>3. CASE c # a
    <3>1. pr'[<<r, c>>] = pr[<<r, c>>] /\ pr[<<r, c>>] # "open"
          /\ (Queued(<<r, c>>)' <=> Queued(<<r, c>>))
      BY <1>8, <2>3
    <3> QED
      BY <1>2, <1>7, <2>1, <2>3, <3>1 DEF EntryOK
  <2> QED
    BY <2>2, <2>3
<1> QED
  BY <1>8, <1>9, <1>10, <1>11, OneRun

LEMMA MergeByHandIInv ==
  ASSUME IInv, NEW e \in Entries, MergeByHand(e) PROVE IInv' /\ IsPrefix(file, file')
<1>1. PICK r \in Runs, a \in Attempts : e = <<r, a>>
  BY DEF Entries
<1>2. pr[<<r, a>>] = "open" /\ job' = job /\ TypesOK /\ FileOK /\ JobOK(r)
  BY <1>1 DEF MergeByHand, IInv
<1>3. PICK method : MergeEntry(<<r, a>>, method)
  BY <1>1 DEF MergeByHand
<1>4. /\ FileOK' /\ IsPrefix(file, file') /\ head' = head + 1
      /\ \A x : Queued(x)' <=> Queued(x) \/ x = <<r, a>>
      /\ branch' \in [Entries -> Heads \cup {None}]
      /\ pr' \in [Entries -> {"none", "open", "merged", "closed"}]
      /\ branch'[<<r, 1>>].entry = <<r, a>>
      /\ \A q \in Runs : q # r => branch'[<<q, 1>>] = branch[<<q, 1>>]
      /\ pr'[<<r, a>>] = "merged"
      /\ \A q \in Runs, c \in Attempts : <<q, c>> # <<r, a>> => pr'[<<q, c>>] = pr[<<q, c>>]
      /\ branch[<<r, 1>>] # None /\ branch[<<r, 1>>].entry = <<r, a>>
      /\ \A c \in Attempts : c # a => pr[<<r, c>>] # "open"
  BY <1>2, <1>3, Merges
<1>5. TypesOK'
  BY <1>2, <1>4 DEF TypesOK
<1>6. JobOK(r)'
  <2>1. job[r].head \in Nat /\ head \in Nat
    BY <1>2 DEF TypesOK, FileOK, Job
  <2> QED
    BY <1>2, <1>4, <2>1 DEF JobOK
<1>7. ASSUME NEW c \in Attempts PROVE EntryOK(r, c)'
  <2>1. EntryOK(r, c)
    BY DEF IInv
  <2>2. CASE c = a
    BY <1>2, <1>4, <2>1, <2>2 DEF EntryOK, CurrentOK
  <2>3. CASE c # a
    <3>1. pr'[<<r, c>>] = pr[<<r, c>>] /\ pr[<<r, c>>] # "open"
          /\ (Queued(<<r, c>>)' <=> Queued(<<r, c>>))
      BY <1>4, <2>3
    <3>2. branch[<<r, 1>>] # None /\ branch[<<r, 1>>].entry # <<r, c>>
      BY <1>4, <2>3
    <3> QED
      BY <1>2, <2>1, <2>3, <3>1, <3>2 DEF EntryOK, CurrentOK
  <2> QED
    BY <2>2, <2>3
<1> QED
  BY <1>2, <1>4, <1>5, <1>6, <1>7, OneRun

LEMMA DeleteBranchIInv ==
  ASSUME IInv, NEW r \in Runs, DeleteBranch(r) PROVE IInv'
<1>1. /\ job[r].pc = "delete" /\ UNCHANGED <<file, head, taken, pr>>
      /\ TypesOK /\ FileOK /\ JobOK(r)
  BY DEF DeleteBranch, IInv
<1>2. PICK pc \in {"view", "failed"}, m \in BOOLEAN :
        /\ pc = "failed" => m = job[r].merged
        /\ job' = [job EXCEPT ![r] = [job[r] EXCEPT !.pc = pc, !.merged = m]]
  <2>1. job[r] \in Job /\ job[r].merged \in BOOLEAN
    BY <1>1 DEF TypesOK, Job
  <2>2. CASE job' = [job EXCEPT ![r].pc = "view", ![r].merged = TRUE]
    BY <2>2
  <2>3. CASE job' = [job EXCEPT ![r].pc = "failed"]
    <3>1. [job[r] EXCEPT !.pc = "failed", !.merged = job[r].merged]
            = [job[r] EXCEPT !.pc = "failed"]
      BY <2>1 DEF Job
    <3> QED
      BY <2>1, <2>3, <3>1
  <2> QED
    BY <2>2, <2>3 DEF DeleteBranch
<1> DEFINE x == [job[r] EXCEPT !.pc = pc, !.merged = m]
<1>3. job[r] \in Job
  BY <1>1 DEF TypesOK
<1>4. /\ x \in Job /\ x.pc = pc /\ x.merged = m /\ x.attempt = job[r].attempt
      /\ x.mode = job[r].mode /\ x.base = job[r].base /\ x.head = job[r].head
  BY <1>3 DEF Job, Active
<1> HIDE DEF x
<1>5. job' \in [Runs -> Job] /\ job'[r] = x /\ \A q \in Runs : q # r => job'[q] = job[q]
  BY <1>1, <1>2, <1>4 DEF TypesOK, x
<1>6. PICK a \in Attempts : a = job[r].attempt
  BY <1>1 DEF JobOK
<1>7. /\ pr[<<r, a>>] = "merged" /\ Queued(<<r, a>>)
      /\ branch[<<r, 1>>] = None \/ branch[<<r, 1>>].entry = <<r, a>>
  BY <1>1, <1>6 DEF IInv, EntryOK, CurrentOK
<1>8. FileOK' /\ \A y : Queued(y)' <=> Queued(y)
  BY <1>1, JobOnly
<1>9. Branch(r) = <<r, 1>> /\ <<r, 1>> \in Entries
  BY FirstEntry DEF Branch, BranchOf, Entry
<1>10. /\ branch' \in [Entries -> Heads \cup {None}]
       /\ \A c \in Entries : c # <<r, 1>> => branch'[c] = branch[c]
       /\ branch'[<<r, 1>>] = None
  BY <1>1, <1>9 DEF DeleteBranch, TypesOK
<1>11. TypesOK'
  BY <1>1, <1>5, <1>10 DEF TypesOK
<1>12. JobOK(r)'
  BY <1>1, <1>2, <1>4, <1>5 DEF JobOK
<1>13. ASSUME NEW c \in Attempts PROVE EntryOK(r, c)'
  <2>1. EntryOK(r, c)
    BY DEF IInv
  <2>2. pr[<<r, c>>] # "open"
    BY <1>7, <2>1 DEF EntryOK
  <2>3. job'[r].attempt = c => c = a
    BY <1>4, <1>5, <1>6
  <2> QED
    BY <1>1, <1>2, <1>4, <1>5, <1>7, <1>8, <2>1, <2>2, <2>3 DEF EntryOK, CurrentOK
<1>14. \A q \in Runs : q # r => branch'[<<q, 1>>] = branch[<<q, 1>>]
  BY <1>10, FirstEntry
<1> QED
  BY <1>1, <1>5, <1>8, <1>11, <1>12, <1>13, <1>14, OneRun

LEMMA DeleteByHandIInv ==
  ASSUME IInv, NEW b \in Entries, DeleteByHand(b) PROVE IInv'
<1>1. PICK r \in Runs : b[1] = r /\ b \in Entries
  BY DEF Entries
<1>2. /\ job[r].pc \in {"done", "failed"} /\ UNCHANGED <<file, head, taken, job>>
      /\ branch' = [branch EXCEPT ![b] = None]
      /\ pr' = [e \in Entries |->
                  IF BranchOf(e) = b /\ pr[e] = "open" THEN "closed" ELSE pr[e]]
      /\ TypesOK /\ FileOK /\ JobOK(r)
  BY <1>1 DEF DeleteByHand, IInv
<1>3. \A q \in Runs : <<q, 1>> = b => q = r
  BY <1>1
<1>4. \A q \in Runs, a \in Attempts : BranchOf(<<q, a>>) = <<q, 1>>
  BY DEF BranchOf
<1>5. FileOK' /\ \A x : Queued(x)' <=> Queued(x)
  BY <1>2, JobOnly
<1>6. /\ branch' \in [Entries -> Heads \cup {None}]
      /\ \A c \in Entries : c # b => branch'[c] = branch[c]
  BY <1>2 DEF TypesOK
<1>7. pr' \in [Entries -> {"none", "open", "merged", "closed"}]
  BY <1>2 DEF TypesOK
<1>8. TypesOK' /\ \A q \in Runs : q # r => job'[q] = job[q]
  BY <1>2, <1>6, <1>7 DEF TypesOK
<1>9. JobOK(r)'
  BY <1>2 DEF JobOK
<1>10. ASSUME NEW a \in Attempts PROVE EntryOK(r, a)'
  <2>1. EntryOK(r, a) /\ <<r, a>> \in Entries /\ <<r, 1>> \in Entries
    BY FirstEntry, EntryIsEntry DEF IInv
  <2>2. pr'[<<r, a>>] = IF <<r, 1>> = b /\ pr[<<r, a>>] = "open"
                        THEN "closed" ELSE pr[<<r, a>>]
    BY <1>2, <1>4, <2>1
  <2>3. CASE <<r, 1>> = b
    BY <1>2, <1>5, <2>1, <2>2, <2>3 DEF EntryOK, CurrentOK
  <2>4. CASE <<r, 1>> # b
    <3>1. branch'[<<r, 1>>] = branch[<<r, 1>>] /\ pr'[<<r, a>>] = pr[<<r, a>>]
      BY <1>6, <2>1, <2>2, <2>4
    <3> QED
      BY <1>2, <1>5, <2>1, <3>1 DEF EntryOK, CurrentOK
  <2> QED
    BY <2>3, <2>4
<1>11. \A q \in Runs : q # r => branch'[<<q, 1>>] = branch[<<q, 1>>]
  BY <1>3, <1>6, FirstEntry
<1>12. \A q \in Runs, a \in Attempts : q # r => pr'[<<q, a>>] = pr[<<q, a>>]
  BY <1>2, <1>3, <1>4, EntryIsEntry
<1> QED
  BY <1>2, <1>5, <1>8, <1>9, <1>10, <1>11, <1>12, OneRun

LEMMA PromoteIInv ==
  ASSUME IInv, Promote PROVE IInv' /\ taken' # taken
<1>1. FileOK /\ TypesOK /\ UNCHANGED <<branch, pr, job>>
  BY DEF IInv, Promote
<1>2. /\ FileOK' /\ taken' # taken /\ head' = head + 1
      /\ \A x : Queued(x)' <=> Queued(x)
  BY <1>1, PromoteKeeps
<1>3. \A q \in Runs : JobOK(q)' /\ \A a \in Attempts : EntryOK(q, a)'
  BY <1>1, <1>2, OthersKeep
<1>4. TypesOK'
  BY <1>1 DEF TypesOK
<1> QED
  BY <1>2, <1>3, <1>4 DEF IInv

LEMMA StutterIInv ==
  ASSUME IInv, UNCHANGED vars PROVE IInv' /\ file' = file
<1>1. /\ file' = file /\ head' = head /\ taken' = taken
      /\ branch' = branch /\ pr' = pr /\ job' = job
  BY DEF vars
<1>2. FileOK' /\ \A x : Queued(x)' <=> Queued(x)
  BY <1>1, JobOnly DEF IInv
<1>3. \A q \in Runs : JobOK(q)' /\ \A a \in Attempts : EntryOK(q, a)'
  BY <1>1, <1>2, OthersKeep
<1>4. TypesOK'
  BY <1>1 DEF TypesOK, IInv
<1> QED
  BY <1>1, <1>2, <1>3, <1>4 DEF IInv

-----------------------------------------------------------------------------
(* The specification.                                                      *)

LEMMA InitIInv == Init => IInv
<1> SUFFICES ASSUME Init PROVE IInv
  OBVIOUS
<1>1. /\ file = <<>> /\ head = 0 /\ taken = {}
      /\ branch = [b \in Entries |-> None] /\ pr = [e \in Entries |-> "none"]
      /\ job \in [Runs -> [pc : {"idle"}, attempt : {0}, mode : Modes,
                           base : {<<>>}, head : {0}, merged : {FALSE}]]
  BY DEF Init
<1>2. /\ file \in Seq(Entries) /\ DOMAIN file = {} /\ head \in Nat
  BY <1>1
<1>3. FileOK
  BY <1>1, <1>2 DEF FileOK, Distinct, PromotedStaysOut
<1>4. ASSUME NEW r \in Runs
      PROVE  /\ job[r] \in Job /\ job[r].pc = "idle" /\ job[r].attempt = 0
             /\ job[r].head = 0 /\ ~job[r].merged
  <2>1. job[r] \in [pc : {"idle"}, attempt : {0}, mode : Modes,
                    base : {<<>>}, head : {0}, merged : {FALSE}]
    BY <1>1
  <2>2. 0 \in 0..MaxAttempts /\ <<>> \in Seq(Entries) /\ 0 \in Nat
    BY ReleaseAssumption
  <2>3. job[r] \in [pc : Active \cup {"idle", "done", "failed"}, attempt : 0..MaxAttempts,
                    mode : Modes, base : Seq(Entries), head : Nat, merged : BOOLEAN]
    BY <2>1, <2>2
  <2> QED
    BY <2>1, <2>3 DEF Job
<1>5. TypesOK
  BY <1>1, <1>4 DEF TypesOK
<1>6. ASSUME NEW r \in Runs PROVE JobOK(r)
  BY <1>1, <1>4 DEF JobOK
<1>7. ASSUME NEW r \in Runs, NEW a \in Attempts PROVE EntryOK(r, a)
  <2>1. pr[<<r, a>>] = "none" /\ ~Queued(<<r, a>>) /\ job[r].attempt # a
    BY <1>1, <1>2, <1>4, EntryIsEntry DEF Queued, Attempts
  <2> QED
    BY <2>1 DEF EntryOK
<1> QED
  BY <1>3, <1>5, <1>6, <1>7 DEF IInv

LEMMA NextIInv ==
  ASSUME IInv, [Next]_vars
  PROVE  IInv' /\ (taken' = taken => IsPrefix(file, file'))
<1>0. file \in Seq(Entries)
  BY DEF IInv, FileOK
<1>1. CASE UNCHANGED vars
  <2>1. IInv' /\ file' = file
    BY <1>1, StutterIInv
  <2> QED
    BY <1>0, <2>1 DEF IsPrefix
<1>2. CASE Promote
  BY <1>2, PromoteIInv
<1>3. ASSUME NEW r \in Runs, RunStep(r) PROVE IInv' /\ IsPrefix(file, file')
  <2>1. CASE PushMain(r)
    BY <2>1, PushMainIInv
  <2>2. CASE MergePr(r)
    BY <2>2, MergePrIInv
  <2>3. CASE \/ Start(r) \/ Stop(r) \/ Clone(r) \/ PushBranch(r) \/ CreatePr(r)
             \/ MergePrAgain(r) \/ DeleteBranch(r) \/ View(r)
    <3>1. file' = file
      BY <2>3 DEF Start, Stop, Clone, PushBranch, CreatePr, MergePrAgain, DeleteBranch, View
    <3>2. IsPrefix(file, file')
      BY <1>0, <3>1 DEF IsPrefix
    <3>3. IInv'
      BY <2>3, StartIInv, CloneIInv, QuietIInv, PushBranchIInv, CreatePrIInv, DeleteBranchIInv
    <3> QED
      BY <3>2, <3>3
  <2> QED
    BY <1>3, <2>1, <2>2, <2>3 DEF RunStep
<1>4. ASSUME NEW e \in Entries, MergeByHand(e) \/ DeleteByHand(e)
      PROVE  IInv' /\ IsPrefix(file, file')
  <2>1. CASE MergeByHand(e)
    BY <2>1, MergeByHandIInv
  <2>2. CASE DeleteByHand(e)
    <3>1. IInv' /\ file' = file
      BY <2>2, DeleteByHandIInv DEF DeleteByHand
    <3> QED
      BY <1>0, <3>1 DEF IsPrefix
  <2> QED
    BY <1>4, <2>1, <2>2
<1> QED
  BY <1>1, <1>2, <1>3, <1>4 DEF Next

-----------------------------------------------------------------------------
(* The attempts of a run.                                                  *)

\* What the branch of a run holds is queued before any entry of a later attempt
\* is, or not at all; only the other modes make a branch.
LaterOK(r) ==
  /\ job[r].pc = "push" => job[r].mode = "direct"
  /\ branch[<<r, 1>>] # None => job[r].mode # "direct"
  /\ branch[<<r, 1>>] # None =>
       \A i, j \in Attempts :
         branch[<<r, 1>>].entry = <<r, i>> /\ i < j => ~Queued(<<r, j>>)

\* A run keeps its mode, and pushes to the main branch in the direct mode only.
LEMMA ModeKept ==
  ASSUME IInv, [Next]_vars, NEW q \in Runs
  PROVE  /\ job'[q].mode = job[q].mode
         /\ job'[q].pc = "push" => job[q].pc = "push" \/ job[q].mode = "direct"
<1>0. job \in [Runs -> Job] /\ job[q] \in Job
  BY DEF IInv, TypesOK
<1>1. CASE job' = job
  BY <1>1
<1>2. ASSUME NEW r \in Runs, NEW pc, job' = [job EXCEPT ![r].pc = pc], pc # "push"
      PROVE  /\ job'[q].mode = job[q].mode
             /\ job'[q].pc = "push" => job[q].pc = "push"
  BY <1>0, <1>2 DEF Job
<1>3. ASSUME NEW r \in Runs, Start(r) \/ Clone(r) \/ DeleteBranch(r)
      PROVE  /\ job'[q].mode = job[q].mode
             /\ job'[q].pc = "push" => job[q].pc = "push" \/ job[q].mode = "direct"
  <2>1. CASE Start(r)
    <3>1. job' = [job EXCEPT ![r] = [job[r] EXCEPT !.pc = "clone",
                    !.attempt = job[r].attempt + 1, !.merged = FALSE]]
      BY <2>1 DEF Start
    <3> QED
      BY <1>0, <3>1 DEF Job
  <2>2. CASE Clone(r)
    <3>1. PICK pc \in {"push", "branch"} :
            /\ pc = "push" => job[r].mode = "direct"
            /\ job' = [job EXCEPT ![r] = [job[r] EXCEPT !.pc = pc, !.base = file,
                                                        !.head = head]]
      <4>1. CASE job[r].mode = "direct"
        BY <2>2, <4>1 DEF Clone
      <4>2. CASE job[r].mode # "direct"
        BY <2>2, <4>2 DEF Clone
      <4> QED
        BY <4>1, <4>2
    <3> QED
      BY <1>0, <3>1 DEF Job
  <2>3. CASE DeleteBranch(r)
    <3>1. CASE job' = [job EXCEPT ![r] = [job[r] EXCEPT !.pc = "view", !.merged = TRUE]]
      BY <1>0, <3>1 DEF Job
    <3>2. CASE job' = [job EXCEPT ![r].pc = "failed"]
      BY <1>2, <3>2
    <3> QED
      BY <2>3, <3>1, <3>2 DEF DeleteBranch
  <2> QED
    BY <1>3, <2>1, <2>2, <2>3
<1>4. ASSUME NEW r \in Runs,
             \/ Stop(r) \/ PushMain(r) \/ PushBranch(r) \/ CreatePr(r)
             \/ MergePr(r) \/ MergePrAgain(r) \/ View(r)
      PROVE  \E pc : job' = [job EXCEPT ![r].pc = pc] /\ pc # "push"
  BY <1>4 DEF Stop, PushMain, PushBranch, CreatePr, MergePr, MergePrAgain, View, StepOrFail, Step
<1>5. ASSUME NEW r \in Runs, RunStep(r)
      PROVE  /\ job'[q].mode = job[q].mode
             /\ job'[q].pc = "push" => job[q].pc = "push" \/ job[q].mode = "direct"
  BY <1>2, <1>3, <1>4, <1>5 DEF RunStep
<1> QED
  BY <1>1, <1>5 DEF Next, Promote, MergeByHand, DeleteByHand, vars

\* What a step queues: nothing, or the entry of a job that pushes to the main branch,
\* or what a branch holds.
Queues(r, a) ==
  /\ \A x : Queued(x)' <=> Queued(x) \/ x = <<r, a>>
  /\ \/ job[r].pc = "push" /\ job[r].attempt = a
     \/ branch[<<r, 1>>] # None /\ branch[<<r, 1>>].entry = <<r, a>>

LEMMA QueueStep ==
  ASSUME IInv, [Next]_vars
  PROVE  \/ \A x : Queued(x)' <=> Queued(x)
         \/ \E r \in Runs, a \in Attempts : Queues(r, a)
<1>1. CASE UNCHANGED <<file, taken>>
  BY <1>1 DEF Queued
<1>2. CASE Promote
  BY <1>2, PromoteKeeps DEF IInv
<1>3. ASSUME NEW r \in Runs, PushMain(r) PROVE \E a \in Attempts : Queues(r, a)
  <2>1. /\ job[r].pc = "push" /\ head = job[r].head /\ JobOK(r) /\ FileOK
        /\ Commit(Append(job[r].base, Entry(r))) /\ taken' = taken
    BY <1>3 DEF PushMain, StepOrFail, Step, IInv
  <2>2. job[r].attempt \in Attempts /\ job[r].base = file
    BY <2>1 DEF JobOK
  <2>3. EntryOK(r, job[r].attempt)
    BY <2>2 DEF IInv
  <2>4. Entry(r) \in Entries /\ ~Queued(Entry(r)) /\ Entry(r) = <<r, job[r].attempt>>
    BY <2>1, <2>2, <2>3, EntryIsEntry DEF EntryOK, CurrentOK, Entry
  <2>5. \A x : Queued(x)' <=> Queued(x) \/ x = Entry(r)
    BY <2>1, <2>2, <2>4, AppendKeeps
  <2> QED
    BY <2>1, <2>2, <2>4, <2>5 DEF Queues
<1>4. ASSUME NEW r \in Runs, NEW a \in Attempts, NEW method,
             pr[<<r, a>>] = "open", MergeEntry(<<r, a>>, method)
      PROVE  Queues(r, a)
  BY <1>4, Merges DEF Queues
<1>5. ASSUME NEW r \in Runs, MergePr(r) PROVE \E a \in Attempts : Queues(r, a)
  <2>1. job[r].pc = "merge" /\ pr[Entry(r)] = "open" /\ MergeEntry(Entry(r), job[r].mode)
        /\ JobOK(r)
    BY <1>5 DEF MergePr, IInv
  <2>2. job[r].attempt \in Attempts
    BY <2>1 DEF JobOK
  <2> QED
    BY <1>4, <2>1, <2>2 DEF Entry
<1>6. ASSUME NEW e \in Entries, MergeByHand(e)
      PROVE  \E r \in Runs, a \in Attempts : Queues(r, a)
  <2>1. PICK r \in Runs, a \in Attempts : e = <<r, a>>
    BY DEF Entries
  <2>2. PICK method : pr[e] = "open" /\ MergeEntry(e, method)
    BY <1>6 DEF MergeByHand
  <2> QED
    BY <1>4, <2>1, <2>2
<1> QED
  BY <1>1, <1>2, <1>3, <1>5, <1>6
  DEF Next, RunStep, Start, Stop, Clone, PushBranch, CreatePr, MergePrAgain, DeleteBranch,
      View, DeleteByHand, vars

\* What becomes of a branch: it goes, keeps its entry, or is pushed by a job.
BranchStays(q) == branch[<<q, 1>>] # None /\ branch'[<<q, 1>>].entry = branch[<<q, 1>>].entry

BranchPushed(q) ==
  /\ job[q].pc = "branch" /\ branch'[<<q, 1>>].entry = <<q, job[q].attempt>>
  /\ UNCHANGED <<file, taken>>

LEMMA BranchStep ==
  ASSUME IInv, [Next]_vars, NEW q \in Runs
  PROVE  branch'[<<q, 1>>] = None \/ BranchStays(q) \/ BranchPushed(q)
<1>0. branch \in [Entries -> Heads \cup {None}] /\ <<q, 1>> \in Entries
  BY FirstEntry DEF IInv, TypesOK
<1>1. CASE branch' = branch
  BY <1>1 DEF BranchStays
<1>2. ASSUME NEW b \in Entries, branch' = [branch EXCEPT ![b] = None]
      PROVE  branch'[<<q, 1>>] = None \/ BranchStays(q)
  BY <1>0, <1>2 DEF BranchStays
<1>3. ASSUME NEW r \in Runs, PushBranch(r)
      PROVE  branch'[<<q, 1>>] = None \/ BranchStays(q) \/ BranchPushed(q)
  <2>1. Branch(r) = <<r, 1>> /\ <<r, 1>> \in Entries /\ job[r].pc = "branch"
        /\ UNCHANGED <<file, taken>>
    BY <1>3, FirstEntry DEF PushBranch, Branch, BranchOf, Entry
  <2>2. branch' = [branch EXCEPT ![<<r, 1>>] =
          [entry |-> Entry(r), base |-> job[r].base, head |-> job[r].head, mergedAt |-> None]]
    BY <1>3, <2>1 DEF PushBranch
  <2>3. CASE q = r
    BY <1>0, <2>1, <2>2, <2>3 DEF BranchPushed, Entry
  <2>4. CASE q # r
    BY <1>0, <2>2, <2>4 DEF BranchStays
  <2> QED
    BY <2>3, <2>4
<1>4. ASSUME NEW e \in Entries, NEW method, pr[e] = "open", MergeEntry(e, method)
      PROVE  branch'[<<q, 1>>] = None \/ BranchStays(q)
  <2>1. PICK r \in Runs, a \in Attempts : e = <<r, a>>
    BY DEF Entries
  <2>2. /\ branch[<<r, 1>>] # None /\ branch[<<r, 1>>].entry = <<r, a>>
        /\ branch'[<<r, 1>>].entry = <<r, a>>
        /\ \A p \in Runs : p # r => branch'[<<p, 1>>] = branch[<<p, 1>>]
    BY <1>4, <2>1, Merges
  <2> QED
    BY <2>2 DEF BranchStays
<1>5. ASSUME NEW r \in Runs, MergePr(r)
      PROVE  branch'[<<q, 1>>] = None \/ BranchStays(q)
  <2>1. job[r].pc = "merge" /\ pr[Entry(r)] = "open" /\ MergeEntry(Entry(r), job[r].mode)
        /\ JobOK(r)
    BY <1>5 DEF MergePr, IInv
  <2>2. Entry(r) \in Entries
    BY <2>1, EntryIsEntry DEF JobOK, Entry
  <2> QED
    BY <1>4, <2>1, <2>2
<1>6. ASSUME NEW r \in Runs, DeleteBranch(r)
      PROVE  branch'[<<q, 1>>] = None \/ BranchStays(q)
  <2>1. branch' = [branch EXCEPT ![<<r, 1>>] = None]
    BY <1>6 DEF DeleteBranch, Branch, BranchOf, Entry
  <2> QED
    BY <1>2, <2>1, FirstEntry
<1>7. ASSUME NEW e \in Entries, MergeByHand(e) \/ DeleteByHand(e)
      PROVE  branch'[<<q, 1>>] = None \/ BranchStays(q)
  BY <1>2, <1>4, <1>7 DEF MergeByHand, DeleteByHand
<1>8. ASSUME NEW r \in Runs, RunStep(r)
      PROVE  branch'[<<q, 1>>] = None \/ BranchStays(q) \/ BranchPushed(q)
  <2>1. CASE \/ Start(r) \/ Stop(r) \/ Clone(r) \/ PushMain(r) \/ CreatePr(r)
             \/ MergePrAgain(r) \/ View(r)
    BY <1>1, <2>1 DEF Start, Stop, Clone, PushMain, CreatePr, MergePrAgain, View
  <2> QED
    BY <1>3, <1>5, <1>6, <1>8, <2>1 DEF RunStep
<1> QED
  BY <1>1, <1>7, <1>8 DEF Next, Promote, vars

LEMMA LaterStep ==
  ASSUME IInv, \A r \in Runs : LaterOK(r), [Next]_vars
  PROVE  /\ \A r \in Runs : \A i, j \in Attempts :
              i < j /\ Queued(<<r, j>>) /\ ~Queued(<<r, i>>) => ~Queued(<<r, i>>)'
         /\ \A r \in Runs : LaterOK(r)'
<1>1. \A r \in Runs, a \in Attempts : a \in Int /\ EntryOK(r, a) /\ JobOK(r) /\ job[r] \in Job
  BY DEF IInv, Attempts, TypesOK
<1>2. \A r \in Runs, a \in Attempts : job[r].attempt \in Int /\
        (job[r].attempt < a => ~Queued(<<r, a>>))
  <2>1. ASSUME NEW r \in Runs PROVE job[r].attempt \in Int
    <3>1. job[r] \in Job /\ MaxAttempts \in Nat
      BY ReleaseAssumption DEF IInv, TypesOK
    <3> QED
      BY <3>1 DEF Job
  <2> QED
    BY <1>1, <2>1 DEF EntryOK
<1>3. ASSUME NEW r \in Runs, NEW i \in Attempts, NEW j \in Attempts,
             i < j, Queued(<<r, j>>), ~Queued(<<r, i>>)
      PROVE  ~Queued(<<r, i>>)'
  <2>1. ASSUME NEW q \in Runs, NEW a \in Attempts, Queues(q, a), <<q, a>> = <<r, i>>
        PROVE  FALSE
    <3>1. q = r /\ a = i
      BY <2>1
    <3>2. CASE job[r].pc = "push" /\ job[r].attempt = i
      BY <1>2, <1>3, <3>2
    <3>3. CASE branch[<<r, 1>>] # None /\ branch[<<r, 1>>].entry = <<r, i>>
      BY <1>3, <3>3 DEF LaterOK
    <3> QED
      BY <2>1, <3>1, <3>2, <3>3 DEF Queues
  <2>2. CASE \A x : Queued(x)' <=> Queued(x)
    BY <1>3, <2>2
  <2>3. CASE \E q \in Runs, a \in Attempts : Queues(q, a)
    BY <1>3, <2>1, <2>3 DEF Queues
  <2> QED
    BY <2>2, <2>3, QueueStep
<1>4. ASSUME NEW r \in Runs PROVE LaterOK(r)'
  <2>1. /\ job'[r].mode = job[r].mode
        /\ job'[r].pc = "push" => job[r].pc = "push" \/ job[r].mode = "direct"
    BY ModeKept
  <2>2. LaterOK(r) /\ JobOK(r)
    BY DEF IInv
  <2>3. branch'[<<r, 1>>] = None \/ BranchStays(r) \/ BranchPushed(r)
    BY BranchStep
  <2>4. branch'[<<r, 1>>] # None => job'[r].mode # "direct"
    BY <2>1, <2>2, <2>3 DEF LaterOK, JobOK, BranchStays, BranchPushed
  <2>5. ASSUME branch'[<<r, 1>>] # None, NEW i \in Attempts, NEW j \in Attempts,
               branch'[<<r, 1>>].entry = <<r, i>>, i < j
        PROVE  ~Queued(<<r, j>>)'
    <3>1. CASE BranchPushed(r)
      <4>1. i = job[r].attempt
        BY <2>5, <3>1 DEF BranchPushed
      <4>2. ~Queued(<<r, j>>)
        BY <1>2, <2>5, <4>1
      <4> QED
        BY <3>1, <4>2 DEF BranchPushed, Queued
    <3>2. CASE BranchStays(r)
      <4>1. branch[<<r, 1>>] # None /\ branch[<<r, 1>>].entry = <<r, i>>
        BY <2>5, <3>2 DEF BranchStays
      <4>2. ~Queued(<<r, j>>) /\ job[r].mode # "direct" /\ job[r].pc # "push"
        BY <2>2, <2>5, <4>1 DEF LaterOK
      <4>3. ASSUME NEW q \in Runs, NEW a \in Attempts, Queues(q, a), <<q, a>> = <<r, j>>
            PROVE  FALSE
        <5>1. q = r /\ a = j
          BY <4>3
        <5>2. branch[<<r, 1>>].entry = <<r, j>>
          BY <4>2, <4>3, <5>1 DEF Queues
        <5>3. i = j
          BY <4>1, <5>2
        <5> QED
          BY <1>1, <2>5, <5>3
      <4>4. CASE \A x : Queued(x)' <=> Queued(x)
        BY <4>2, <4>4
      <4>5. CASE \E q \in Runs, a \in Attempts : Queues(q, a)
        BY <4>2, <4>3, <4>5 DEF Queues
      <4> QED
        BY <4>4, <4>5, QueueStep
    <3> QED
      BY <2>3, <2>5, <3>1, <3>2
  <2> QED
    BY <2>1, <2>2, <2>4, <2>5 DEF LaterOK
<1> QED
  BY <1>3, <1>4

-----------------------------------------------------------------------------
(* The theorems.                                                           *)

\* The invariant that the theorems below follow from holds in every state: what a
\* branch, a pull request and a job say of an entry agrees with the file.
THEOREM Inductive == Spec => []IInv
<1>1. IInv /\ [Next]_vars => IInv'
  BY NextIInv
<1> QED
  BY InitIInv, <1>1, PTL DEF Spec

\* The file, the branches, the pull requests and the jobs keep their types: a
\* branch holds one commit, a job one clone of the file.
THEOREM TypeCorrect == Spec => []TypeOK
<1>1. IInv => TypeOK
  BY DEF IInv, FileOK, TypesOK, TypeOK, Job
<1> QED
  BY Inductive, <1>1, PTL

\* An entry that the promoter has taken out never comes back into the queue, for
\* any number of runs, attempts and merges.
THEOREM PromotedNeverBack == Spec => []PromotedStaysOut
<1>1. IInv => PromotedStaysOut
  BY DEF IInv, FileOK
<1> QED
  BY Inductive, <1>1, PTL

\* merged=true, and the success of a job of the direct mode, are always true of the
\* job's own entry.
THEOREM OutputsAlwaysTrue == Spec => []OutputsAreTrue
<1>1. ASSUME IInv PROVE OutputsAreTrue
  <2>1. ASSUME NEW r \in Runs,
               job[r].merged \/ (job[r].pc = "done" /\ job[r].mode = "direct")
        PROVE  Queued(Entry(r))
    <3>1. job[r].attempt \in Attempts
      BY <1>1, <2>1 DEF IInv, JobOK
    <3>2. CurrentOK(r, <<r, job[r].attempt>>)
      BY <1>1, <3>1 DEF IInv, EntryOK
    <3> QED
      BY <2>1, <3>2 DEF CurrentOK, Entry
  <2> QED
    BY <2>1 DEF OutputsAreTrue
<1>2. IInv => OutputsAreTrue
  BY <1>1
<1> QED
  BY Inductive, <1>2, PTL

\* No attempt's entry is queued behind that of a later attempt of its run, whoever
\* merges and however many steps have failed after their effect.
THEOREM NeverLate == Spec => NoLateEntry
<1> DEFINE LInv == IInv /\ \A r \in Runs : LaterOK(r)
           Late == \A r \in Runs : \A i, j \in Attempts :
                     i < j /\ Queued(<<r, j>>) /\ ~Queued(<<r, i>>) => ~Queued(<<r, i>>)'
<1>1. Init => LInv
  <2>1. ASSUME Init, NEW r \in Runs PROVE LaterOK(r)
    <3>1. branch[<<r, 1>>] = None /\ job[r].pc = "idle"
      <4>1. /\ branch = [b \in Entries |-> None]
            /\ job \in [Runs -> [pc : {"idle"}, attempt : {0}, mode : Modes,
                                 base : {<<>>}, head : {0}, merged : {FALSE}]]
        BY <2>1 DEF Init
      <4>2. job[r] \in [pc : {"idle"}, attempt : {0}, mode : Modes,
                        base : {<<>>}, head : {0}, merged : {FALSE}]
        BY <4>1
      <4> QED
        BY <4>1, <4>2, FirstEntry
    <3> QED
      BY <3>1 DEF LaterOK
  <2> QED
    BY <2>1, InitIInv
<1>2. LInv /\ [Next]_vars => LInv' /\ [Late]_vars
  <2>1. LInv /\ [Next]_vars => IInv'
    BY NextIInv
  <2>2. LInv /\ [Next]_vars => Late /\ \A r \in Runs : LaterOK(r)'
    BY LaterStep
  <2> QED
    BY <2>1, <2>2
<1> QED
  BY <1>1, <1>2, PTL DEF Spec, NoLateEntry

\* No step but the promoter's takes an entry out of the queue, moves one or puts
\* one before another, whichever file the step's job has cloned.
THEOREM EntriesKept == Spec => KeepsEntries
<1>1. IInv /\ [Next]_vars => [taken' = taken => IsPrefix(file, file')]_vars
  BY NextIInv
<1> QED
  BY Inductive, <1>1, PTL DEF Spec, KeepsEntries
=============================================================================
