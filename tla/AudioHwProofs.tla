--------------------------- MODULE AudioHwProofs ---------------------------
(***************************************************************************)
(* Proofs about AudioHw and AudioOffload.                                  *)
(*                                                                         *)
(* AudioHw: an assignment gives every direction of every listed usecase    *)
(* the sound device it holds.  While select_devices works, the assignment  *)
(* that is counted differs from the one the list shows in the usecase that *)
(* is being moved; every call of enable_snd_device and disable_snd_device  *)
(* is one change of that assignment, and when Route returns it is the one  *)
(* of the list.  From there the functions that hold adev->lock are taken   *)
(* one by one, up to the actions.                                          *)
(*                                                                         *)
(* AudioOffload: the inductive invariant says for every place where the    *)
(* caller may be what then holds of the path, the state and the DSP.       *)
(***************************************************************************)
EXTENDS AudioHw, AudioOffload, FiniteSetTheorems, SequenceTheorems, WellFoundedInduction, TLAPS

-----------------------------------------------------------------------------
(* The state of the HAL, and who holds a sound device.                     *)

(* What a usecase may be routed to.                                        *)
Devs == SndDevices \cup {Combo, None}

(* The ids of the usecases the code creates.                               *)
Ids == Outputs \cup {"CAPTURE", "VOICE_CALL"}

(* A usecase of adev->usecase_list.                                        *)
UseRec == [id : Ids, type : {"PCM_PLAYBACK", "PCM_CAPTURE", "VOICE_CALL"},
           stream : Outputs \cup Inputs, in : InSndDevices \cup {None},
           out : OutSndDevices \cup {Combo, None}, mixer : BOOLEAN]

(* The fields of hal.                                                      *)
HalFields == {"mode", "uses", "snd_dev_ref_cnt", "paths", "active_input", "in_call", "wb_amr",
              "bluetooth_wb", "bt_sco_active", "session", "two_mic", "voice_pcm", "modem_path",
              "out", "in"}

(* From w to x no field changes but those of fs.                           *)
Keeps(w, x, fs) == DOMAIN x = DOMAIN w /\ \A f \in HalFields \ fs : x[f] = w[f]

(* What the argument needs of the types: the list and the counters.        *)
Shape(w) ==
    /\ DOMAIN w = HalFields
    /\ w.uses \in Seq(UseRec)
    /\ w.snd_dev_ref_cnt \in [SndDevices -> Int]

(* An assignment A says for each slot which device it holds: a slot is a   *)
(* direction of a usecase. The slots that hold device d.                   *)
UsersOf(A, d) == {s \in DOMAIN A : d \in Parts(A[s])}

(* snd_dev_ref_cnt counts the slots of assignment A.                       *)
RefsAre(w, A) == \A d \in SndDevices : w.snd_dev_ref_cnt[d] = Cardinality(UsersOf(A, d))

(* The devices of the two directions are apart, and neither the combined   *)
(* device nor SND_DEVICE_NONE is one that is counted.                      *)
LEMMA DeviceFacts ==
    /\ Combo \notin SndDevices /\ None \notin SndDevices /\ Combo # None
    /\ "SPEAKER" \in SndDevices /\ "HEADPHONES" \in SndDevices
    /\ OutSndDevices \subseteq SndDevices /\ InSndDevices \subseteq SndDevices
    /\ OutSndDevices \cap InSndDevices = {} /\ Combo \notin InSndDevices
    /\ None \notin OutSndDevices /\ None \notin InSndDevices
    BY DEF SndDevices, OutSndDevices, InSndDevices, Combo, None

(* Disabling SND_DEVICE_NONE does nothing.                                 *)
LEMMA NothingReleased ==
    ASSUME NEW w, NEW u
    PROVE  disable_snd_device(w, u, None) = w
<1>1. DisablePart(w, u, None) = w
    BY SMT DEF DisablePart
<1> QED
    BY <1>1, DeviceFacts DEF disable_snd_device

(* The number of users of device d when slot s takes a device or gives up  *)
(* the one it has.                                                         *)
LEMMA UsersChange ==
    ASSUME NEW A, NEW S, A = [s \in S |-> A[s]], IsFiniteSet(S), NEW s \in S, NEW c \in Devs,
           NEW d \in SndDevices
    PROVE  /\ Cardinality(UsersOf(A, d)) \in Nat
           /\ d \in Parts(A[s]) => Cardinality(UsersOf(A, d)) >= 1
           /\ A[s] = None =>
                Cardinality(UsersOf([A EXCEPT ![s] = c], d))
                  = Cardinality(UsersOf(A, d)) + (IF d \in Parts(c) THEN 1 ELSE 0)
           /\ Cardinality(UsersOf([A EXCEPT ![s] = None], d))
                = Cardinality(UsersOf(A, d)) - (IF d \in Parts(A[s]) THEN 1 ELSE 0)
<1> DEFINE U == UsersOf(A, d)
<1>1. DOMAIN A = S
    OBVIOUS
<1>2. IsFiniteSet(U) /\ Cardinality(U) \in Nat
    BY <1>1, FS_Subset, FS_CardinalityType DEF UsersOf
<1>3. s \in U <=> d \in Parts(A[s])
    BY <1>1 DEF UsersOf
<1>4. d \notin Parts(None)
    BY DeviceFacts DEF Parts
<1>5. ASSUME NEW e
      PROVE  UsersOf([A EXCEPT ![s] = e], d) = IF d \in Parts(e) THEN U \cup {s} ELSE U \ {s}
    BY <1>1 DEF UsersOf
<1>6. s \in U => Cardinality(U) >= 1
    BY <1>2, FS_EmptySet
<1> HIDE DEF U
<1>7. Cardinality(U \cup {s}) = IF s \in U THEN Cardinality(U) ELSE Cardinality(U) + 1
    BY <1>2, FS_AddElement
<1>8. Cardinality(U \ {s}) = IF s \in U THEN Cardinality(U) - 1 ELSE Cardinality(U)
    BY <1>2, FS_RemoveElement
<1>9. Cardinality(UsersOf([A EXCEPT ![s] = None], d)) = Cardinality(U) - (IF d \in Parts(A[s]) THEN 1 ELSE 0)
    BY <1>2, <1>3, <1>4, <1>5, <1>8
<1>10. ASSUME A[s] = None
       PROVE  Cardinality(UsersOf([A EXCEPT ![s] = c], d)) = Cardinality(U) + (IF d \in Parts(c) THEN 1 ELSE 0)
    BY <1>2, <1>3, <1>4, <1>5, <1>7, <1>8, <1>10
<1> QED
    BY <1>2, <1>3, <1>6, <1>9, <1>10 DEF U

-----------------------------------------------------------------------------
(* enable_snd_device and disable_snd_device on the counters.               *)

(* From w to x the counters of the parts of device c change by n, and      *)
(* nothing else but the paths.                                             *)
Counted(w, x, c, n) ==
    /\ Keeps(w, x, {"snd_dev_ref_cnt", "paths"}) /\ Shape(x)
    /\ \A d \in SndDevices : x.snd_dev_ref_cnt[d] = w.snd_dev_ref_cnt[d] + (IF d \in Parts(c) THEN n ELSE 0)

(* One device gains a reference.                                           *)
LEMMA EnablePartCounts ==
    ASSUME NEW w, Shape(w), NEW u, NEW c \in SndDevices
    PROVE  Counted(w, EnablePart(w, u, c), c, 1)
<1> DEFINE more == [w EXCEPT !.snd_dev_ref_cnt[c] = @ + 1]
           path == [more EXCEPT !.paths = @ \cup {PathName(c)}]
<1>1. Parts(c) = {c}
    BY DeviceFacts DEF Parts
<1>2. Counted(w, more, c, 1)
    BY <1>1 DEF Counted, Keeps, Shape, HalFields
<1>3. Counted(w, path, c, 1)
    <2> HIDE DEF more
    <2> QED
        BY <1>2 DEF Counted, Keeps, Shape, HalFields
<1>4. EnablePart(w, u, c) \in {more, path}
    BY DEF EnablePart
<1> QED
    BY <1>2, <1>3, <1>4

(* One device that has a reference loses one.                              *)
LEMMA DisablePartCounts ==
    ASSUME NEW w, Shape(w), NEW u, NEW c \in SndDevices, w.snd_dev_ref_cnt[c] >= 1
    PROVE  Counted(w, DisablePart(w, u, c), c, -1)
<1> DEFINE less == [w EXCEPT !.snd_dev_ref_cnt[c] = @ - 1]
           path == [less EXCEPT !.paths = (@ \ {PathName(c)}) \cup Cycled(w, c)]
<1>1. Parts(c) = {c} /\ c # None
    BY DeviceFacts DEF Parts
<1>2. Counted(w, less, c, -1)
    BY <1>1 DEF Counted, Keeps, Shape, HalFields
<1>3. Counted(w, path, c, -1)
    <2> HIDE DEF less
    <2> QED
        BY <1>2 DEF Counted, Keeps, Shape, HalFields
<1>4. DisablePart(w, u, c) \in {less, path}
    <2>1. ~(w.snd_dev_ref_cnt[c] <= 0)
        BY DEF Shape
    <2> QED
        BY <1>1, <2>1 DEF DisablePart
<1> QED
    BY <1>2, <1>3, <1>4

(* enable_snd_device adds a reference to each part of the device.          *)
LEMMA EnableCounts ==
    ASSUME NEW w, Shape(w), NEW u, NEW c \in SndDevices \cup {Combo}
    PROVE  Counted(w, enable_snd_device(w, u, c), c, 1)
<1>1. CASE c = Combo
    <2>1. PICK x : x = EnablePart(w, u, "SPEAKER")
        OBVIOUS
    <2>2. PICK y : y = EnablePart(x, u, "HEADPHONES")
        OBVIOUS
    <2>3. Counted(w, x, "SPEAKER", 1)
        BY <2>1, EnablePartCounts, DeviceFacts
    <2>4. Counted(x, y, "HEADPHONES", 1)
        BY <2>2, <2>3, EnablePartCounts, DeviceFacts DEF Counted
    <2>5. Parts(c) = {"SPEAKER", "HEADPHONES"} /\ Parts("SPEAKER") = {"SPEAKER"} /\ Parts("HEADPHONES") = {"HEADPHONES"}
        BY <1>1 DEF Parts, Combo
    <2>6. Counted(w, y, c, 1)
        BY <2>3, <2>4, <2>5 DEF Counted, Keeps, Shape
    <2> QED
        BY <1>1, <2>1, <2>2, <2>6 DEF enable_snd_device
<1>2. CASE c # Combo
    BY <1>2, EnablePartCounts DEF enable_snd_device
<1> QED
    BY <1>1, <1>2

(* disable_snd_device takes a reference from each part of a device in use. *)
LEMMA DisableCounts ==
    ASSUME NEW w, Shape(w), NEW u, NEW c \in Devs,
           \A d \in SndDevices : d \in Parts(c) => w.snd_dev_ref_cnt[d] >= 1
    PROVE  Counted(w, disable_snd_device(w, u, c), c, -1)
<1>1. CASE c = Combo
    <2>1. PICK x : x = DisablePart(w, u, "SPEAKER")
        OBVIOUS
    <2>2. PICK y : y = DisablePart(x, u, "HEADPHONES")
        OBVIOUS
    <2>5. Parts(c) = {"SPEAKER", "HEADPHONES"} /\ Parts("SPEAKER") = {"SPEAKER"} /\ Parts("HEADPHONES") = {"HEADPHONES"}
        BY <1>1 DEF Parts, Combo
    <2>3. Counted(w, x, "SPEAKER", -1)
        BY <2>1, <2>5, DisablePartCounts, DeviceFacts
    <2>7. x.snd_dev_ref_cnt["HEADPHONES"] >= 1
        BY <2>3, <2>5, DeviceFacts DEF Counted, Shape
    <2>4. Counted(x, y, "HEADPHONES", -1)
        BY <2>2, <2>3, <2>7, DisablePartCounts, DeviceFacts DEF Counted
    <2>6. Counted(w, y, c, -1)
        BY <2>3, <2>4, <2>5 DEF Counted, Keeps, Shape
    <2> QED
        BY <1>1, <2>1, <2>2, <2>6 DEF disable_snd_device
<1>2. CASE c = None
    <2>1. disable_snd_device(w, u, c) = w
        BY <1>2, NothingReleased
    <2>2. \A d \in SndDevices : d \notin Parts(c)
        BY <1>2, DeviceFacts DEF Parts
    <2> QED
        BY <2>1, <2>2 DEF Counted, Keeps, Shape
<1>3. CASE c \in SndDevices
    <2>1. c \in Parts(c) /\ disable_snd_device(w, u, c) = DisablePart(w, u, c)
        BY <1>3, DeviceFacts DEF Parts, disable_snd_device
    <2> QED
        BY <1>3, <2>1, DisablePartCounts
<1> QED
    BY <1>1, <1>2, <1>3 DEF Devs

(* When the device of slot s is disabled, the counters match the           *)
(* assignment without it: disable_snd_device never meets a counter that is *)
(* zero already.                                                           *)
LEMMA Release ==
    ASSUME NEW w, Shape(w), NEW u, NEW A, NEW S, A = [s \in S |-> A[s]], IsFiniteSet(S), NEW s \in S,
           A[s] \in Devs, RefsAre(w, A)
    PROVE  LET x == disable_snd_device(w, u, A[s])
           IN  Counted(w, x, A[s], -1) /\ RefsAre(x, [A EXCEPT ![s] = None])
<1> USE DEF RefsAre
<1>1. None \in Devs
    BY DEF Devs
<1>2. Counted(w, disable_snd_device(w, u, A[s]), A[s], -1)
    <2>1. \A d \in SndDevices : d \in Parts(A[s]) => w.snd_dev_ref_cnt[d] >= 1
        BY <1>1, UsersChange, ZenonT(60)
    <2> QED
        BY <2>1, DisableCounts
<1>3. PICK x : x = disable_snd_device(w, u, A[s])
    OBVIOUS
<1>4. ASSUME NEW d \in SndDevices
      PROVE  x.snd_dev_ref_cnt[d] = Cardinality(UsersOf([A EXCEPT ![s] = None], d))
    <2>1. x.snd_dev_ref_cnt[d] = w.snd_dev_ref_cnt[d] + (IF d \in Parts(A[s]) THEN -1 ELSE 0)
        BY <1>2, <1>3 DEF Counted
    <2>2. /\ Cardinality(UsersOf([A EXCEPT ![s] = None], d))
                = Cardinality(UsersOf(A, d)) - (IF d \in Parts(A[s]) THEN 1 ELSE 0)
          /\ Cardinality(UsersOf(A, d)) \in Nat
        BY <1>1, UsersChange
    <2> QED
        BY <2>1, <2>2
<1> QED
    BY <1>2, <1>3, <1>4

(* When a device is enabled for a slot that has none, the counters match   *)
(* the assignment with it.                                                 *)
LEMMA Acquire ==
    ASSUME NEW w, Shape(w), NEW u, NEW A, NEW S, A = [s \in S |-> A[s]], IsFiniteSet(S), NEW s \in S,
           A[s] = None, NEW c \in SndDevices \cup {Combo}, RefsAre(w, A)
    PROVE  LET x == enable_snd_device(w, u, c)
           IN  Counted(w, x, c, 1) /\ RefsAre(x, [A EXCEPT ![s] = c])
<1> USE DEF RefsAre
<1>1. c \in Devs
    BY DEF Devs
<1>2. PICK x : x = enable_snd_device(w, u, c)
    OBVIOUS
<1>3. Counted(w, x, c, 1)
    BY <1>2, EnableCounts
<1>4. ASSUME NEW d \in SndDevices
      PROVE  x.snd_dev_ref_cnt[d] = Cardinality(UsersOf([A EXCEPT ![s] = c], d))
    <2>1. x.snd_dev_ref_cnt[d] = w.snd_dev_ref_cnt[d] + (IF d \in Parts(c) THEN 1 ELSE 0)
        BY <1>3 DEF Counted
    <2>2. Cardinality(UsersOf([A EXCEPT ![s] = c], d))
                = Cardinality(UsersOf(A, d)) + (IF d \in Parts(c) THEN 1 ELSE 0)
        BY <1>1, UsersChange
    <2> QED
        BY <2>1, <2>2
<1> QED
    BY <1>2, <1>3, <1>4

-----------------------------------------------------------------------------
(* The same on the mixer paths.                                            *)

(* The paths of the devices whose counter is not zero.                     *)
HeldPaths(cnt) == {PathName(d) : d \in {e \in SndDevices : cnt[e] > 0}}

(* PathsMatchRefs, of any state of the HAL.                                *)
PathsAre(w) == w.paths \ {Combo} = HeldPaths(w.snd_dev_ref_cnt)

(* Only input devices share a path, so that what holds of devices holds of *)
(* paths in the other direction.                                           *)
LEMMA PathNames ==
    /\ \A e \in OutSndDevices \cup {Combo} : PathName(e) = e
    /\ \A e \in InSndDevices : PathName(e) \in InSndDevices
    /\ \A e \in SndDevices : PathName(e) # Combo
<1>1. ASSUME NEW e PROVE
        PathName(e) = IF e = "EARPIECE_MIC_AEC" THEN "EARPIECE_MIC"
                      ELSE IF e = "HEADSET_MIC_AEC" THEN "HEADSET_MIC"
                      ELSE IF e = "SPEAKER_MIC_AEC" THEN "VOICE_SPEAKER_MIC" ELSE e
    BY DEF PathName
<1>2. \A e \in OutSndDevices \cup {Combo} : PathName(e) = e
    BY <1>1 DEF OutSndDevices, Combo
<1>3. \A e \in InSndDevices : PathName(e) \in InSndDevices
    BY <1>1 DEF InSndDevices
<1> QED
    BY <1>2, <1>3, DeviceFacts DEF SndDevices

(* The first reference applies the path.                                   *)
LEMMA EnablePartPaths ==
    ASSUME NEW w, Shape(w), NEW u, NEW c \in SndDevices, u.mixer, PathsAre(w),
           \A d \in SndDevices : w.snd_dev_ref_cnt[d] >= 0
    PROVE  PathsAre(EnablePart(w, u, c))
<1>1. PICK x : x = EnablePart(w, u, c)
    OBVIOUS
<1>2. x.paths = IF w.snd_dev_ref_cnt[c] = 0 THEN w.paths \cup {PathName(c)} ELSE w.paths
    BY <1>1 DEF EnablePart, Shape, HalFields
<1>3. x.snd_dev_ref_cnt \in [SndDevices -> Int]
      /\ \A d \in SndDevices : x.snd_dev_ref_cnt[d] = w.snd_dev_ref_cnt[d] + (IF d = c THEN 1 ELSE 0)
    <2>1. Parts(c) = {c}
        BY DeviceFacts DEF Parts
    <2> QED
        BY <1>1, <2>1, EnablePartCounts DEF Counted, Shape
<1>4. HeldPaths(x.snd_dev_ref_cnt) = HeldPaths(w.snd_dev_ref_cnt) \cup {PathName(c)}
    BY <1>3 DEF HeldPaths, Shape
<1>5. PathName(c) # Combo
    BY PathNames
<1>6. CASE w.snd_dev_ref_cnt[c] = 0
    BY <1>1, <1>2, <1>4, <1>5, <1>6 DEF PathsAre
<1>7. CASE w.snd_dev_ref_cnt[c] # 0
    <2>1. PathName(c) \in HeldPaths(w.snd_dev_ref_cnt)
        BY <1>7 DEF HeldPaths, Shape
    <2> QED
        BY <1>1, <1>2, <1>4, <1>7, <2>1 DEF PathsAre
<1> QED
    BY <1>6, <1>7

(* The last reference resets the path. No other device in use may share    *)
(* it, and what Cycled applies again must be in use.                       *)
LEMMA DisablePartPaths ==
    ASSUME NEW w, Shape(w), NEW u, NEW c \in SndDevices, w.snd_dev_ref_cnt[c] >= 1,
           u.mixer, PathsAre(w),
           \A e \in SndDevices \ {c} : w.snd_dev_ref_cnt[e] > 0 => PathName(e) # PathName(c),
           Cycled(w, c) \subseteq
               {PathName(d) : d \in {e \in SndDevices \ {c} : w.snd_dev_ref_cnt[e] > 0}} \cup {Combo}
    PROVE  PathsAre(DisablePart(w, u, c))
<1>1. PICK x : x = DisablePart(w, u, c)
    OBVIOUS
<1>0. c # None /\ ~(w.snd_dev_ref_cnt[c] <= 0)
    BY DeviceFacts DEF Shape
<1>2. x.paths = IF w.snd_dev_ref_cnt[c] = 1 THEN (w.paths \ {PathName(c)}) \cup Cycled(w, c) ELSE w.paths
    BY <1>0, <1>1 DEF DisablePart, Shape, HalFields
<1>3. x.snd_dev_ref_cnt \in [SndDevices -> Int]
      /\ \A d \in SndDevices : x.snd_dev_ref_cnt[d] = w.snd_dev_ref_cnt[d] + (IF d = c THEN -1 ELSE 0)
    <2>1. Parts(c) = {c}
        BY DeviceFacts DEF Parts
    <2> QED
        BY <1>1, <2>1, DisablePartCounts DEF Counted, Shape
<1>6. CASE w.snd_dev_ref_cnt[c] = 1
    <2> DEFINE rest == {e \in SndDevices \ {c} : w.snd_dev_ref_cnt[e] > 0}
    <2>1. {e \in SndDevices : x.snd_dev_ref_cnt[e] > 0} = rest
        BY <1>3, <1>6 DEF Shape
    <2>2. {e \in SndDevices : w.snd_dev_ref_cnt[e] > 0} = rest \cup {c}
        BY <1>6 DEF Shape
    <2>3. \A e \in rest : PathName(e) # PathName(c)
        OBVIOUS
    <2>4. HeldPaths(x.snd_dev_ref_cnt) = {PathName(d) : d \in rest}
        BY <2>1 DEF HeldPaths
    <2>5. HeldPaths(w.snd_dev_ref_cnt) = {PathName(d) : d \in rest} \cup {PathName(c)}
        BY <2>2 DEF HeldPaths
    <2>6. Combo \notin {PathName(d) : d \in rest}
        BY PathNames
    <2>7. PathName(c) \notin {PathName(d) : d \in rest}
        BY <2>3
    <2>8. PICK P : P = {PathName(d) : d \in rest}
        OBVIOUS
    <2>9. Cycled(w, c) \subseteq P \cup {Combo}
        BY <2>8
    <2> HIDE DEF rest
    <2> QED
        BY <1>1, <1>2, <1>6, <2>4, <2>5, <2>6, <2>7, <2>8, <2>9 DEF PathsAre
<1>7. CASE w.snd_dev_ref_cnt[c] # 1
    <2>0. \A e \in SndDevices : x.snd_dev_ref_cnt[e] > 0 <=> w.snd_dev_ref_cnt[e] > 0
        BY <1>3, <1>7 DEF Shape
    <2>1. HeldPaths(x.snd_dev_ref_cnt) = HeldPaths(w.snd_dev_ref_cnt)
        BY <2>0, Zenon DEF HeldPaths
    <2> QED
        BY <1>1, <1>2, <1>7, <2>1 DEF PathsAre
<1> QED
    BY <1>6, <1>7

-----------------------------------------------------------------------------
(* Searching the list, and induction on its length.                        *)

(* A set of numbers that is not empty has a least element.                 *)
LEMMA LeastExists ==
    ASSUME NEW T \in SUBSET Nat, NEW e \in T
    PROVE  Min(T) \in T /\ \A k \in T : Min(T) <= k
<1> DEFINE R == {p \in Nat \X Nat : p[1] < p[2]}
<1>1. IsWellFoundedOn(R, Nat)
    BY NatLessThanWellFounded DEF OpToRel
<1>2. PICK m \in T : \A k \in T : <<k, m>> \notin R
    <2> HIDE DEF R
    <2> QED
        BY <1>1, WFMin
<1>3. ASSUME NEW k \in T PROVE m <= k
    <2>1. ~(k < m)
        BY <1>2
    <2> QED
        BY <2>1
<1> QED
    BY <1>3 DEF Min

(* Induction up to n, over the set of the numbers that are reached.        *)
LEMMA UpTo ==
    ASSUME NEW T \in SUBSET Nat, NEW n \in Nat, 0 \in T,
           \A m \in Nat : m \in T /\ m < n => m + 1 \in T
    PROVE  n \in T
<1> SUFFICES ASSUME n \notin T PROVE FALSE
    OBVIOUS
<1> DEFINE Bad == {m \in Nat : m \notin T /\ m <= n}
<1>1. n \in Bad /\ Bad \in SUBSET Nat
    OBVIOUS
<1>2. PICK m : m \in Bad /\ \A k \in Bad : m <= k
    BY <1>1, LeastExists
<1>3. m \in Nat /\ m # 0 /\ m <= n
    BY <1>2
<1>4. m - 1 \in Nat /\ ~(m <= m - 1) /\ (m - 1) + 1 = m /\ m - 1 < n
    BY <1>3
<1>5. m - 1 \in T
    BY <1>2, <1>4
<1> QED
    BY <1>2, <1>4, <1>5

(* get_usecase_from_type returns a usecase of one of the types, if there   *)
(* is one.                                                                 *)
LEMMA TypeFound ==
    ASSUME NEW w, w.uses \in Seq(UseRec), NEW types, NEW k, k = get_usecase_from_type(w, types), k # 0
    PROVE  k \in DOMAIN w.uses /\ w.uses[k].type \in types
<1> DEFINE I == {i \in 1..Len(w.uses) : w.uses[i].type \in types}
<1>1. k = IF I # {} THEN Min(I) ELSE 0
    BY DEF get_usecase_from_type, SelectInSeq
<1>2. I # {} => Min(I) \in I
    <2>1. I \in SUBSET Nat
        OBVIOUS
    <2> QED
        BY <2>1, LeastExists
<1>3. DOMAIN w.uses = 1..Len(w.uses)
    OBVIOUS
<1> QED
    BY <1>1, <1>2, <1>3

(* No two usecases of the list have the same id.                           *)
Distinct(w) == \A k, l \in DOMAIN w.uses : w.uses[k].id = w.uses[l].id => k = l

(* get_usecase_from_id then finds the usecase that has the id.             *)
LEMMA IdFound ==
    ASSUME NEW w, w.uses \in Seq(UseRec), Distinct(w), NEW k \in DOMAIN w.uses
    PROVE  get_usecase_from_id(w, w.uses[k].id) = k
<1> DEFINE I == {i \in 1..Len(w.uses) : w.uses[i].id = w.uses[k].id}
<1>1. get_usecase_from_id(w, w.uses[k].id) = IF I # {} THEN Min(I) ELSE 0
    BY DEF get_usecase_from_id, SelectInSeq
<1>3. DOMAIN w.uses = 1..Len(w.uses)
    OBVIOUS
<1>2. I = {k}
    BY <1>3 DEF Distinct
<1>4. Min({k}) \in {k}
    <2>1. {k} \in SUBSET Nat
        BY <1>3
    <2> QED
        BY <2>1, LeastExists
<1> QED
    BY <1>1, <1>2, <1>4

-----------------------------------------------------------------------------
(* One device is released or taken, counters and paths together.           *)

(* Every set of devices an output is routed to meets a playback profile,   *)
(* so that a playback usecase has the mixer of its card.                   *)
Covered == \A d \in OutDevices : d \cap PlaybackProfile # {}

(* The counters match assignment A and, if every usecase has its mixer,    *)
(* the paths match the counters.                                           *)
Sound(w, A) == RefsAre(w, A) /\ (Covered => PathsAre(w))

(* At most one input device is in use. Two of them could share a path.     *)
OneIn(A) == \A s, t \in DOMAIN A : A[s] \in InSndDevices /\ A[t] \in InSndDevices => A[s] = A[t]

(* The assignment shows the playback usecases as they are.                 *)
PlaybackShown(w, A) ==
    \A k \in DOMAIN w.uses : w.uses[k].type = "PCM_PLAYBACK" =>
        <<k, "out">> \in DOMAIN A /\ A[<<k, "out">>] = w.uses[k].out

(* A step that changes the counters and the paths only.                    *)
Moved(w, x) == Keeps(w, x, {"snd_dev_ref_cnt", "paths"}) /\ Shape(x)

(* Disabling the device of slot s leaves the paths right. For an input     *)
(* device this needs that no other one is in use, and that the path that   *)
(* disable_snd_device cycles is that of a playback device in use.          *)
LEMMA PathsReleased ==
    ASSUME NEW w, Shape(w), NEW u, u.mixer, NEW A, NEW S, A = [s \in S |-> A[s]], IsFiniteSet(S),
           NEW s \in S, A[s] \in Devs, RefsAre(w, A), PathsAre(w),
           A[s] \in InSndDevices => OneIn(A) /\ PlaybackShown(w, A)
    PROVE  PathsAre(disable_snd_device(w, u, A[s]))
<1>0. DOMAIN A = S /\ None \in Devs
    BY DEF Devs
<1>01. ASSUME NEW d \in SndDevices, NEW t \in S
       PROVE  /\ Cardinality(UsersOf(A, d)) \in Nat
              /\ d \in Parts(A[t]) => Cardinality(UsersOf(A, d)) >= 1
    BY <1>0, UsersChange
<1>1. \A d \in SndDevices : w.snd_dev_ref_cnt[d] = Cardinality(UsersOf(A, d)) /\ w.snd_dev_ref_cnt[d] \in Nat
    BY <1>01 DEF RefsAre
<1>2. \A d \in SndDevices : \A t \in S : d \in Parts(A[t]) => w.snd_dev_ref_cnt[d] >= 1
    BY <1>01, <1>1
<1>3. \A d \in SndDevices : w.snd_dev_ref_cnt[d] > 0 => \E t \in S : d \in Parts(A[t])
    BY <1>0, <1>1, FS_EmptySet DEF UsersOf
<1>4. ASSUME NEW c \in OutSndDevices, NEW e \in SndDevices \ {c} PROVE PathName(e) # PathName(c)
    BY <1>4, PathNames, DeviceFacts DEF SndDevices
<1>5. \A c \in OutSndDevices : \A x : Cycled(x, c) = {}
    BY DeviceFacts DEF Cycled
<1>6. CASE A[s] = Combo
    <2>1. PICK x : x = DisablePart(w, u, "SPEAKER")
        OBVIOUS
    <2>2. "SPEAKER" \in OutSndDevices /\ "HEADPHONES" \in OutSndDevices
        BY DEF OutSndDevices
    <2>3. Parts(A[s]) = {"SPEAKER", "HEADPHONES"} /\ Parts("SPEAKER") = {"SPEAKER"}
        BY <1>6 DEF Parts, Combo
    <2>4. w.snd_dev_ref_cnt["SPEAKER"] >= 1 /\ w.snd_dev_ref_cnt["HEADPHONES"] >= 1
        BY <1>2, <2>2, <2>3, DeviceFacts
    <2>5. Counted(w, x, "SPEAKER", -1)
        BY <2>1, <2>2, <2>4, DisablePartCounts, DeviceFacts
    <2>6. PathsAre(x)
        BY <1>4, <1>5, <2>1, <2>2, <2>4, DisablePartPaths, DeviceFacts
    <2>71. x.snd_dev_ref_cnt["HEADPHONES"] = w.snd_dev_ref_cnt["HEADPHONES"] + 0
        BY <2>3, <2>5, DeviceFacts DEF Counted
    <2>7. x.snd_dev_ref_cnt["HEADPHONES"] >= 1 /\ Shape(x)
        BY <1>1, <2>4, <2>5, <2>71, DeviceFacts DEF Counted
    <2>8. PathsAre(DisablePart(x, u, "HEADPHONES"))
        BY <1>4, <1>5, <2>2, <2>6, <2>7, DisablePartPaths, DeviceFacts
    <2> QED
        BY <1>6, <2>1, <2>8 DEF disable_snd_device
<1>7. CASE A[s] = None
    <2>1. disable_snd_device(w, u, A[s]) = w
        BY <1>7, NothingReleased
    <2> QED
        BY <2>1
<1>8. ASSUME A[s] \in SndDevices PROVE
        w.snd_dev_ref_cnt[A[s]] >= 1 /\ disable_snd_device(w, u, A[s]) = DisablePart(w, u, A[s])
    BY <1>2, <1>8, DeviceFacts DEF Parts, disable_snd_device
<1>9. CASE A[s] \in OutSndDevices
    <2>1. A[s] \in SndDevices
        BY <1>9, DeviceFacts
    <2> QED
        BY <1>4, <1>5, <1>8, <1>9, <2>1, DisablePartPaths
<1>10. CASE A[s] \in InSndDevices
    <2> DEFINE c == A[s]
    <2>1. c \in SndDevices /\ OneIn(A) /\ PlaybackShown(w, A)
        BY <1>10, DeviceFacts
    <2>2. ASSUME NEW e \in SndDevices \ {c}, w.snd_dev_ref_cnt[e] > 0
          PROVE  PathName(e) # PathName(c)
        <3>1. CASE e \in OutSndDevices
            BY <1>10, <3>1, PathNames, DeviceFacts
        <3>2. CASE e \in InSndDevices
            <4>1. PICK t \in S : e \in Parts(A[t])
                BY <1>3, <2>2
            <4>2. e \notin {"SPEAKER", "HEADPHONES"}
                BY <3>2 DEF InSndDevices
            <4>3. A[t] = e
                BY <4>1, <4>2 DEF Parts
            <4> QED
                BY <1>0, <1>10, <2>1, <2>2, <3>2, <4>3 DEF OneIn
        <3> QED
            BY <3>1, <3>2 DEF SndDevices
    <2>3. Cycled(w, c) \subseteq
               {PathName(d) : d \in {e \in SndDevices \ {c} : w.snd_dev_ref_cnt[e] > 0}} \cup {Combo}
        <3>1. PICK k : k = get_usecase_from_type(w, {"PCM_PLAYBACK"})
            OBVIOUS
        <3>2. CASE k # 0 /\ w.uses[k].out # None
            <4>1. k \in DOMAIN w.uses /\ w.uses[k].type = "PCM_PLAYBACK"
                BY <3>1, <3>2, TypeFound DEF Shape
            <4>2. <<k, "out">> \in S /\ A[<<k, "out">>] = w.uses[k].out
                BY <1>0, <2>1, <4>1 DEF PlaybackShown
            <4>3. w.uses[k].out \in OutSndDevices \cup {Combo}
                <5>1. w.uses[k] \in UseRec
                    BY <4>1, ElementOfSeq DEF Shape
                <5> QED
                    BY <3>2, <5>1 DEF UseRec
            <4>4. Cycled(w, c) \subseteq {PathName(w.uses[k].out)}
                BY <3>1 DEF Cycled
            <4>5. CASE w.uses[k].out = Combo
                BY <4>4, <4>5, PathNames
            <4>6. CASE w.uses[k].out \in OutSndDevices
                <5>1. w.uses[k].out \in Parts(A[<<k, "out">>]) /\ w.uses[k].out \in SndDevices \ {c}
                    BY <1>10, <4>2, <4>6, DeviceFacts DEF Parts
                <5>2. w.snd_dev_ref_cnt[w.uses[k].out] > 0
                    BY <1>1, <1>2, <4>2, <5>1
                <5> QED
                    BY <4>4, <5>1, <5>2
            <4> QED
                BY <4>3, <4>5, <4>6
        <3>3. CASE ~(k # 0 /\ w.uses[k].out # None)
            BY <3>1, <3>3 DEF Cycled
        <3> QED
            BY <3>2, <3>3
    <2>4. w.snd_dev_ref_cnt[c] >= 1 /\ disable_snd_device(w, u, c) = DisablePart(w, u, c)
        BY <1>8, <2>1
    <2> HIDE DEF c
    <2>5. PathsAre(DisablePart(w, u, c))
        BY <2>1, <2>2, <2>3, <2>4, DisablePartPaths
    <2> QED
        BY <2>4, <2>5 DEF c
<1> QED
    BY <1>6, <1>7, <1>9, <1>10 DEF Devs, SndDevices

(* Release and PathsReleased together.                                     *)
LEMMA Freed ==
    ASSUME NEW w, Shape(w), NEW u, NEW A, NEW S, A = [s \in S |-> A[s]], IsFiniteSet(S), NEW s \in S,
           A[s] \in Devs, Sound(w, A), Covered => u.mixer,
           A[s] \in InSndDevices => OneIn(A) /\ PlaybackShown(w, A)
    PROVE  LET x == disable_snd_device(w, u, A[s])
           IN  Moved(w, x) /\ Sound(x, [A EXCEPT ![s] = None])
    BY Release, PathsReleased DEF Sound, Counted, Moved

(* Acquire and EnablePartPaths together.                                   *)
LEMMA Taken ==
    ASSUME NEW w, Shape(w), NEW u, NEW A, NEW S, A = [s \in S |-> A[s]], IsFiniteSet(S), NEW s \in S,
           A[s] = None, NEW c \in SndDevices \cup {Combo}, Sound(w, A), Covered => u.mixer
    PROVE  LET x == enable_snd_device(w, u, c)
           IN  Moved(w, x) /\ Sound(x, [A EXCEPT ![s] = c])
<1>1. Counted(w, enable_snd_device(w, u, c), c, 1) /\ RefsAre(enable_snd_device(w, u, c), [A EXCEPT ![s] = c])
    BY Acquire DEF Sound
<1>2. ASSUME PathsAre(w), u.mixer PROVE PathsAre(enable_snd_device(w, u, c))
    <2>0. None \in Devs
        BY DEF Devs
    <2>1. \A d \in SndDevices : w.snd_dev_ref_cnt[d] >= 0
        BY <2>0, UsersChange DEF Sound, RefsAre
    <2>2. CASE c = Combo
        <3>1. PICK x : x = EnablePart(w, u, "SPEAKER")
            OBVIOUS
        <3>2. Counted(w, x, "SPEAKER", 1) /\ PathsAre(x)
            BY <1>2, <2>1, <3>1, EnablePartCounts, EnablePartPaths, DeviceFacts
        <3>3. \A d \in SndDevices : x.snd_dev_ref_cnt[d] >= 0
            BY <2>1, <3>2 DEF Counted, Shape
        <3>4. PathsAre(EnablePart(x, u, "HEADPHONES"))
            BY <1>2, <3>2, <3>3, EnablePartPaths, DeviceFacts DEF Counted
        <3> QED
            BY <2>2, <3>1, <3>4 DEF enable_snd_device
    <2>3. CASE c # Combo
        BY <1>2, <2>1, <2>3, EnablePartPaths DEF enable_snd_device
    <2> QED
        BY <2>2, <2>3
<1> QED
    BY <1>1, <1>2 DEF Sound, Counted, Moved

(* A function or record with one value changed.                            *)
With(f, e, v) == [f EXCEPT ![e] = v]

(* Taken, with the new assignment under a name.                            *)
LEMMA TakenWith ==
    ASSUME NEW w, Shape(w), NEW u, NEW A, NEW S, A = [s \in S |-> A[s]], IsFiniteSet(S), NEW s \in S,
           A[s] = None, NEW c \in SndDevices \cup {Combo}, Sound(w, A), Covered => u.mixer,
           NEW x, x = enable_snd_device(w, u, c), NEW B, B = With(A, s, c)
    PROVE  Moved(w, x) /\ Sound(x, B)
    BY Taken DEF With

-----------------------------------------------------------------------------
(* check_and_route_usecases: the other usecases of a type move to the      *)
(* device.                                                                 *)

(* A position of the list and a direction.                                 *)
Slots(w) == (DOMAIN w.uses) \X {"in", "out"}

(* The assignment that is counted while the usecase at p is being moved:   *)
(* it holds a for its output and nothing for its input.                    *)
Routed(w, p, a) ==
    [s \in Slots(w) |-> IF s[1] = p THEN IF s[2] = "out" THEN a ELSE None
                        ELSE w.uses[s[1]][s[2]]]

(* What is the same for the whole life of a usecase: its id fixes its      *)
(* type, and a playback usecase has no input device, a capture no output   *)
(* device.                                                                 *)
Struct(w) ==
    /\ Distinct(w)
    /\ \A k \in DOMAIN w.uses :
        /\ w.uses[k].id \in Outputs => w.uses[k].type = "PCM_PLAYBACK" /\ w.uses[k].in = None
        /\ w.uses[k].id = "CAPTURE" => w.uses[k].type = "PCM_CAPTURE" /\ w.uses[k].out = None
        /\ w.uses[k].id = "VOICE_CALL" => w.uses[k].type = "VOICE_CALL"
        /\ Covered => w.uses[k].mixer

(* The direction that check_and_route_usecases looks at.                   *)
Dir(type) == IF type = "PCM_PLAYBACK" THEN "out" ELSE "in"

(* The devices of that direction.                                          *)
Targets(type) == IF type = "PCM_PLAYBACK" THEN OutSndDevices \cup {Combo} ELSE InSndDevices

(* A usecase as check_and_route_usecases leaves it.                        *)
SwitchedUse(u, id, type, d) == IF u.type # type \/ u.id = id THEN u ELSE [u EXCEPT ![Dir(type)] = d]

(* There are finitely many slots.                                          *)
LEMMA SlotsFinite ==
    ASSUME NEW w, Shape(w)
    PROVE  IsFiniteSet(Slots(w))
<1>1. w.uses \in Seq(UseRec)
    BY DEF Shape
<1>2. DOMAIN w.uses = 1..Len(w.uses) /\ Len(w.uses) \in Nat
    BY <1>1
<1>3. IsFiniteSet(DOMAIN w.uses)
    BY <1>2, FS_Interval
<1>4. IsFiniteSet({"in", "out"})
    <2>1. {"in", "out"} = {"in"} \cup {"out"}
        OBVIOUS
    <2>2. IsFiniteSet({"in"})
        BY FS_Singleton
    <2>3. IsFiniteSet({"in"} \cup {"out"})
        BY <2>2, FS_AddElement, Zenon
    <2> QED
        BY <2>1, <2>3
<1> QED
    BY <1>3, <1>4, FS_Product DEF Slots

(* The types of the fields of a usecase.                                   *)
LEMMA UseTyped ==
    ASSUME NEW w, Shape(w), NEW k \in DOMAIN w.uses
    PROVE  /\ w.uses[k] \in UseRec /\ DOMAIN w.uses[k] = {"id", "type", "stream", "in", "out", "mixer"}
           /\ w.uses[k].id \in Ids /\ w.uses[k].type \in {"PCM_PLAYBACK", "PCM_CAPTURE", "VOICE_CALL"}
           /\ w.uses[k].stream \in Outputs \cup Inputs
           /\ w.uses[k].in \in InSndDevices \cup {None} /\ w.uses[k].out \in OutSndDevices \cup {Combo, None}
           /\ w.uses[k].mixer \in BOOLEAN
<1>1. w.uses[k] \in UseRec
    BY ElementOfSeq DEF Shape
<1> QED
    BY <1>1 DEF UseRec

(* The fields of a usecase that was switched.                              *)
LEMMA SwitchedTyped ==
    ASSUME NEW u \in UseRec, NEW id, NEW type \in {"PCM_PLAYBACK", "PCM_CAPTURE"}, NEW d \in Targets(type)
    PROVE  /\ SwitchedUse(u, id, type, d) \in UseRec
           /\ \A f \in {"id", "type", "stream", "in", "out", "mixer"} \ {Dir(type)} :
                SwitchedUse(u, id, type, d)[f] = u[f]
           /\ SwitchedUse(u, id, type, d)[Dir(type)] = IF u.type # type \/ u.id = id THEN u[Dir(type)] ELSE d
           /\ u[Dir(type)] = d => SwitchedUse(u, id, type, d) = u
<1>1. CASE type = "PCM_PLAYBACK"
    BY <1>1 DEF UseRec, SwitchedUse, Dir, Targets
<1>2. CASE type = "PCM_CAPTURE"
    BY <1>2 DEF UseRec, SwitchedUse, Dir, Targets
<1> QED
    BY <1>1, <1>2

(* SetDevice changes one direction of one usecase.                         *)
LEMMA SetDeviceEffect ==
    ASSUME NEW w, Shape(w), Distinct(w), NEW k \in DOMAIN w.uses, NEW dir, NEW d,
           NEW id, id = w.uses[k].id, NEW v \in UseRec, v = With(w.uses[k], dir, d),
           NEW x, x = SetDevice(w, id, dir, d)
    PROVE  /\ Shape(x) /\ Keeps(w, x, {"uses"})
           /\ x.uses = With(w.uses, k, v)
<1>1. get_usecase_from_id(w, id) = k
    BY IdFound DEF Shape
<1>3. x = [w EXCEPT !.uses[k][dir] = d]
    BY <1>1 DEF SetDevice
<1>5. x = [w EXCEPT !.uses = [w.uses EXCEPT ![k] = v]]
    BY <1>3, SMT DEF With
<1>6. [w.uses EXCEPT ![k] = v] \in Seq(UseRec)
    BY ExceptSeq DEF Shape
<1>7. x.uses = [w.uses EXCEPT ![k] = v] /\ x.snd_dev_ref_cnt = w.snd_dev_ref_cnt /\ DOMAIN x = HalFields
    BY <1>5 DEF Shape, HalFields
<1> QED
    BY <1>5, <1>6, <1>7 DEF Shape, Keeps, With

(* What Routed assigns to each slot.                                       *)
RoutedOk(w, p, a) ==
    /\ Routed(w, p, a) = [s \in Slots(w) |-> Routed(w, p, a)[s]]
    /\ \A s \in Slots(w) : Routed(w, p, a)[s] \in Devs
    /\ Routed(w, p, a)[<<p, "in">>] = None /\ Routed(w, p, a)[<<p, "out">>] = a
    /\ \A k \in DOMAIN w.uses \ {p} : \A dir \in {"in", "out"} :
         Routed(w, p, a)[<<k, dir>>] = w.uses[k][dir]
    /\ w.uses[p].type # "PCM_PLAYBACK" => PlaybackShown(w, Routed(w, p, a)) /\ OneIn(Routed(w, p, a))

(* It does so in every state of the list.                                  *)
LEMMA RoutedFacts ==
    ASSUME NEW w, Shape(w), Struct(w), NEW p \in DOMAIN w.uses, NEW a \in OutSndDevices \cup {Combo, None}
    PROVE  RoutedOk(w, p, a)
<1>1. \A k \in DOMAIN w.uses : w.uses[k].in \in InSndDevices \cup {None}
                                /\ w.uses[k].out \in OutSndDevices \cup {Combo, None}
                                /\ w.uses[k].id \in Ids
    BY UseTyped
<1>2. \A s \in Slots(w) : s[1] \in DOMAIN w.uses /\ s[2] \in {"in", "out"} /\ s = <<s[1], s[2]>>
    BY DEF Slots
<1>3. \A k \in DOMAIN w.uses, dir \in {"in", "out"} : <<k, dir>> \in Slots(w)
    BY DEF Slots
<1>4. PICK R : R = Routed(w, p, a)
    OBVIOUS
<1>5. DOMAIN R = Slots(w) /\ R = [s \in Slots(w) |-> R[s]]
    BY <1>4 DEF Routed
<1>6. \A k \in DOMAIN w.uses, dir \in {"in", "out"} :
        R[<<k, dir>>] = IF k = p THEN IF dir = "out" THEN a ELSE None ELSE w.uses[k][dir]
    BY <1>3, <1>4 DEF Routed
<1>7. ASSUME NEW s \in Slots(w) PROVE R[s] \in Devs
    <2>0. PICK k \in DOMAIN w.uses, dir \in {"in", "out"} : s = <<k, dir>>
        BY DEF Slots
    <2>1. dir = "in" => R[s] \in InSndDevices \cup {None}
        BY <1>1, <1>6, <2>0
    <2>2. dir = "out" => R[s] \in OutSndDevices \cup {Combo, None}
        BY <1>1, <1>6, <2>0
    <2> QED
        BY <2>1, <2>2 DEF Devs, SndDevices
<1>8. ASSUME w.uses[p].type # "PCM_PLAYBACK" PROVE PlaybackShown(w, R)
    BY <1>3, <1>5, <1>6, <1>8 DEF PlaybackShown
<1>9. ASSUME w.uses[p].type # "PCM_PLAYBACK" PROVE OneIn(R)
    <2> SUFFICES ASSUME NEW s \in Slots(w), NEW t \in Slots(w), R[s] \in InSndDevices, R[t] \in InSndDevices
                 PROVE  R[s] = R[t]
        BY <1>5 DEF OneIn
    <2>1. ASSUME NEW q \in Slots(w), R[q] \in InSndDevices
          PROVE  q[2] = "in" /\ q[1] # p /\ w.uses[q[1]].id \in {"CAPTURE", "VOICE_CALL"}
        <3>0. PICK k \in DOMAIN w.uses, dir \in {"in", "out"} : q = <<k, dir>>
            BY DEF Slots
        <3>1. dir # "out"
            BY <1>1, <1>6, <2>1, <3>0, DeviceFacts, ZenonT(60)
        <3>2. dir = "in" /\ k # p
            BY <1>6, <2>1, <3>0, <3>1, DeviceFacts
        <3>3. w.uses[k].in # None
            BY <1>6, <2>1, <3>0, <3>2, DeviceFacts
        <3>4. w.uses[k].id \in {"CAPTURE", "VOICE_CALL"}
            BY <1>1, <3>3 DEF Struct, Ids
        <3> QED
            BY <3>0, <3>2, <3>4
    <2>2. w.uses[p].id \in {"CAPTURE", "VOICE_CALL"}
        BY <1>1, <1>9 DEF Struct, Ids
    <2>3. s[1] \in DOMAIN w.uses /\ t[1] \in DOMAIN w.uses
        BY <1>2
    <2>4. w.uses[s[1]].id # w.uses[p].id /\ w.uses[t[1]].id # w.uses[p].id
        BY <2>1, <2>3 DEF Struct, Distinct
    <2>5. w.uses[s[1]].id = w.uses[t[1]].id
        BY <2>1, <2>2, <2>4
    <2>6. s[1] = t[1]
        BY <2>3, <2>5 DEF Struct, Distinct
    <2> QED
        BY <1>2, <2>1, <2>6
<1> QED
    BY <1>4, <1>5, <1>6, <1>7, <1>8, <1>9 DEF RoutedOk

(* One iteration of the loop keeps the counters and the paths right for    *)
(* the list it leaves, the usecase at p still being moved.                 *)
LEMMA SwitchStep ==
    ASSUME NEW w, Shape(w), Struct(w), NEW p \in DOMAIN w.uses, NEW k \in DOMAIN w.uses,
           NEW id, id = w.uses[p].id, NEW type \in {"PCM_PLAYBACK", "PCM_CAPTURE"}, NEW d \in Targets(type),
           NEW a \in OutSndDevices \cup {Combo, None}, Sound(w, Routed(w, p, a)),
           type = "PCM_CAPTURE" => w.uses[p].type # "PCM_PLAYBACK",
           NEW next, next = SwitchUsecase(w, w.uses[k], id, type, d)
    PROVE  /\ Shape(next) /\ Keeps(w, next, {"uses", "snd_dev_ref_cnt", "paths"})
           /\ next.uses = With(w.uses, k, SwitchedUse(w.uses[k], id, type, d))
           /\ Sound(next, Routed(next, p, a))
<1>00. RoutedOk(w, p, a)
    BY RoutedFacts
<1>0. PICK u : u = w.uses[k]
    OBVIOUS
<1>01. PICK dir : dir = Dir(type)
    OBVIOUS
<1>02. dir \in {"in", "out"}
    BY <1>01 DEF Dir
<1>1. u \in UseRec
    BY <1>0, UseTyped
<1>4. /\ SwitchedUse(u, id, type, d) \in UseRec
      /\ u[dir] = d => SwitchedUse(u, id, type, d) = u
    <2>1. SwitchedUse(u, id, type, d) \in UseRec /\ (u[Dir(type)] = d => SwitchedUse(u, id, type, d) = u)
        BY <1>1, SwitchedTyped
    <2> QED
        BY <1>01, <2>1
<1>5. SwitchedUse(u, id, type, d) = IF u.type # type \/ u.id = id THEN u ELSE [u EXCEPT ![dir] = d]
    BY <1>01 DEF SwitchedUse
<1>2. CASE u.type # type \/ u.id = id \/ u[dir] = d
    <2>1. SwitchUsecase(w, u, id, type, d) = w
        BY <1>01, <1>2 DEF SwitchUsecase, Dir
    <2>2. SwitchedUse(u, id, type, d) = u
        BY <1>2, <1>4, <1>5
    <2>3. w.uses = [w.uses EXCEPT ![k] = u]
        BY <1>0 DEF Shape
    <2> QED
        BY <1>0, <2>1, <2>2, <2>3 DEF Keeps, With
<1>3. CASE ~(u.type # type \/ u.id = id \/ u[dir] = d)
    <2>1. k # p
        BY <1>0, <1>3
    <2>2. PICK A : A = Routed(w, p, a)
        OBVIOUS
    <2>3. PICK s : s = <<k, dir>>
        OBVIOUS
    <2>4. s \in Slots(w) /\ A[s] = u[dir] /\ A[s] \in Devs /\ A = [t \in Slots(w) |-> A[t]]
        <3>1. s \in Slots(w)
            BY <1>02, <2>3 DEF Slots
        <3>2. A[<<k, dir>>] = w.uses[k][dir]
            <4>1. k \in DOMAIN w.uses \ {p}
                BY <2>1
            <4> QED
                BY <1>00, <1>02, <2>2, <4>1 DEF RoutedOk
        <3>3. A[s] \in Devs /\ A = [t \in Slots(w) |-> A[t]]
            BY <1>00, <2>2, <3>1 DEF RoutedOk
        <3> QED
            BY <1>0, <2>3, <3>1, <3>2, <3>3
    <2>5. A[s] \in InSndDevices => OneIn(A) /\ PlaybackShown(w, A)
        <3>1. A[s] \in InSndDevices => type = "PCM_CAPTURE"
            BY <1>0, <1>01, <2>4, UseTyped, DeviceFacts DEF Dir
        <3> QED
            BY <1>00, <2>2, <3>1 DEF RoutedOk
    <2>6. Covered => u.mixer
        BY <1>0 DEF Struct
    <2>7. PICK x : x = disable_snd_device(w, u, u[dir])
        OBVIOUS
    <2>8. PICK B : B = [A EXCEPT ![s] = None]
        OBVIOUS
    <2>9. Moved(w, x) /\ Sound(x, B)
        BY <2>2, <2>4, <2>5, <2>6, <2>7, <2>8, Freed, SlotsFinite
    <2>10. B = [t \in Slots(w) |-> B[t]] /\ B[s] = None
        BY <2>4, <2>8
    <2>11. d \in SndDevices \cup {Combo}
        BY DEF Targets, SndDevices
    <2>12. PICK y : y = enable_snd_device(x, u, d)
        OBVIOUS
    <2>13. PICK C : C = [B EXCEPT ![s] = d]
        OBVIOUS
    <2>14. Moved(x, y) /\ Sound(y, C)
        BY <2>4, <2>6, <2>9, <2>10, <2>11, <2>12, <2>13, Taken, SlotsFinite DEF Moved
    <2>15. y.uses = w.uses /\ Shape(y) /\ Keeps(w, y, {"snd_dev_ref_cnt", "paths"})
        BY <2>9, <2>14 DEF Moved, Keeps, HalFields
    <2>16. PICK z : z = SetDevice(y, u.id, dir, d)
        OBVIOUS
    <2>17. [u EXCEPT ![dir] = d] \in UseRec /\ SwitchedUse(u, id, type, d) = [u EXCEPT ![dir] = d]
        BY <1>3, <1>4, <1>5
    <2>18. Distinct(y)
        BY <2>15 DEF Struct, Distinct
    <2>19. /\ Shape(z) /\ Keeps(y, z, {"uses"})
           /\ z.uses = [w.uses EXCEPT ![k] = [u EXCEPT ![dir] = d]]
        <3>1. PICK v : v = With(y.uses[k], dir, d)
            OBVIOUS
        <3>2. k \in DOMAIN y.uses /\ u.id = y.uses[k].id /\ v \in UseRec
            BY <1>0, <2>15, <2>17, <3>1 DEF With
        <3>3. v = [u EXCEPT ![dir] = d]
            BY <1>0, <2>15, <3>1 DEF With
        <3>4. Shape(z) /\ Keeps(y, z, {"uses"}) /\ z.uses = With(y.uses, k, v)
            BY <2>15, <2>16, <2>18, <3>1, <3>2, SetDeviceEffect
        <3> QED
            BY <2>15, <3>3, <3>4 DEF With
    <2>20. Keeps(w, z, {"uses", "snd_dev_ref_cnt", "paths"})
        BY <2>15, <2>19 DEF Keeps, HalFields
    <2>21. z = SwitchUsecase(w, u, id, type, d)
        BY <1>01, <1>3, <2>7, <2>12, <2>16 DEF SwitchUsecase, Dir
    <2>22. Routed(z, p, a) = C
        <3>1. DOMAIN z.uses = DOMAIN w.uses
            BY <2>19
        <3>2. Slots(z) = Slots(w)
            BY <3>1 DEF Slots
        <3>3. ASSUME NEW t \in Slots(w) PROVE Routed(z, p, a)[t] = C[t]
            <4>1. PICK l \in DOMAIN w.uses, e \in {"in", "out"} : t = <<l, e>>
                BY DEF Slots
            <4>2. Routed(z, p, a)[t] = IF l = p THEN IF e = "out" THEN a ELSE None ELSE z.uses[l][e]
                BY <3>2, <4>1 DEF Routed
            <4>3. A[t] = IF l = p THEN IF e = "out" THEN a ELSE None ELSE w.uses[l][e]
                BY <2>2, <4>1 DEF Routed
            <4>4. CASE t = s
                <5>1. C[t] = d /\ l = k /\ e = dir
                    BY <2>3, <2>4, <2>10, <2>13, <4>1, <4>4
                <5>2. z.uses[k][dir] = d
                    <6>1. dir \in DOMAIN u
                        BY <1>1, <1>02 DEF UseRec
                    <6> QED
                        BY <1>0, <2>19, <6>1
                <5> QED
                    BY <2>1, <4>2, <5>1, <5>2
            <4>5. CASE t # s
                <5>1. C[t] = A[t]
                    BY <2>4, <2>8, <2>10, <2>13, <4>5
                <5>2. l # p => z.uses[l][e] = w.uses[l][e]
                    <6>1. CASE l = k
                        <7>1. e # dir /\ e \in DOMAIN u
                            BY <1>1, <2>3, <4>1, <4>5, <6>1 DEF UseRec
                        <7> QED
                            BY <1>0, <2>19, <6>1, <7>1
                    <6>2. CASE l # k
                        BY <2>19, <6>2
                    <6> QED
                        BY <6>1, <6>2
                <5> QED
                    BY <4>2, <4>3, <5>1, <5>2
            <4> QED
                BY <4>4, <4>5
        <3>4. C = [t \in Slots(w) |-> C[t]]
            BY <2>10, <2>13
        <3>5. Routed(z, p, a) = [t \in Slots(w) |-> Routed(z, p, a)[t]]
            BY <3>2 DEF Routed
        <3> QED
            BY <3>3, <3>4, <3>5
    <2>23. z.snd_dev_ref_cnt = y.snd_dev_ref_cnt /\ z.paths = y.paths
        BY <2>19 DEF Keeps, HalFields
    <2>24. Sound(z, C)
        BY <2>14, <2>23 DEF Sound, RefsAre, PathsAre
    <2> QED
        BY <1>0, <2>17, <2>19, <2>20, <2>21, <2>22, <2>24 DEF With
<1> QED
    BY <1>2, <1>3

(* f is the function of the loop, up to m.                                 *)
LoopTo(f, m, w, id, type, d) ==
    f = [k \in 0..m |-> IF k = 0 THEN w ELSE SwitchUsecase(f[k - 1], w.uses[k], id, type, d)]

(* The recursive function in check_and_route_usecases exists: its value is *)
(* that of any function with its equation.                                 *)
LEMMA LoopDefined ==
    ASSUME NEW w, Shape(w), NEW id, NEW type, NEW d
    PROVE  \E f : LoopTo(f, Len(w.uses), w, id, type, d)
                  /\ check_and_route_usecases(w, id, type, d) = f[Len(w.uses)]
<1>1. Len(w.uses) \in Nat
    BY DEF Shape
<1> DEFINE Has(m) == \E f : LoopTo(f, m, w, id, type, d)
<1>2. Has(0)
    <2> DEFINE f == [k \in 0..0 |-> w]
    <2>1. LoopTo(f, 0, w, id, type, d)
        BY DEF LoopTo
    <2> QED
        BY <2>1
<1>3. ASSUME NEW m \in Nat, Has(m) PROVE Has(m + 1)
    <2>1. PICK f : LoopTo(f, m, w, id, type, d)
        BY <1>3
    <2>2. PICK v : v = SwitchUsecase(f[m], w.uses[m + 1], id, type, d)
        OBVIOUS
    <2>3. PICK g : g = [k \in 0..(m + 1) |-> IF k = m + 1 THEN v ELSE f[k]]
        OBVIOUS
    <2>4. ASSUME NEW k \in 0..(m + 1)
          PROVE  g[k] = IF k = 0 THEN w ELSE SwitchUsecase(g[k - 1], w.uses[k], id, type, d)
        <3>1. CASE k = m + 1
            <4>1. g[k] = v /\ k # 0 /\ g[k - 1] = f[m]
                BY <2>3, <3>1
            <4> QED
                BY <2>2, <3>1, <4>1
        <3>2. CASE k # m + 1 /\ k # 0
            <4>1. k \in 0..m /\ k - 1 \in 0..m /\ k - 1 # m + 1 /\ k - 1 \in 0..(m + 1)
                BY <3>2
            <4>2. g[k] = f[k] /\ g[k - 1] = f[k - 1]
                BY <2>3, <3>2, <4>1
            <4>3. f[k] = SwitchUsecase(f[k - 1], w.uses[k], id, type, d)
                BY <2>1, <3>2, <4>1 DEF LoopTo
            <4> QED
                BY <3>2, <4>2, <4>3
        <3>3. CASE k = 0
            <4>1. g[0] = f[0] /\ f[0] = w
                BY <2>1, <2>3 DEF LoopTo
            <4> QED
                BY <3>3, <4>1
        <3> QED
            BY <3>1, <3>2, <3>3
    <2>5. LoopTo(g, m + 1, w, id, type, d)
        <3>1. g = [k \in 0..(m + 1) |-> g[k]]
            BY <2>3
        <3> QED
            BY <2>4, <3>1 DEF LoopTo
    <2> QED
        BY <2>5
<1> HIDE DEF Has
<1>4. Has(Len(w.uses))
    <2> DEFINE T == {m \in Nat : Has(m)}
    <2>1. 0 \in T /\ \A m \in Nat : m \in T /\ m < Len(w.uses) => m + 1 \in T
        BY <1>2, <1>3
    <2>2. Len(w.uses) \in T
        <3> HIDE DEF T
        <3>1. T \in SUBSET Nat
            BY DEF T
        <3> QED
            BY <1>1, <2>1, <3>1, UpTo
    <2> QED
        BY <2>2
<1>5. PICK f : f = CHOOSE g : LoopTo(g, Len(w.uses), w, id, type, d)
    OBVIOUS
<1>6. LoopTo(f, Len(w.uses), w, id, type, d)
    BY <1>4, <1>5 DEF Has
<1>7. check_and_route_usecases(w, id, type, d) = f[Len(w.uses)]
    BY <1>5 DEF check_and_route_usecases, LoopTo
<1> QED
    BY <1>6, <1>7

(* The list when its first k usecases have been looked at.                 *)
Part(w, k, id, type, d) ==
    [j \in DOMAIN w.uses |-> IF j <= k THEN SwitchedUse(w.uses[j], id, type, d) ELSE w.uses[j]]

(* It keeps ids, types and positions.                                      *)
LEMMA PartStruct ==
    ASSUME NEW w, Shape(w), Struct(w), NEW id, NEW type \in {"PCM_PLAYBACK", "PCM_CAPTURE"},
           NEW d \in Targets(type), NEW k \in Nat, NEW x, Shape(x), x.uses = Part(w, k, id, type, d)
    PROVE  /\ Struct(x) /\ DOMAIN x.uses = DOMAIN w.uses
           /\ \A j \in DOMAIN w.uses : x.uses[j].id = w.uses[j].id /\ x.uses[j].type = w.uses[j].type
<1>1. DOMAIN x.uses = DOMAIN w.uses
    BY DEF Part
<1>2. ASSUME NEW j \in DOMAIN w.uses
      PROVE  /\ x.uses[j].id = w.uses[j].id /\ x.uses[j].type = w.uses[j].type
             /\ x.uses[j].mixer = w.uses[j].mixer
             /\ w.uses[j].type # "PCM_CAPTURE" => x.uses[j].in = w.uses[j].in
             /\ w.uses[j].type # "PCM_PLAYBACK" => x.uses[j].out = w.uses[j].out
    <2>1. PICK u : u = w.uses[j]
        OBVIOUS
    <2>2. PICK v : v = SwitchedUse(u, id, type, d)
        OBVIOUS
    <2>3. u \in UseRec
        BY <2>1, UseTyped
    <2>4. x.uses[j] \in {u, v}
        BY <2>1, <2>2 DEF Part
    <2>5. CASE type = "PCM_PLAYBACK"
        <3>1. /\ v.id = u.id /\ v.type = u.type /\ v.mixer = u.mixer /\ v.in = u.in
              /\ u.type # "PCM_PLAYBACK" => v = u
            BY <2>2, <2>3, <2>5 DEF SwitchedUse, Dir, UseRec
        <3> QED
            BY <2>1, <2>4, <3>1
    <2>6. CASE type = "PCM_CAPTURE"
        <3>1. /\ v.id = u.id /\ v.type = u.type /\ v.mixer = u.mixer /\ v.out = u.out
              /\ u.type # "PCM_CAPTURE" => v = u
            BY <2>2, <2>3, <2>6 DEF SwitchedUse, Dir, UseRec
        <3> QED
            BY <2>1, <2>4, <3>1
    <2> QED
        BY <2>5, <2>6
<1>3. Distinct(x)
    BY <1>1, <1>2 DEF Struct, Distinct
<1>4. ASSUME NEW j \in DOMAIN w.uses
      PROVE  /\ x.uses[j].id \in Outputs => x.uses[j].type = "PCM_PLAYBACK" /\ x.uses[j].in = None
             /\ x.uses[j].id = "CAPTURE" => x.uses[j].type = "PCM_CAPTURE" /\ x.uses[j].out = None
             /\ x.uses[j].id = "VOICE_CALL" => x.uses[j].type = "VOICE_CALL"
             /\ Covered => x.uses[j].mixer
    BY <1>2 DEF Struct
<1> QED
    BY <1>1, <1>2, <1>3, <1>4 DEF Struct

(* After the loop every other usecase of the type is on device d, and the  *)
(* counters and the paths match.                                           *)
LEMMA LoopEffect ==
    ASSUME NEW w, Shape(w), Struct(w), NEW p \in DOMAIN w.uses,
           NEW id, id = w.uses[p].id, NEW type \in {"PCM_PLAYBACK", "PCM_CAPTURE"}, NEW d \in Targets(type),
           NEW a \in OutSndDevices \cup {Combo, None}, Sound(w, Routed(w, p, a)),
           type = "PCM_CAPTURE" => w.uses[p].type # "PCM_PLAYBACK",
           NEW y, y = check_and_route_usecases(w, id, type, d)
    PROVE  /\ Shape(y) /\ Struct(y) /\ Keeps(w, y, {"uses", "snd_dev_ref_cnt", "paths"})
           /\ y.uses = Part(w, Len(w.uses), id, type, d)
           /\ Sound(y, Routed(y, p, a))
<1> DEFINE n == Len(w.uses)
<1>1. n \in Nat /\ DOMAIN w.uses = 1..n
    BY DEF Shape
<1>2. PICK f : LoopTo(f, n, w, id, type, d) /\ y = f[n]
    BY LoopDefined
<1> DEFINE Holds(x, k) ==
             /\ Shape(x) /\ Keeps(w, x, {"uses", "snd_dev_ref_cnt", "paths"})
             /\ x.uses = Part(w, k, id, type, d) /\ Sound(x, Routed(x, p, a))
           T == {k \in Nat : k <= n => Holds(f[k], k)}
<1>3. f[0] = w /\ \A k \in 1..n : f[k] = SwitchUsecase(f[k - 1], w.uses[k], id, type, d)
    <2>1. ASSUME NEW k \in 0..n
          PROVE  f[k] = IF k = 0 THEN w ELSE SwitchUsecase(f[k - 1], w.uses[k], id, type, d)
        BY <1>2 DEF LoopTo
    <2>2. 0 \in 0..n /\ \A k \in 1..n : k \in 0..n /\ k # 0
        BY <1>1
    <2> HIDE DEF n
    <2> QED
        BY <2>1, <2>2
<1>4. Holds(w, 0)
    <2>1. w.uses = Part(w, 0, id, type, d)
        <3>1. w.uses = [j \in DOMAIN w.uses |-> w.uses[j]]
            BY DEF Shape
        <3>2. \A j \in DOMAIN w.uses : ~(j <= 0)
            BY <1>1
        <3> QED
            BY <3>1, <3>2 DEF Part
    <2> QED
        BY <2>1 DEF Keeps
<1>5. ASSUME NEW m \in Nat, m < n, Holds(f[m], m) PROVE Holds(f[m + 1], m + 1)
    <2>1. PICK k : k = m + 1
        OBVIOUS
    <2>2. k \in 1..n /\ k - 1 = m /\ k \in DOMAIN w.uses
        BY <1>1, <1>5, <2>1
    <2>3. PICK x : x = f[m]
        OBVIOUS
    <2>4. Holds(x, m)
        BY <1>5, <2>3
    <2>5. /\ Struct(x) /\ DOMAIN x.uses = DOMAIN w.uses
          /\ \A j \in DOMAIN w.uses : x.uses[j].id = w.uses[j].id /\ x.uses[j].type = w.uses[j].type
        BY <2>4, PartStruct
    <2>6. x.uses[k] = w.uses[k]
        BY <2>1, <2>2, <2>4 DEF Part
    <2>7. PICK z : z = SwitchUsecase(x, x.uses[k], id, type, d)
        OBVIOUS
    <2>8. z = f[k]
        BY <1>3, <2>2, <2>3, <2>6, <2>7
    <2>9. /\ Shape(z) /\ Keeps(x, z, {"uses", "snd_dev_ref_cnt", "paths"})
          /\ z.uses = With(x.uses, k, SwitchedUse(x.uses[k], id, type, d))
          /\ Sound(z, Routed(z, p, a))
        <3>1. p \in DOMAIN x.uses /\ k \in DOMAIN x.uses /\ id = x.uses[p].id /\ x.uses[p].type = w.uses[p].type
            BY <2>2, <2>5
        <3>2. Shape(x) /\ Sound(x, Routed(x, p, a))
            BY <2>4
        <3> QED
            BY <2>5, <2>7, <3>1, <3>2, SwitchStep
    <2>10. Keeps(w, z, {"uses", "snd_dev_ref_cnt", "paths"})
        BY <2>4, <2>9 DEF Keeps
    <2>11. z.uses = Part(w, k, id, type, d)
        <3>1. DOMAIN z.uses = DOMAIN w.uses /\ z.uses = [j \in DOMAIN w.uses |-> z.uses[j]]
            BY <2>5, <2>9 DEF With
        <3>2. ASSUME NEW j \in DOMAIN w.uses
              PROVE  z.uses[j] = IF j <= k THEN SwitchedUse(w.uses[j], id, type, d) ELSE w.uses[j]
            <4>1. CASE j = k
                <5>1. z.uses[j] = SwitchedUse(x.uses[k], id, type, d)
                    BY <2>2, <2>5, <2>9, <4>1 DEF With
                <5> QED
                    BY <2>2, <2>6, <4>1, <5>1
            <4>2. CASE j # k
                <5>1. z.uses[j] = x.uses[j]
                    BY <2>5, <2>9, <4>2 DEF With
                <5>2. x.uses[j] = IF j <= m THEN SwitchedUse(w.uses[j], id, type, d) ELSE w.uses[j]
                    BY <2>4 DEF Part
                <5>3. j <= m <=> j <= k
                    BY <1>1, <2>1, <4>2
                <5> QED
                    BY <5>1, <5>2, <5>3
            <4> QED
                BY <4>1, <4>2
        <3> QED
            BY <3>1, <3>2 DEF Part
    <2> QED
        BY <2>1, <2>8, <2>9, <2>10, <2>11
<1> HIDE DEF Holds
<1>6. n \in T
    <2>1. 0 \in T /\ \A m \in Nat : m \in T /\ m < n => m + 1 \in T
        BY <1>1, <1>3, <1>4, <1>5
    <2> HIDE DEF T, n
    <2>2. T \in SUBSET Nat
        BY DEF T
    <2> QED
        BY <1>1, <2>1, <2>2, UpTo
<1>7. Holds(y, n)
    BY <1>1, <1>2, <1>6
<1>8. Struct(y)
    <2>1. Shape(y) /\ y.uses = Part(w, n, id, type, d)
        BY <1>7 DEF Holds
    <2>2. PICK m : m = n
        OBVIOUS
    <2>3. m \in Nat /\ y.uses = Part(w, m, id, type, d)
        BY <1>1, <2>1, <2>2
    <2> QED
        BY <2>1, <2>3, PartStruct, SMTT(60)
<1> QED
    BY <1>7, <1>8 DEF Holds

-----------------------------------------------------------------------------
(* Route, the second half of select_devices.                               *)

(* The assignment the list shows.                                          *)
Assigned(w) == [s \in Slots(w) |-> w.uses[s[1]][s[2]]]

(* The counters and the paths are those of the list: what is to hold       *)
(* between any two calls.                                                  *)
Matches(w) == Sound(w, Assigned(w))

(* The values of out_snd_device.                                           *)
OutTypes == OutSndDevices \cup {Combo, None}

(* The values of in_snd_device.                                            *)
InTypes == InSndDevices \cup {None}

(* A state with the same list, counters and paths is as good.              *)
LEMMA SameRouting ==
    ASSUME NEW w, Shape(w), NEW x, DOMAIN x = HalFields, x.uses = w.uses,
           x.snd_dev_ref_cnt = w.snd_dev_ref_cnt, x.paths = w.paths
    PROVE  /\ Shape(x) /\ Slots(x) = Slots(w) /\ (Struct(w) => Struct(x)) /\ (Matches(w) => Matches(x))
           /\ Assigned(x) = Assigned(w)
           /\ \A p, a : Routed(x, p, a) = Routed(w, p, a)
           /\ \A A : Sound(w, A) => Sound(x, A)
<1>1. Slots(x) = Slots(w)
    BY DEF Slots
<1>2. \A A : Sound(w, A) => Sound(x, A)
    BY DEF Sound, RefsAre, PathsAre
<1>3. Assigned(x) = Assigned(w)
    BY <1>1 DEF Assigned
<1>4. Struct(w) => Struct(x)
    BY DEF Struct, Distinct
<1>5. \A p, a : Routed(x, p, a) = Routed(w, p, a)
    BY <1>1 DEF Routed
<1>6. Shape(x)
    BY DEF Shape
<1> QED
    BY <1>1, <1>2, <1>3, <1>4, <1>5, <1>6 DEF Matches

(* A step that changes only counters and paths keeps the list.             *)
LEMMA MovedSame ==
    ASSUME NEW w, NEW x, Shape(w), Moved(w, x)
    PROVE  /\ x.uses = w.uses /\ Slots(x) = Slots(w) /\ (Struct(w) => Struct(x)) /\ Shape(x)
           /\ Assigned(x) = Assigned(w)
           /\ \A p, a : Routed(x, p, a) = Routed(w, p, a)
<1>1. x.uses = w.uses /\ Shape(x)
    BY DEF Moved, Keeps, HalFields
<1>2. Slots(x) = Slots(w)
    BY <1>1 DEF Slots
<1>3. Assigned(x) = Assigned(w)
    BY <1>1, <1>2 DEF Assigned
<1>4. Struct(w) => Struct(x)
    BY <1>1 DEF Struct, Distinct
<1>5. \A p, a : Routed(x, p, a) = Routed(w, p, a)
    BY <1>1, <1>2 DEF Routed
<1> QED
    BY <1>1, <1>2, <1>3, <1>4, <1>5

(* The two disable_snd_device calls release what the usecase at p holds.   *)
LEMMA BothReleased ==
    ASSUME NEW w, Shape(w), Struct(w), Matches(w), OneIn(Assigned(w)), NEW p \in DOMAIN w.uses,
           NEW u, u = w.uses[p],
           NEW y, y = disable_snd_device(disable_snd_device(w, u, u.out), u, u.in)
    PROVE  Moved(w, y) /\ Sound(y, Routed(y, p, None))
<1>1. u \in UseRec /\ u.out \in OutTypes /\ u.in \in InTypes /\ (Covered => u.mixer)
    BY UseTyped DEF Struct, OutTypes, InTypes
<1>2. PICK A : A = Assigned(w)
    OBVIOUS
<1>3. PICK o : o = <<p, "out">>
    OBVIOUS
<1>4. PICK i : i = <<p, "in">>
    OBVIOUS
<1>5. /\ o \in Slots(w) /\ i \in Slots(w) /\ o # i /\ A = [s \in Slots(w) |-> A[s]]
      /\ A[o] = u.out /\ A[i] = u.in /\ DOMAIN A = Slots(w)
    BY <1>2, <1>3, <1>4 DEF Assigned, Slots
<1>6. PICK x : x = disable_snd_device(w, u, u.out)
    OBVIOUS
<1>7. PICK B : B = [A EXCEPT ![o] = None]
    OBVIOUS
<1>8. Moved(w, x) /\ Sound(x, B)
    <2>1. A[o] \in Devs /\ A[o] \notin InSndDevices
        BY <1>1, <1>5, DeviceFacts DEF Devs, OutTypes, SndDevices
    <2>2. Sound(w, A)
        BY <1>2 DEF Matches
    <2> QED
        BY <1>1, <1>5, <1>6, <1>7, <2>1, <2>2, Freed, SlotsFinite
<1>9. B = [s \in Slots(w) |-> B[s]] /\ B[i] = u.in /\ DOMAIN B = Slots(w)
    BY <1>5, <1>7
<1>10. x.uses = w.uses /\ Slots(x) = Slots(w) /\ Struct(x) /\ Shape(x)
    BY <1>8, MovedSame
<1>11. PICK C : C = [B EXCEPT ![i] = None]
    OBVIOUS
<1>12. Moved(x, y) /\ Sound(y, C)
    <2>1. B[i] \in Devs
        BY <1>1, <1>9 DEF Devs, InTypes, SndDevices
    <2>2. OneIn(B)
        <3>1. OneIn(A)
            BY <1>2
        <3>2. \A s \in Slots(w) : B[s] \in InSndDevices => A[s] = B[s]
            BY <1>5, <1>7, DeviceFacts
        <3> QED
            BY <1>5, <1>9, <3>1, <3>2 DEF OneIn
    <2>3. ASSUME B[i] \in InSndDevices PROVE PlaybackShown(x, B)
        <3>1. u.id \notin Outputs
            BY <1>9, <2>3, DeviceFacts DEF Struct
        <3>2. u.type # "PCM_PLAYBACK"
            <4>1. u.id \in Ids
                BY UseTyped
            <4> QED
                BY <3>1, <4>1 DEF Struct, Ids
        <3>3. ASSUME NEW k \in DOMAIN w.uses, w.uses[k].type = "PCM_PLAYBACK"
              PROVE  <<k, "out">> \in Slots(w) /\ B[<<k, "out">>] = w.uses[k].out
            <4>1. k # p
                BY <3>2, <3>3
            <4>2. <<k, "out">> \in Slots(w) /\ <<k, "out">> # o
                BY <1>3, <4>1 DEF Slots
            <4>3. A[<<k, "out">>] = w.uses[k].out
                BY <1>2, <4>2 DEF Assigned
            <4> QED
                BY <1>5, <1>7, <4>2, <4>3
        <3> QED
            BY <1>9, <1>10, <3>3 DEF PlaybackShown
    <2>4. y = disable_snd_device(x, u, B[i])
        BY <1>6, <1>9
    <2>5. Sound(x, B) /\ Shape(x) /\ IsFiniteSet(Slots(w))
        BY <1>8, <1>10, SlotsFinite
    <2> QED
        BY <1>1, <1>5, <1>9, <1>11, <2>1, <2>2, <2>3, <2>4, <2>5, Freed
<1>13. Routed(y, p, None) = C
    <2>1. Routed(y, p, None) = Routed(w, p, None)
        <3>1. Routed(y, p, None) = Routed(x, p, None)
            BY <1>10, <1>12, MovedSame
        <3>2. Routed(x, p, None) = Routed(w, p, None)
            BY <1>8, MovedSame
        <3> QED
            BY <3>1, <3>2
    <2>2. ASSUME NEW s \in Slots(w) PROVE Routed(w, p, None)[s] = C[s]
        <3>1. s = o => s[1] = p /\ C[s] = None
            BY <1>3, <1>5, <1>7, <1>9, <1>11
        <3>2. s = i => s[1] = p /\ C[s] = None
            BY <1>4, <1>5, <1>9, <1>11
        <3>3. s # o /\ s # i => s[1] # p /\ C[s] = A[s]
            <4>1. s[2] \in {"in", "out"} /\ s = <<s[1], s[2]>>
                BY DEF Slots
            <4> QED
                BY <1>3, <1>4, <1>5, <1>7, <1>9, <1>11, <4>1
        <3>4. Routed(w, p, None)[s] = IF s[1] = p THEN None ELSE A[s]
            BY <1>2 DEF Routed, Assigned
        <3> QED
            BY <3>1, <3>2, <3>3, <3>4
    <2>3. C = [s \in Slots(w) |-> C[s]]
        BY <1>9, <1>11
    <2>4. Routed(w, p, None) = [s \in Slots(w) |-> Routed(w, p, None)[s]]
        BY DEF Routed
    <2> QED
        BY <2>1, <2>2, <2>3, <2>4
<1> QED
    BY <1>8, <1>12, <1>13 DEF Moved, Keeps, HalFields

(* What check_and_route_usecases did to the list, by fields.               *)
Turned(w, x, id, type, d) ==
    /\ DOMAIN x.uses = DOMAIN w.uses
    /\ \A j \in DOMAIN w.uses :
        /\ x.uses[j].id = w.uses[j].id /\ x.uses[j].type = w.uses[j].type
        /\ x.uses[j].stream = w.uses[j].stream /\ x.uses[j].mixer = w.uses[j].mixer
        /\ x.uses[j].out = IF type = "PCM_PLAYBACK" /\ w.uses[j].type = type /\ w.uses[j].id # id
                           THEN d ELSE w.uses[j].out
        /\ x.uses[j].in = IF type = "PCM_CAPTURE" /\ w.uses[j].type = type /\ w.uses[j].id # id
                          THEN d ELSE w.uses[j].in

(* The loop does that.                                                     *)
LEMMA PartFields ==
    ASSUME NEW w, Shape(w), NEW id, NEW type \in {"PCM_PLAYBACK", "PCM_CAPTURE"},
           NEW d \in Targets(type), NEW x, x.uses = Part(w, Len(w.uses), id, type, d)
    PROVE  Turned(w, x, id, type, d)
<1>1. DOMAIN x.uses = DOMAIN w.uses
    BY DEF Part
<1>2. ASSUME NEW j \in DOMAIN w.uses
      PROVE  /\ x.uses[j].id = w.uses[j].id /\ x.uses[j].type = w.uses[j].type
             /\ x.uses[j].stream = w.uses[j].stream /\ x.uses[j].mixer = w.uses[j].mixer
             /\ x.uses[j].out = IF type = "PCM_PLAYBACK" /\ w.uses[j].type = type /\ w.uses[j].id # id
                                THEN d ELSE w.uses[j].out
             /\ x.uses[j].in = IF type = "PCM_CAPTURE" /\ w.uses[j].type = type /\ w.uses[j].id # id
                               THEN d ELSE w.uses[j].in
    <2>1. PICK u : u = w.uses[j]
        OBVIOUS
    <2>2. PICK v : v = SwitchedUse(u, id, type, d)
        OBVIOUS
    <2>3. u \in UseRec
        BY <2>1, UseTyped
    <2>4. x.uses[j] = v
        <3>1. j <= Len(w.uses)
            BY DEF Shape
        <3> QED
            BY <2>1, <2>2, <3>1 DEF Part
    <2>5. CASE type = "PCM_PLAYBACK"
        <3>1. /\ v.id = u.id /\ v.type = u.type /\ v.mixer = u.mixer /\ v.in = u.in /\ v.stream = u.stream
              /\ v.out = IF u.type = type /\ u.id # id THEN d ELSE u.out
            BY <2>2, <2>3, <2>5 DEF SwitchedUse, Dir, UseRec
        <3> QED
            BY <2>1, <2>4, <2>5, <3>1
    <2>6. CASE type = "PCM_CAPTURE"
        <3>1. /\ v.id = u.id /\ v.type = u.type /\ v.mixer = u.mixer /\ v.out = u.out /\ v.stream = u.stream
              /\ v.in = IF u.type = type /\ u.id # id THEN d ELSE u.in
            BY <2>2, <2>3, <2>6 DEF SwitchedUse, Dir, UseRec
        <3> QED
            BY <2>1, <2>4, <2>6, <3>1
    <2> QED
        BY <2>5, <2>6
<1> QED
    BY <1>1, <1>2 DEF Turned

(* The HAL once the usecase at p has its output device.                    *)
OutMoved(w, y, id, p, out) ==
    /\ Shape(y) /\ Struct(y) /\ Keeps(w, y, {"uses", "snd_dev_ref_cnt", "paths", "modem_path"})
    /\ Sound(y, Routed(y, p, out))
    /\ IF out = None THEN y.uses = w.uses /\ y.modem_path = w.modem_path
       ELSE /\ Turned(w, y, id, "PCM_PLAYBACK", out)
            /\ y.modem_path = IF w.in_call THEN ModemPath(w.session) ELSE w.modem_path

(* The output half: the modem is told, the other playback usecases move,   *)
(* the device is enabled.                                                  *)
LEMMA OutHalf ==
    ASSUME NEW w, Shape(w), Struct(w), NEW p \in DOMAIN w.uses, NEW id, id = w.uses[p].id,
           NEW out \in OutTypes, Sound(w, Routed(w, p, None)), NEW u, Covered => u.mixer,
           NEW y, y = IF out = None THEN w
                      ELSE enable_snd_device(
                             check_and_route_usecases(SetModemPath(w), id, "PCM_PLAYBACK", out), u, out)
    PROVE  OutMoved(w, y, id, p, out)
<1>1. CASE out = None
    <2>1. y = w
        BY <1>1
    <2> QED
        BY <1>1, <2>1 DEF OutMoved, Keeps
<1>2. CASE out # None
    <2>1. PICK v : v = SetModemPath(w)
        OBVIOUS
    <2>2. /\ DOMAIN v = HalFields /\ v.uses = w.uses /\ v.snd_dev_ref_cnt = w.snd_dev_ref_cnt
          /\ v.paths = w.paths /\ Keeps(w, v, {"modem_path"})
          /\ v.modem_path = IF w.in_call THEN ModemPath(w.session) ELSE w.modem_path
        BY <2>1 DEF SetModemPath, Shape, HalFields, Keeps
    <2>3. Shape(v) /\ Struct(v) /\ Sound(v, Routed(v, p, None))
        <3>1. Shape(v) /\ Struct(v) /\ Routed(v, p, None) = Routed(w, p, None)
            BY <2>2, SameRouting
        <3>2. Sound(v, Routed(w, p, None))
            BY <2>2, SameRouting
        <3> QED
            BY <3>1, <3>2
    <2>4. PICK x : x = check_and_route_usecases(v, id, "PCM_PLAYBACK", out)
        OBVIOUS
    <2>5. PICK t : t = "PCM_PLAYBACK"
        OBVIOUS
    <2>6. t \in {"PCM_PLAYBACK", "PCM_CAPTURE"} /\ out \in Targets(t) /\ t # "PCM_CAPTURE"
        BY <1>2, <2>5 DEF Targets, OutTypes
    <2>7. None \in OutSndDevices \cup {Combo, None}
        OBVIOUS
    <2>8. /\ Shape(x) /\ Struct(x) /\ Keeps(v, x, {"uses", "snd_dev_ref_cnt", "paths"})
          /\ x.uses = Part(v, Len(v.uses), id, t, out)
          /\ Sound(x, Routed(x, p, None))
        BY <2>2, <2>3, <2>4, <2>5, <2>6, <2>7, LoopEffect
    <2>9. Turned(v, x, id, t, out)
        BY <2>3, <2>6, <2>8, PartFields
    <2>10. y = enable_snd_device(x, u, out)
        BY <1>2, <2>1, <2>4
    <2>11. PICK A : A = Routed(x, p, None)
        OBVIOUS
    <2>12. PICK s : s = <<p, "out">>
        OBVIOUS
    <2>13. /\ A = [q \in Slots(x) |-> A[q]] /\ s \in Slots(x) /\ A[s] = None
        <3>1. p \in DOMAIN x.uses
            BY <2>2, <2>9 DEF Turned
        <3> QED
            BY <2>11, <2>12, <3>1 DEF Routed, Slots
    <2>14. PICK B : B = [A EXCEPT ![s] = out]
        OBVIOUS
    <2>15. Moved(x, y) /\ Sound(y, B)
        <3>1. out \in SndDevices \cup {Combo}
            BY <1>2 DEF OutTypes, SndDevices
        <3>2. Sound(x, A) /\ IsFiniteSet(Slots(x)) /\ Shape(x)
            BY <2>8, <2>11, SlotsFinite
        <3>3. B = With(A, s, out)
            BY <2>14 DEF With
        <3> QED
            BY <2>10, <2>13, <3>1, <3>2, <3>3, TakenWith
    <2>16. y.uses = x.uses /\ Shape(y) /\ Struct(y) /\ Routed(y, p, out) = Routed(x, p, out)
        BY <2>8, <2>15, MovedSame
    <2>17. Routed(x, p, out) = B
        <3>1. ASSUME NEW q \in Slots(x) PROVE Routed(x, p, out)[q] = B[q]
            <4>1. q = <<q[1], q[2]>> /\ q[2] \in {"in", "out"}
                BY DEF Slots
            <4>2. q = s => q[1] = p /\ q[2] = "out" /\ B[q] = out
                BY <2>12, <2>13, <2>14
            <4>3. q # s => B[q] = A[q] /\ ~(q[1] = p /\ q[2] = "out")
                BY <2>12, <2>13, <2>14, <4>1
            <4> QED
                BY <2>11, <4>2, <4>3 DEF Routed
        <3>2. B = [q \in Slots(x) |-> B[q]]
            BY <2>13, <2>14
        <3>3. Routed(x, p, out) = [q \in Slots(x) |-> Routed(x, p, out)[q]]
            BY DEF Routed
        <3> QED
            BY <3>1, <3>2, <3>3
    <2>18. Keeps(w, y, {"uses", "snd_dev_ref_cnt", "paths", "modem_path"}) /\ y.modem_path = v.modem_path
        BY <2>2, <2>8, <2>15 DEF Moved, Keeps, HalFields
    <2>19. Turned(w, y, id, t, out)
        BY <2>2, <2>9, <2>16, SMTT(60) DEF Turned
    <2> QED
        BY <1>2, <2>2, <2>5, <2>15, <2>16, <2>17, <2>18, <2>19 DEF OutMoved
<1> QED
    BY <1>1, <1>2

(* The assignment that is counted once both directions have been moved.    *)
Placed(w, p, a, b) ==
    [s \in Slots(w) |-> IF s[1] = p THEN IF s[2] = "out" THEN a ELSE b ELSE w.uses[s[1]][s[2]]]

(* The HAL once it has its input device too.                               *)
InMoved(w, y, id, p, out, in) ==
    /\ Shape(y) /\ Struct(y) /\ Keeps(w, y, {"uses", "snd_dev_ref_cnt", "paths"})
    /\ Sound(y, Placed(y, p, out, in))
    /\ IF in = None THEN y.uses = w.uses ELSE Turned(w, y, id, "PCM_CAPTURE", in)

(* The input half: the other captures move, the device is enabled.         *)
LEMMA InHalf ==
    ASSUME NEW w, Shape(w), Struct(w), NEW p \in DOMAIN w.uses, NEW id, id = w.uses[p].id,
           NEW out \in OutTypes, NEW in \in InTypes, Sound(w, Routed(w, p, out)), NEW u, Covered => u.mixer,
           in # None => w.uses[p].type # "PCM_PLAYBACK",
           NEW y, y = IF in = None THEN w
                      ELSE enable_snd_device(check_and_route_usecases(w, id, "PCM_CAPTURE", in), u, in)
    PROVE  InMoved(w, y, id, p, out, in)
<1>1. CASE in = None
    <2>1. y = w
        BY <1>1
    <2>2. Placed(w, p, out, in) = Routed(w, p, out)
        BY <1>1 DEF Placed, Routed
    <2> QED
        BY <1>1, <2>1, <2>2 DEF InMoved, Keeps
<1>2. CASE in # None
    <2>4. PICK x : x = check_and_route_usecases(w, id, "PCM_CAPTURE", in)
        OBVIOUS
    <2>5. PICK t : t = "PCM_CAPTURE"
        OBVIOUS
    <2>6. t \in {"PCM_PLAYBACK", "PCM_CAPTURE"} /\ in \in Targets(t)
        BY <1>2, <2>5 DEF Targets, InTypes
    <2>7. out \in OutSndDevices \cup {Combo, None}
        BY DEF OutTypes
    <2>8. /\ Shape(x) /\ Struct(x) /\ Keeps(w, x, {"uses", "snd_dev_ref_cnt", "paths"})
          /\ x.uses = Part(w, Len(w.uses), id, t, in)
          /\ Sound(x, Routed(x, p, out))
        BY <1>2, <2>4, <2>5, <2>6, <2>7, LoopEffect
    <2>9. Turned(w, x, id, t, in)
        BY <2>6, <2>8, PartFields
    <2>10. y = enable_snd_device(x, u, in)
        BY <1>2, <2>4
    <2>11. PICK A : A = Routed(x, p, out)
        OBVIOUS
    <2>12. PICK s : s = <<p, "in">>
        OBVIOUS
    <2>13. /\ A = [q \in Slots(x) |-> A[q]] /\ s \in Slots(x) /\ A[s] = None
        <3>1. p \in DOMAIN x.uses
            BY <2>9 DEF Turned
        <3> QED
            BY <2>11, <2>12, <3>1 DEF Routed, Slots
    <2>14. PICK B : B = [A EXCEPT ![s] = in]
        OBVIOUS
    <2>15. Moved(x, y) /\ Sound(y, B)
        <3>1. in \in SndDevices \cup {Combo}
            BY <1>2 DEF InTypes, SndDevices
        <3>2. Sound(x, A) /\ IsFiniteSet(Slots(x)) /\ Shape(x)
            BY <2>8, <2>11, SlotsFinite
        <3>3. B = With(A, s, in)
            BY <2>14 DEF With
        <3> QED
            BY <2>10, <2>13, <3>1, <3>2, <3>3, TakenWith
    <2>16. y.uses = x.uses /\ Shape(y) /\ Struct(y) /\ Slots(y) = Slots(x)
        BY <2>8, <2>15, MovedSame
    <2>17. Placed(y, p, out, in) = B
        <3>0. Placed(y, p, out, in) = Placed(x, p, out, in)
            BY <2>16 DEF Placed
        <3>1. ASSUME NEW q \in Slots(x) PROVE Placed(x, p, out, in)[q] = B[q]
            <4>1. q = <<q[1], q[2]>> /\ q[2] \in {"in", "out"}
                BY DEF Slots
            <4>2. q = s => q[1] = p /\ q[2] = "in" /\ B[q] = in
                BY <2>12, <2>13, <2>14
            <4>3. q # s => B[q] = A[q] /\ ~(q[1] = p /\ q[2] = "in")
                BY <2>12, <2>13, <2>14, <4>1
            <4> QED
                BY <2>11, <4>1, <4>2, <4>3 DEF Routed, Placed
        <3>2. B = [q \in Slots(x) |-> B[q]]
            BY <2>13, <2>14
        <3>3. Placed(x, p, out, in) = [q \in Slots(x) |-> Placed(x, p, out, in)[q]]
            BY DEF Placed
        <3> QED
            BY <3>0, <3>1, <3>2, <3>3
    <2>18. Keeps(w, y, {"uses", "snd_dev_ref_cnt", "paths"})
        BY <2>8, <2>15 DEF Moved, Keeps, HalFields
    <2>19. Turned(w, y, id, t, in)
        BY <2>9, <2>16, SMTT(60) DEF Turned
    <2> QED
        BY <1>2, <2>5, <2>15, <2>16, <2>17, <2>18, <2>19 DEF InMoved
<1> QED
    BY <1>1, <1>2

(* The same usecases are listed, whatever their devices.                   *)
SameUses(w, x) ==
    /\ DOMAIN x.uses = DOMAIN w.uses
    /\ \A j \in DOMAIN w.uses :
        /\ x.uses[j].id = w.uses[j].id /\ x.uses[j].type = w.uses[j].type
        /\ x.uses[j].stream = w.uses[j].stream /\ x.uses[j].mixer = w.uses[j].mixer

(* The usecase at p is on out and in, and it took the others along.        *)
Rerouted(w, x, p, out, in) ==
    /\ x.uses[p].out = out /\ x.uses[p].in = in
    /\ \A j \in DOMAIN w.uses \ {p} :
        /\ x.uses[j].out = IF w.uses[j].type = "PCM_PLAYBACK" /\ out # None THEN out ELSE w.uses[j].out
        /\ x.uses[j].in = IF w.uses[j].type = "PCM_CAPTURE" /\ in # None THEN in ELSE w.uses[j].in

(* What Route leaves.                                                      *)
RouteOk(w, x, p, out, in) ==
    /\ Shape(x) /\ Struct(x) /\ Matches(x) /\ SameUses(w, x)
    /\ Keeps(w, x, {"uses", "snd_dev_ref_cnt", "paths", "modem_path"})
    /\ \/ x = w /\ w.uses[p].out = out /\ w.uses[p].in = in
       \/ /\ Rerouted(w, x, p, out, in)
          /\ x.modem_path = IF out # None /\ w.in_call THEN ModemPath(w.session) ELSE w.modem_path

(* Both devices of the usecase at p are stored, and the list then shows    *)
(* what is counted.                                                        *)
LEMMA DevicesStored ==
    ASSUME NEW w, Shape(w), Struct(w), NEW p \in DOMAIN w.uses, NEW id, id = w.uses[p].id,
           NEW out \in OutTypes, NEW in \in InTypes, Sound(w, Placed(w, p, out, in)),
           id \in Outputs => in = None, id = "CAPTURE" => out = None,
           NEW x, x = SetDevice(SetDevice(w, id, "in", in), id, "out", out)
    PROVE  /\ Shape(x) /\ Struct(x) /\ Matches(x) /\ SameUses(w, x) /\ Keeps(w, x, {"uses"})
           /\ x.uses[p].out = out /\ x.uses[p].in = in
           /\ \A j \in DOMAIN w.uses \ {p} : x.uses[j] = w.uses[j]
<1>1. PICK u : u = w.uses[p]
    OBVIOUS
<1>2. u \in UseRec
    BY <1>1, UseTyped
<1>3. PICK v : v = With(u, "in", in)
    OBVIOUS
<1>4. PICK t : t = With(v, "out", out)
    OBVIOUS
<1>5. v \in UseRec /\ v.id = u.id
    BY <1>2, <1>3 DEF With, UseRec, InTypes
<1>6. t \in UseRec /\ t.id = u.id
    BY <1>4, <1>5 DEF With, UseRec, OutTypes
<1>7. t.type = u.type /\ t.stream = u.stream /\ t.mixer = u.mixer /\ t.in = in /\ t.out = out
    BY <1>2, <1>3, <1>4 DEF With, UseRec
<1>8. PICK y : y = SetDevice(w, id, "in", in)
    OBVIOUS
<1>9. Shape(y) /\ Keeps(w, y, {"uses"}) /\ y.uses = With(w.uses, p, v)
    BY <1>1, <1>3, <1>5, <1>8, SetDeviceEffect DEF Struct
<1>10. /\ p \in DOMAIN y.uses /\ y.uses[p] = v /\ DOMAIN y.uses = DOMAIN w.uses
       /\ \A j \in DOMAIN w.uses \ {p} : y.uses[j] = w.uses[j]
    BY <1>9 DEF With
<1>11. Distinct(y)
    <2>1. \A j \in DOMAIN w.uses : y.uses[j].id = w.uses[j].id
        BY <1>1, <1>5, <1>10
    <2> QED
        BY <1>10, <2>1 DEF Struct, Distinct
<1>12. Shape(x) /\ Keeps(y, x, {"uses"}) /\ x.uses = With(y.uses, p, t)
    <2>1. x = SetDevice(y, id, "out", out) /\ id = y.uses[p].id
        BY <1>1, <1>5, <1>8, <1>10
    <2> QED
        BY <1>4, <1>6, <1>9, <1>10, <1>11, <2>1, SetDeviceEffect
<1>13. /\ DOMAIN x.uses = DOMAIN w.uses /\ x.uses[p] = t
       /\ \A j \in DOMAIN w.uses \ {p} : x.uses[j] = w.uses[j]
    BY <1>10, <1>12 DEF With
<1>14. SameUses(w, x)
    <2>1. ASSUME NEW j \in DOMAIN w.uses
          PROVE  /\ x.uses[j].id = w.uses[j].id /\ x.uses[j].type = w.uses[j].type
                 /\ x.uses[j].stream = w.uses[j].stream /\ x.uses[j].mixer = w.uses[j].mixer
        <3>1. CASE j = p
            BY <1>1, <1>6, <1>7, <1>13, <3>1
        <3>2. CASE j # p
            BY <1>13, <3>2
        <3> QED
            BY <3>1, <3>2
    <2> QED
        BY <1>13, <2>1 DEF SameUses
<1>15. Struct(x)
    <2>1. Distinct(x)
        <3>1. \A j \in DOMAIN w.uses : x.uses[j].id = w.uses[j].id
            BY <1>14 DEF SameUses
        <3>2. Distinct(w)
            BY DEF Struct
        <3> QED
            BY <1>13, <3>1, <3>2, SMTT(60) DEF Distinct
    <2>2. ASSUME NEW j \in DOMAIN w.uses
          PROVE  /\ x.uses[j].id \in Outputs => x.uses[j].type = "PCM_PLAYBACK" /\ x.uses[j].in = None
                 /\ x.uses[j].id = "CAPTURE" => x.uses[j].type = "PCM_CAPTURE" /\ x.uses[j].out = None
                 /\ x.uses[j].id = "VOICE_CALL" => x.uses[j].type = "VOICE_CALL"
                 /\ Covered => x.uses[j].mixer
        <3>1. CASE j = p
            BY <1>1, <1>6, <1>7, <1>13, <3>1, SMTT(60) DEF Struct
        <3>2. CASE j # p
            <4>1. x.uses[j] = w.uses[j]
                BY <1>13, <3>2
            <4> QED
                BY <4>1 DEF Struct
        <3> QED
            BY <3>1, <3>2
    <2> QED
        BY <1>13, <2>1, <2>2 DEF Struct
<1>16. Assigned(x) = Placed(w, p, out, in)
    <2>1. Slots(x) = Slots(w)
        BY <1>13 DEF Slots
    <2>2. ASSUME NEW s \in Slots(w) PROVE Assigned(x)[s] = Placed(w, p, out, in)[s]
        <3>1. s[1] \in DOMAIN w.uses /\ s[2] \in {"in", "out"}
            BY DEF Slots
        <3>2. Assigned(x)[s] = x.uses[s[1]][s[2]]
            BY <2>1 DEF Assigned
        <3>3. Placed(w, p, out, in)[s] = IF s[1] = p THEN IF s[2] = "out" THEN out ELSE in ELSE w.uses[s[1]][s[2]]
            BY DEF Placed
        <3>4. CASE s[1] = p
            <4>1. x.uses[s[1]][s[2]] = t[s[2]]
                BY <1>13, <3>4
            <4>2. s[2] = "out" => t[s[2]] = out
                BY <1>7
            <4>3. s[2] = "in" => t[s[2]] = in
                BY <1>7
            <4> QED
                BY <3>1, <3>2, <3>3, <3>4, <4>1, <4>2, <4>3
        <3>5. CASE s[1] # p
            BY <1>13, <3>1, <3>2, <3>3, <3>5
        <3> QED
            BY <3>4, <3>5
    <2> QED
        BY <2>1, <2>2 DEF Assigned, Placed
<1>17. Keeps(w, x, {"uses"})
    BY <1>9, <1>12 DEF Keeps
<1>18. Matches(x)
    <2>1. x.snd_dev_ref_cnt = w.snd_dev_ref_cnt /\ x.paths = w.paths
        BY <1>17 DEF Keeps, HalFields
    <2>2. Sound(x, Placed(w, p, out, in))
        BY <2>1 DEF Sound, RefsAre, PathsAre
    <2> QED
        BY <1>16, <2>2 DEF Matches
<1> QED
    BY <1>7, <1>12, <1>13, <1>14, <1>15, <1>17, <1>18

(* Route, as a whole: whatever devices select_devices has chosen, the      *)
(* counters and the paths match the list again when it returns.            *)
LEMMA RouteEffect ==
    ASSUME NEW w, Shape(w), Struct(w), Matches(w), OneIn(Assigned(w)), NEW p \in DOMAIN w.uses,
           NEW id, id = w.uses[p].id, NEW out \in OutTypes, NEW in \in InTypes,
           id \in Outputs => in = None, id = "CAPTURE" => out = None,
           NEW x, x = Route(w, id, out, in)
    PROVE  RouteOk(w, x, p, out, in)
<1>1. PICK u : u = w.uses[p]
    OBVIOUS
<1>2. u = Usecase(w, id)
    BY <1>1, IdFound DEF Usecase, Shape, Struct
<1>3. CASE out = u.out /\ in = u.in
    <2>1. x = w
        BY <1>2, <1>3 DEF Route
    <2> QED
        BY <1>1, <1>3, <2>1 DEF RouteOk, SameUses, Keeps
<1>4. CASE ~(out = u.out /\ in = u.in)
    <2>1. PICK w1 : w1 = disable_snd_device(disable_snd_device(w, u, u.out), u, u.in)
        OBVIOUS
    <2>2. PICK w2 : w2 = IF out = None THEN w1
                         ELSE enable_snd_device(
                                check_and_route_usecases(SetModemPath(w1), id, "PCM_PLAYBACK", out), u, out)
        OBVIOUS
    <2>3. PICK w3 : w3 = IF in = None THEN w2
                         ELSE enable_snd_device(check_and_route_usecases(w2, id, "PCM_CAPTURE", in), u, in)
        OBVIOUS
    <2>4. x = SetDevice(SetDevice(w3, id, "in", in), id, "out", out)
        BY <1>2, <1>4, <2>1, <2>2, <2>3 DEF Route
    <2>5. Covered => u.mixer
        BY <1>1 DEF Struct
    <2>6. Moved(w, w1) /\ Sound(w1, Routed(w1, p, None))
        BY <1>1, <2>1, BothReleased
    <2>7. w1.uses = w.uses /\ Struct(w1) /\ Shape(w1)
        BY <2>6, MovedSame
    <2>8. OutMoved(w1, w2, id, p, out)
        <3>1. p \in DOMAIN w1.uses /\ id = w1.uses[p].id
            BY <2>7
        <3> QED
            BY <2>2, <2>5, <2>6, <2>7, <3>1, OutHalf
    <2>9. /\ DOMAIN w2.uses = DOMAIN w.uses
          /\ \A j \in DOMAIN w.uses :
              /\ w2.uses[j].id = w.uses[j].id /\ w2.uses[j].type = w.uses[j].type
              /\ w2.uses[j].stream = w.uses[j].stream /\ w2.uses[j].mixer = w.uses[j].mixer
              /\ w2.uses[j].in = w.uses[j].in
              /\ w2.uses[j].out = IF w.uses[j].type = "PCM_PLAYBACK" /\ out # None /\ w.uses[j].id # id
                                  THEN out ELSE w.uses[j].out
        <3>1. CASE out = None
            BY <2>7, <2>8, <3>1 DEF OutMoved
        <3>2. CASE out # None
            BY <2>7, <2>8, <3>2 DEF OutMoved, Turned
        <3> QED
            BY <3>1, <3>2
    <2>10. InMoved(w2, w3, id, p, out, in)
        <3>1. p \in DOMAIN w2.uses /\ id = w2.uses[p].id
            BY <2>9
        <3>2. in # None => w2.uses[p].type # "PCM_PLAYBACK"
            <4>1. in # None => id \in {"CAPTURE", "VOICE_CALL"}
                BY UseTyped DEF Ids
            <4> QED
                BY <2>9, <4>1 DEF Struct
        <3>3. Shape(w2) /\ Struct(w2) /\ Sound(w2, Routed(w2, p, out))
            BY <2>8 DEF OutMoved
        <3> QED
            BY <2>3, <2>5, <3>1, <3>2, <3>3, InHalf
    <2>11. /\ DOMAIN w3.uses = DOMAIN w2.uses
           /\ \A j \in DOMAIN w2.uses :
              /\ w3.uses[j].id = w2.uses[j].id /\ w3.uses[j].type = w2.uses[j].type
              /\ w3.uses[j].stream = w2.uses[j].stream /\ w3.uses[j].mixer = w2.uses[j].mixer
              /\ w3.uses[j].out = w2.uses[j].out
              /\ w3.uses[j].in = IF w2.uses[j].type = "PCM_CAPTURE" /\ in # None /\ w2.uses[j].id # id
                                  THEN in ELSE w2.uses[j].in
        <3>1. CASE in = None
            BY <2>10, <3>1 DEF InMoved
        <3>2. CASE in # None
            BY <2>10, <3>2 DEF InMoved, Turned
        <3> QED
            BY <3>1, <3>2
    <2>12. /\ Shape(x) /\ Struct(x) /\ Matches(x) /\ SameUses(w3, x) /\ Keeps(w3, x, {"uses"})
           /\ x.uses[p].out = out /\ x.uses[p].in = in
           /\ \A j \in DOMAIN w3.uses \ {p} : x.uses[j] = w3.uses[j]
        <3>1. p \in DOMAIN w3.uses /\ id = w3.uses[p].id
            BY <2>9, <2>11
        <3>2. Shape(w3) /\ Struct(w3) /\ Sound(w3, Placed(w3, p, out, in))
            BY <2>10 DEF InMoved
        <3> QED
            BY <2>4, <3>1, <3>2, DevicesStored
    <2>13. SameUses(w, x)
        <3>1. SameUses(w3, x)
            BY <2>12
        <3>2. SameUses(w, w3)
            BY <2>9, <2>11 DEF SameUses
        <3> QED
            BY <3>1, <3>2 DEF SameUses
    <2>14. Rerouted(w, x, p, out, in)
        <3>1. ASSUME NEW j \in DOMAIN w.uses \ {p}
              PROVE  /\ x.uses[j].out = IF w.uses[j].type = "PCM_PLAYBACK" /\ out # None THEN out ELSE w.uses[j].out
                     /\ x.uses[j].in = IF w.uses[j].type = "PCM_CAPTURE" /\ in # None THEN in ELSE w.uses[j].in
            <4>1. w.uses[j].id # id
                BY DEF Struct, Distinct
            <4>2. x.uses[j] = w3.uses[j]
                BY <2>9, <2>11, <2>12
            <4> QED
                BY <2>9, <2>11, <4>1, <4>2
        <3> QED
            BY <2>12, <3>1 DEF Rerouted
    <2>15. Keeps(w, x, {"uses", "snd_dev_ref_cnt", "paths", "modem_path"})
        BY <2>6, <2>8, <2>10, <2>12 DEF Moved, OutMoved, InMoved, Keeps
    <2>16. x.modem_path = IF out # None /\ w.in_call THEN ModemPath(w.session) ELSE w.modem_path
        <3>1. w1.in_call = w.in_call /\ w1.session = w.session /\ w1.modem_path = w.modem_path
            BY <2>6 DEF Moved, Keeps, HalFields
        <3>2. x.modem_path = w2.modem_path
            BY <2>10, <2>12 DEF InMoved, Keeps, HalFields
        <3> QED
            BY <2>8, <3>1, <3>2 DEF OutMoved
    <2> QED
        BY <2>12, <2>13, <2>14, <2>15, <2>16 DEF RouteOk
<1> QED
    BY <1>3, <1>4

-----------------------------------------------------------------------------
(* A usecase leaves the list.                                              *)

(* One position taken out of a sequence.                                   *)
LEMMA RemovedAt ==
    ASSUME NEW S, NEW q \in Seq(S), NEW p \in 1..Len(q)
    PROVE  /\ RemoveAt(q, p) \in Seq(S) /\ Len(RemoveAt(q, p)) = Len(q) - 1
           /\ \A i \in 1..(Len(q) - 1) : RemoveAt(q, p)[i] = IF i < p THEN q[i] ELSE q[i + 1]
<1>1. PICK n : n = Len(q)
    OBVIOUS
<1>2. n \in Nat /\ p \in 1..n /\ \A i \in 1..n : q[i] \in S
    BY <1>1, ElementOfSeq
<1>3. PICK a : a = SubSeq(q, 1, p - 1)
    OBVIOUS
<1>4. PICK b : b = SubSeq(q, p + 1, n)
    OBVIOUS
<1>5. a \in Seq(S) /\ Len(a) = p - 1 /\ \A i \in 1..(p - 1) : a[i] = q[i]
    <2>1. p - 1 \in Int /\ \A i \in 1..(p - 1) : i \in 1..n
        BY <1>2
    <2>2. /\ a \in Seq(S) /\ Len(a) = IF 1 <= p - 1 THEN (p - 1) - 1 + 1 ELSE 0
          /\ \A i \in 1..((p - 1) - 1 + 1) : a[i] = q[1 + i - 1]
        BY <1>2, <1>3, <2>1, SubSeqProperties
    <2>3. (p - 1) - 1 + 1 = p - 1 /\ Len(a) = p - 1
        BY <1>2, <2>2
    <2>4. \A i \in 1..(p - 1) : a[i] = q[1 + i - 1] /\ 1 + i - 1 = i
        BY <1>2, <2>2, <2>3
    <2> QED
        BY <2>2, <2>3, <2>4
<1>6. b \in Seq(S) /\ Len(b) = n - p /\ \A i \in 1..(n - p) : b[i] = q[p + i]
    <2>1. p + 1 \in Int /\ n \in Int /\ \A i \in (p + 1)..n : i \in 1..n
        BY <1>2
    <2>2. /\ b \in Seq(S) /\ Len(b) = IF p + 1 <= n THEN n - (p + 1) + 1 ELSE 0
          /\ \A i \in 1..(n - (p + 1) + 1) : b[i] = q[(p + 1) + i - 1]
        BY <1>2, <1>4, <2>1, SubSeqProperties
    <2>3. n - (p + 1) + 1 = n - p /\ Len(b) = n - p
        BY <1>2, <2>2
    <2>4. \A i \in 1..(n - p) : b[i] = q[(p + 1) + i - 1] /\ (p + 1) + i - 1 = p + i
        BY <1>2, <2>2, <2>3
    <2> QED
        BY <2>2, <2>3, <2>4
<1>7. PICK r : r = a \o b
    OBVIOUS
<1>8. /\ r \in Seq(S) /\ Len(r) = Len(a) + Len(b)
      /\ \A i \in 1..(Len(a) + Len(b)) : r[i] = IF i <= Len(a) THEN a[i] ELSE b[i - Len(a)]
    BY <1>5, <1>6, <1>7, ConcatProperties
<1>9. Len(a) + Len(b) = n - 1
    BY <1>2, <1>5, <1>6
<1>10. ASSUME NEW i \in 1..(n - 1) PROVE r[i] = IF i < p THEN q[i] ELSE q[i + 1]
    <2>1. r[i] = IF i <= p - 1 THEN a[i] ELSE b[i - (p - 1)]
        BY <1>5, <1>8, <1>9
    <2>2. CASE i < p
        <3>1. i <= p - 1 /\ i \in 1..(p - 1)
            BY <1>2, <2>2
        <3> QED
            BY <1>5, <2>1, <2>2, <3>1
    <2>3. CASE ~(i < p)
        <3>1. ~(i <= p - 1) /\ i - (p - 1) \in 1..(n - p) /\ p + (i - (p - 1)) = i + 1
            BY <1>2, <2>3
        <3> QED
            BY <1>6, <2>1, <2>3, <3>1
    <2> QED
        BY <2>2, <2>3
<1>11. RemoveAt(q, p) = r
    BY <1>1, <1>3, <1>4, <1>7 DEF RemoveAt
<1> QED
    BY <1>1, <1>8, <1>9, <1>10, <1>11

(* x lists the usecases of w but for the one at p.                         *)
Without(w, x, p) ==
    /\ \A j \in DOMAIN x.uses : \E k \in DOMAIN w.uses \ {p} : x.uses[j] = w.uses[k]
    /\ \A k \in DOMAIN w.uses \ {p} : \E j \in DOMAIN x.uses : x.uses[j] = w.uses[k]

(* A usecase whose devices are released can be taken off the list.         *)
LEMMA Unlisted ==
    ASSUME NEW w, Shape(w), Struct(w), NEW p \in DOMAIN w.uses, NEW id, id = w.uses[p].id,
           Sound(w, Routed(w, p, None)), NEW x, x = Unlist(w, id)
    PROVE  Shape(x) /\ Struct(x) /\ Matches(x) /\ Keeps(w, x, {"uses"}) /\ Without(w, x, p)
<1>1. PICK q : q = w.uses
    OBVIOUS
<1>2. q \in Seq(UseRec) /\ DOMAIN q = 1..Len(q) /\ Len(q) \in Nat /\ p \in 1..Len(q)
    BY <1>1 DEF Shape
<1>3. x = [w EXCEPT !.uses = RemoveAt(q, p)]
    <2>1. get_usecase_from_id(w, id) = p
        BY IdFound DEF Shape, Struct
    <2> QED
        BY <1>1, <2>1 DEF Unlist
<1>4. PICK r : r = RemoveAt(q, p)
    OBVIOUS
<1>5. /\ r \in Seq(UseRec) /\ Len(r) = Len(q) - 1 /\ DOMAIN r = 1..(Len(q) - 1)
      /\ \A i \in 1..(Len(q) - 1) : r[i] = IF i < p THEN q[i] ELSE q[i + 1]
    <2>1. /\ r \in Seq(UseRec) /\ Len(r) = Len(q) - 1
          /\ \A i \in 1..(Len(q) - 1) : r[i] = IF i < p THEN q[i] ELSE q[i + 1]
        BY <1>2, <1>4, RemovedAt
    <2> QED
        BY <2>1
<1>6. Shape(x) /\ Keeps(w, x, {"uses"}) /\ x.uses = r
    <2>1. DOMAIN x = HalFields /\ x.uses = r /\ \A f \in HalFields \ {"uses"} : x[f] = w[f]
        BY <1>3, <1>4 DEF Shape, HalFields
    <2>2. x.snd_dev_ref_cnt = w.snd_dev_ref_cnt
        BY <2>1 DEF HalFields
    <2> QED
        BY <1>5, <2>1, <2>2 DEF Shape, Keeps
<1> DEFINE From(i) == IF i < p THEN i ELSE i + 1
<1>7. /\ \A j \in DOMAIN r : From(j) \in DOMAIN q \ {p} /\ r[j] = q[From(j)]
      /\ \A j, l \in DOMAIN r : From(j) = From(l) => j = l
      /\ \A k \in DOMAIN q \ {p} : \E j \in DOMAIN r : From(j) = k
    <2>1. ASSUME NEW j \in DOMAIN r PROVE From(j) \in DOMAIN q \ {p} /\ r[j] = q[From(j)]
        BY <1>2, <1>5
    <2>2. ASSUME NEW j \in DOMAIN r, NEW l \in DOMAIN r, From(j) = From(l) PROVE j = l
        BY <1>2, <1>5, <2>2
    <2>3. ASSUME NEW k \in DOMAIN q \ {p} PROVE \E j \in DOMAIN r : From(j) = k
        <3>1. CASE k < p
            <4>1. k \in DOMAIN r /\ From(k) = k
                BY <1>2, <1>5, <3>1
            <4> QED
                BY <4>1
        <3>2. CASE ~(k < p)
            <4>1. k - 1 \in DOMAIN r /\ From(k - 1) = k
                BY <1>2, <1>5, <3>2
            <4> QED
                BY <4>1
        <3> QED
            BY <3>1, <3>2
    <2> QED
        BY <2>1, <2>2, <2>3
<1> HIDE DEF From
<1>8. Without(w, x, p)
    <2>1. ASSUME NEW j \in DOMAIN r PROVE \E k \in DOMAIN q \ {p} : r[j] = q[k]
        BY <1>7
    <2>2. ASSUME NEW k \in DOMAIN q \ {p} PROVE \E j \in DOMAIN r : r[j] = q[k]
        BY <1>7
    <2> QED
        BY <1>1, <1>6, <2>1, <2>2 DEF Without
<1>9. Struct(x)
    <2>1. Distinct(x)
        <3>1. ASSUME NEW j \in DOMAIN r, NEW l \in DOMAIN r, r[j].id = r[l].id PROVE j = l
            <4>1. q[From(j)].id = q[From(l)].id /\ From(j) \in DOMAIN q /\ From(l) \in DOMAIN q
                BY <1>7, <3>1
            <4>2. From(j) = From(l)
                BY <1>1, <4>1 DEF Struct, Distinct
            <4> QED
                BY <1>7, <4>2
        <3> QED
            BY <1>6, <3>1 DEF Distinct
    <2>2. ASSUME NEW j \in DOMAIN r
          PROVE  /\ r[j].id \in Outputs => r[j].type = "PCM_PLAYBACK" /\ r[j].in = None
                 /\ r[j].id = "CAPTURE" => r[j].type = "PCM_CAPTURE" /\ r[j].out = None
                 /\ r[j].id = "VOICE_CALL" => r[j].type = "VOICE_CALL"
                 /\ Covered => r[j].mixer
        <3>1. PICK k : k \in DOMAIN w.uses /\ r[j] = w.uses[k]
            BY <1>1, <1>7
        <3> QED
            BY <3>1 DEF Struct
    <2> QED
        BY <1>6, <2>1, <2>2 DEF Struct
<1>10. ASSUME NEW d \in SndDevices
       PROVE  Cardinality(UsersOf(Assigned(x), d)) = Cardinality(UsersOf(Routed(w, p, None), d))
    <2>1. PICK T : T = UsersOf(Assigned(x), d)
        OBVIOUS
    <2>2. PICK U : U = UsersOf(Routed(w, p, None), d)
        OBVIOUS
    <2>3. T = {s \in (DOMAIN r) \X {"in", "out"} : d \in Parts(r[s[1]][s[2]])}
        BY <1>6, <2>1 DEF UsersOf, Assigned, Slots
    <2>4. d \notin Parts(None)
        BY DeviceFacts DEF Parts
    <2>5. U = {s \in (DOMAIN q \ {p}) \X {"in", "out"} : d \in Parts(q[s[1]][s[2]])}
        BY <1>1, <2>2, <2>4 DEF UsersOf, Routed, Slots
    <2>6. PICK f : f = [s \in T |-> <<From(s[1]), s[2]>>]
        OBVIOUS
    <2>7. ASSUME NEW s \in T PROVE f[s] \in U
        <3>1. s[1] \in DOMAIN r /\ s[2] \in {"in", "out"} /\ d \in Parts(r[s[1]][s[2]])
            BY <2>3
        <3>2. From(s[1]) \in DOMAIN q \ {p} /\ r[s[1]] = q[From(s[1])]
            BY <1>7, <3>1
        <3>3. f[s] = <<From(s[1]), s[2]>>
            BY <2>6
        <3> QED
            BY <2>5, <3>1, <3>2, <3>3
    <2>8. ASSUME NEW s \in T, NEW t \in T, f[s] = f[t] PROVE s = t
        <3>1. From(s[1]) = From(t[1]) /\ s[2] = t[2]
            BY <2>6, <2>8
        <3>2. s[1] \in DOMAIN r /\ t[1] \in DOMAIN r /\ s = <<s[1], s[2]>> /\ t = <<t[1], t[2]>>
            BY <2>3
        <3>3. s[1] = t[1]
            BY <1>7, <3>1, <3>2
        <3> QED
            BY <3>1, <3>2, <3>3
    <2>9. ASSUME NEW t \in U PROVE \E s \in T : f[s] = t
        <3>1. t[1] \in DOMAIN q \ {p} /\ t[2] \in {"in", "out"} /\ t = <<t[1], t[2]>> /\ d \in Parts(q[t[1]][t[2]])
            BY <2>5
        <3>2. PICK j : j \in DOMAIN r /\ From(j) = t[1]
            BY <1>7, <3>1
        <3>3. PICK s : s = <<j, t[2]>>
            OBVIOUS
        <3>4. r[j] = q[t[1]]
            BY <1>7, <3>2
        <3>5. s \in T
            BY <2>3, <3>1, <3>2, <3>3, <3>4
        <3>6. f[s] = t
            BY <2>6, <3>1, <3>2, <3>3, <3>5
        <3> QED
            BY <3>5, <3>6
    <2>10. f \in Bijection(T, U)
        <3>1. f \in [T -> U]
            BY <2>6, <2>7
        <3>2. DOMAIN f = T
            BY <2>6
        <3> QED
            BY <2>8, <2>9, <3>1, <3>2 DEF Bijection, Injection, Surjection, IsInjective
    <2>11. IsFiniteSet(T)
        <3>1. T \in SUBSET Slots(x)
            BY <1>6, <2>3 DEF Slots
        <3> QED
            BY <1>6, <3>1, SlotsFinite, FS_Subset
    <2>12. ExistsBijection(T, U)
        BY <2>10 DEF ExistsBijection
    <2>13. Cardinality(U) = Cardinality(T)
        BY <2>11, <2>12, FS_Bijection
    <2> QED
        BY <2>1, <2>2, <2>13
<1>11. Matches(x)
    <2>1. x.snd_dev_ref_cnt = w.snd_dev_ref_cnt /\ x.paths = w.paths
        BY <1>6 DEF Keeps, HalFields
    <2> QED
        BY <1>10, <2>1 DEF Matches, Sound, RefsAre, PathsAre
<1> QED
    BY <1>6, <1>8, <1>9, <1>11

-----------------------------------------------------------------------------
(* The devices that get_output_snd_device and get_input_snd_device return. *)

(* The value of an if / else if chain whose values are in S.               *)
LEMMA FirstOfSome ==
    ASSUME NEW chain, NEW n \in Nat, Len(chain) = n, NEW S, \A i \in 1..n : chain[i][2] \in S
    PROVE  /\ FirstOf(chain) \in S \cup {None}
           /\ (\E i \in 1..n : chain[i][1]) => FirstOf(chain) \in S
<1> DEFINE I == {i \in 1..n : chain[i][1]}
<1>1. PICK k : k = IF I # {} THEN Min(I) ELSE 0
    OBVIOUS
<1>2. FirstOf(chain) = IF k = 0 THEN None ELSE chain[k][2]
    BY <1>1 DEF FirstOf, SelectInSeq
<1>3. I # {} => Min(I) \in I
    <2>1. I \in SUBSET Nat
        OBVIOUS
    <2> QED
        BY <2>1, LeastExists
<1>4. I # {} => k \in 1..n /\ k # 0
    BY <1>1, <1>3
<1>5. I = {} => k = 0
    BY <1>1
<1> QED
    BY <1>2, <1>4, <1>5

(* Devices of a playback profile have a kind.                              *)
LEMMA KindTyped ==
    ASSUME NEW devices
    PROVE  /\ Kind(devices) \in {"HEADPHONES", "BT_SCO", "SPEAKER", "EARPIECE", None}
           /\ devices \cap PlaybackProfile # {} => Kind(devices) # None
<1>1. PICK c : c = << <<devices \cap {"HEADPHONE", "HEADSET"} # {}, "HEADPHONES">>,
                      <<devices \cap AllSco # {}, "BT_SCO">>,
                      <<"SPEAKER" \in devices, "SPEAKER">>,
                      <<"EARPIECE" \in devices, "EARPIECE">> >>
    OBVIOUS
<1>2. Kind(devices) = FirstOf(c)
    BY <1>1 DEF Kind
<1>3. Len(c) = 4 /\ \A i \in 1..4 : c[i][2] \in {"HEADPHONES", "BT_SCO", "SPEAKER", "EARPIECE"}
    BY <1>1
<1>4. ASSUME devices \cap PlaybackProfile # {} PROVE \E i \in 1..4 : c[i][1]
    <2>1. PICK d : d \in devices /\ d \in {"EARPIECE", "SPEAKER", "HEADSET", "HEADPHONE"} \cup AllSco
        BY <1>4 DEF PlaybackProfile
    <2>2. \/ c[1][1] \/ c[2][1] \/ c[3][1] \/ c[4][1]
        BY <1>1, <2>1
    <2> QED
        BY <2>2
<1>5. None \notin {"HEADPHONES", "BT_SCO", "SPEAKER", "EARPIECE"}
    BY DEF None
<1> QED
    BY <1>2, <1>3, <1>4, <1>5, FirstOfSome

(* The sets of devices that get_output_snd_device knows outside a call:    *)
(* one device of a playback profile, or the speaker together with a        *)
(* headphone or a headset. For any other it logs an error and returns      *)
(* SND_DEVICE_NONE.                                                        *)
Routable ==
    \A d \in OutDevices :
        /\ d \cap PlaybackProfile # {}
        /\ Cardinality(d) = 1 \/ d \in {{"HEADPHONE", "SPEAKER"}, {"HEADSET", "SPEAKER"}}

(* get_output_snd_device returns an output device, and not SND_DEVICE_NONE *)
(* for devices it knows.                                                   *)
LEMMA OutDeviceTyped ==
    ASSUME NEW w, NEW devices
    PROVE  /\ get_output_snd_device(w, devices) \in OutTypes
           /\ Routable /\ devices \in OutDevices => get_output_snd_device(w, devices) # None
<1>1. PICK k : k = Kind(devices)
    OBVIOUS
<1>2. /\ k \in {"HEADPHONES", "BT_SCO", "SPEAKER", "EARPIECE", None}
      /\ devices \cap PlaybackProfile # {} => k # None
    BY <1>1, KindTyped
<1>3. PICK c : c = << <<devices \in {{"HEADPHONE", "SPEAKER"}, {"HEADSET", "SPEAKER"}}, Combo>>,
                      <<Cardinality(devices) = 1, k>> >>
    OBVIOUS
<1>4. None \notin {"HEADPHONES", "BT_SCO", "SPEAKER", "EARPIECE", Combo}
    BY DEF None, Combo
<1>5. get_output_snd_device(w, devices) =
        IF w.mode = "IN_CALL" /\ k # None THEN IF Wideband(w) THEN VoiceOutWb[k] ELSE VoiceOut[k]
        ELSE FirstOf(c)
    BY <1>1, <1>3 DEF get_output_snd_device
<1>6. k # None => VoiceOutWb[k] \in OutSndDevices /\ VoiceOut[k] \in OutSndDevices
    BY <1>2 DEF VoiceOut, VoiceOutWb, OutSndDevices
<1>7. Len(c) = 2 /\ c[1][2] = Combo /\ c[2][2] = k
    BY <1>3
<1>8. FirstOf(c) \in OutTypes
    <2>1. \A i \in 1..2 : c[i][2] \in OutTypes
        <3>1. Combo \in OutTypes /\ k \in OutTypes
            BY <1>2 DEF OutTypes, OutSndDevices
        <3> QED
            BY <1>7, <3>1
    <2>2. None \in OutTypes
        BY DEF OutTypes
    <2> QED
        BY <1>7, <2>1, <2>2, FirstOfSome
<1>9. ASSUME Routable, devices \in OutDevices PROVE k # None /\ FirstOf(c) # None
    <2>1. k # None /\ (Cardinality(devices) = 1 \/ devices \in {{"HEADPHONE", "SPEAKER"}, {"HEADSET", "SPEAKER"}})
        BY <1>2, <1>9 DEF Routable
    <2>2. \A i \in 1..2 : c[i][2] \in {"HEADPHONES", "BT_SCO", "SPEAKER", "EARPIECE", Combo}
        BY <1>2, <1>7, <2>1
    <2>3. \E i \in 1..2 : c[i][1]
        <3>1. c[1][1] \/ c[2][1]
            BY <1>3, <2>1
        <3> QED
            BY <3>1
    <2>4. FirstOf(c) \in {"HEADPHONES", "BT_SCO", "SPEAKER", "EARPIECE", Combo}
        BY <1>7, <2>2, <2>3, FirstOfSome
    <2> QED
        BY <1>4, <2>1, <2>4
<1> QED
    BY <1>5, <1>6, <1>8, <1>9, DeviceFacts DEF OutTypes

(* get_input_snd_device returns an input device or SND_DEVICE_NONE.        *)
LEMMA InDeviceTyped ==
    ASSUME NEW w, NEW s, NEW out
    PROVE  get_input_snd_device(w, s, out) \in InTypes
<1>1. None \in InTypes
    BY DEF InTypes
<1>2. CallMic(w, out) \in InTypes
    <2> DEFINE wb == Wideband(w)
               Wb(narrow, wide) == IF wb THEN wide ELSE narrow
    <2>1. PICK c : c = <<
            <<out = {}, None>>,
            <<out \cap AllSco # {}, Wb("VOICE_BT_SCO_MIC", "VOICE_BT_SCO_MIC_WB")>>,
            <<w.two_mic /\ out \cap {"EARPIECE", "HEADPHONE"} # {},
              Wb("VOICE_EARPIECE_MIC", "VOICE_EARPIECE_MIC_WB")>>,
            <<w.two_mic /\ "SPEAKER" \in out, Wb("VOICE_SPEAKER_MIC", "VOICE_SPEAKER_MIC_WB")>>,
            <<"HEADSET" \in out, Wb("VOICE_HEADSET_MIC", "VOICE_HEADSET_MIC_WB")>>,
            <<TRUE, "VOICE_MIC">> >>
        OBVIOUS
    <2>2. CallMic(w, out) = FirstOf(c)
        BY <2>1 DEF CallMic
    <2>3. Len(c) = 6 /\ \A i \in 1..6 : c[i][2] \in InTypes
        BY <2>1 DEF InTypes, InSndDevices
    <2> QED
        BY <1>1, <2>2, <2>3, FirstOfSome
<1>3. ASSUME NEW in PROVE SourceMic(s, in, out) \in InTypes
    <2> DEFINE talk == s.source \in {"VOICE_COMMUNICATION", "MIC"} /\ s.aec
               rec  == s.source = "VOICE_RECOGNITION"
    <2>1. PICK c : c = <<
            <<s.source = "CAMCORDER" /\ in \cap {"BUILTIN_MIC", "BACK_MIC"} # {}, "CAMCORDER_MIC">>,
            <<rec /\ "BUILTIN_MIC" \in in, "VOICE_REC_MIC">>,
            <<rec /\ "HEADSET_MIC" \in in, "VOICE_REC_HEADSET_MIC">>,
            <<talk /\ "BACK_MIC" \in in, "SPEAKER_MIC_AEC">>,
            <<talk /\ "BUILTIN_MIC" \in in /\ "HEADPHONE" \in out, "SPEAKER_MIC_AEC">>,
            <<talk /\ "BUILTIN_MIC" \in in, "EARPIECE_MIC_AEC">>,
            <<talk /\ "HEADSET_MIC" \in in, "HEADSET_MIC_AEC">> >>
        OBVIOUS
    <2>2. SourceMic(s, in, out) = FirstOf(c)
        BY <2>1 DEF SourceMic
    <2>3. Len(c) = 7 /\ \A i \in 1..7 : c[i][2] \in InTypes
        BY <2>1 DEF InTypes, InSndDevices
    <2> QED
        BY <1>1, <2>2, <2>3, FirstOfSome
<1>4. ASSUME NEW in PROVE PlainMic(in, out) \in InTypes
    <2>1. PICK c : c = <<
        <<"BUILTIN_MIC" \in in, "EARPIECE_MIC">>, <<"BACK_MIC" \in in, "SPEAKER_MIC">>,
        <<"HEADSET_MIC" \in in, "HEADSET_MIC">>,  <<"SCO_MIC" \in in, "BT_SCO_MIC">>,
        <<in # {}, "EARPIECE_MIC">>,
        <<"EARPIECE" \in out, "EARPIECE_MIC">>,   <<"HEADSET" \in out, "HEADSET_MIC">>,
        <<"SPEAKER" \in out, "SPEAKER_MIC">>,     <<"HEADPHONE" \in out, "EARPIECE_MIC">>,
        <<"SCO_HEADSET" \in out, "BT_SCO_MIC">>,  <<TRUE, "EARPIECE_MIC">> >>
        OBVIOUS
    <2>2. PlainMic(in, out) = FirstOf(c)
        BY <2>1 DEF PlainMic
    <2>3. Len(c) = 11 /\ \A i \in 1..11 : c[i][2] \in InTypes
        BY <2>1 DEF InTypes, InSndDevices
    <2> QED
        BY <1>1, <2>2, <2>3, FirstOfSome
<1>5. PICK in : in = IF s.source \in {"VOICE_COMMUNICATION", "MIC"} /\ "SPEAKER" \in out
                     THEN {"BACK_MIC"} ELSE s.devices
    OBVIOUS
<1>6. PICK c : c = << <<s.source = "DEFAULT", None>>,
                      <<SourceMic(s, in, out) # None, SourceMic(s, in, out)>>,
                      <<TRUE, PlainMic(in, out)>> >>
    OBVIOUS
<1>7. FirstOf(c) \in InTypes
    <2>1. Len(c) = 3 /\ c[1][2] = None /\ c[2][2] = SourceMic(s, in, out) /\ c[3][2] = PlainMic(in, out)
        BY <1>6
    <2>2. \A i \in 1..3 : c[i][2] \in InTypes
        BY <1>1, <1>3, <1>4, <2>1
    <2> QED
        BY <1>1, <2>1, <2>2, FirstOfSome
<1>8. get_input_snd_device(w, s, out) = IF w.mode = "IN_CALL" THEN CallMic(w, out) ELSE FirstOf(c)
    BY <1>5, <1>6 DEF get_input_snd_device
<1> QED
    BY <1>2, <1>7, <1>8

-----------------------------------------------------------------------------
(* The invariant: what a call imposes on the other usecases.               *)

(* The types of the streams.                                               *)
StreamTypes(w) ==
    /\ w.out \in [Outputs -> [standby : BOOLEAN, devices : OutDevices]]
    /\ w.in \in [Inputs -> [standby : BOOLEAN, devices : InDevices, source : Sources, aec : BOOLEAN]]
    /\ w.active_input \in Inputs \cup {Nobody} /\ w.in_call \in BOOLEAN

(* adev->voice.in_call and the usecase of the call go together.            *)
CallListed(w) == w.in_call <=> Listed(w, "VOICE_CALL")

(* The capture is on the device of the call, or not routed yet.            *)
WeakIn(w) ==
    \A k, l \in DOMAIN w.uses :
        w.uses[k].id = "VOICE_CALL" /\ w.uses[l].id = "CAPTURE" /\ w.uses[k].in # None =>
            w.uses[l].in \in {None, w.uses[k].in}

(* The capture is on the input device of the call, if that has one.        *)
CallIn(w) ==
    \A k, l \in DOMAIN w.uses :
        w.uses[k].id = "VOICE_CALL" /\ w.uses[l].id = "CAPTURE" /\ w.uses[k].in # None =>
            w.uses[l].in = w.uses[k].in

(* The playback usecases but the one at p are on the output device of the  *)
(* call, if that has one.                                                  *)
CallOutBut(w, p) ==
    \A k, l \in DOMAIN w.uses :
        w.uses[k].id = "VOICE_CALL" /\ w.uses[l].id \in Outputs /\ l # p /\ w.uses[k].out # None =>
            w.uses[l].out = w.uses[k].out

(* All of them are; no usecase is at 0.                                    *)
CallOut(w) == CallOutBut(w, 0)

(* The playback usecases but the one at p share one device.                *)
SharedBut(w, p) ==
    \A k, l \in DOMAIN w.uses :
        w.uses[k].id \in Outputs /\ w.uses[l].id \in Outputs /\ k # p /\ l # p =>
            w.uses[k].out = w.uses[l].out

(* All of them do.                                                         *)
Shared(w) == SharedBut(w, 0)

(* What holds also while select_devices has a new usecase before it.       *)
Half(w) == Shape(w) /\ Struct(w) /\ Matches(w) /\ StreamTypes(w) /\ CallListed(w) /\ WeakIn(w)

(* What holds between two calls.                                           *)
Good(w) == Half(w) /\ CallIn(w) /\ CallOut(w) /\ (Routable => Shared(w))

(* The fields select_devices changes.                                      *)
RoutingFields == {"uses", "snd_dev_ref_cnt", "paths", "modem_path"}

(* The name of an output is not the id of the capture or of the call.      *)
LEMMA IdsApart ==
    ASSUME NEW id \in Ids
    PROVE  /\ id \in Outputs => id # "CAPTURE" /\ id # "VOICE_CALL"
           /\ id \notin Outputs => id \in {"CAPTURE", "VOICE_CALL"}
    BY StreamsAssumption DEF Ids

(* Then at most one input device is in use: there is one capture, and a    *)
(* call imposes its device on it.                                          *)
LEMMA OneInside ==
    ASSUME NEW w, Shape(w), Struct(w), WeakIn(w)
    PROVE  OneIn(Assigned(w))
<1> SUFFICES ASSUME NEW s \in Slots(w), NEW t \in Slots(w),
                    Assigned(w)[s] \in InSndDevices, Assigned(w)[t] \in InSndDevices
             PROVE  Assigned(w)[s] = Assigned(w)[t]
    BY DEF OneIn, Assigned
<1>1. ASSUME NEW q \in Slots(w), Assigned(w)[q] \in InSndDevices
      PROVE  /\ q[1] \in DOMAIN w.uses /\ Assigned(w)[q] = w.uses[q[1]].in
             /\ w.uses[q[1]].id \in {"CAPTURE", "VOICE_CALL"}
    <2>1. q[1] \in DOMAIN w.uses /\ q[2] \in {"in", "out"} /\ Assigned(w)[q] = w.uses[q[1]][q[2]]
        BY DEF Slots, Assigned
    <2>2. /\ w.uses[q[1]].id \in Ids /\ w.uses[q[1]].in \in InSndDevices \cup {None}
          /\ w.uses[q[1]].out \in OutSndDevices \cup {Combo, None}
        BY <2>1, UseTyped
    <2>3. q[2] = "in"
        BY <1>1, <2>1, <2>2, DeviceFacts
    <2>4. w.uses[q[1]].id \notin Outputs
        BY <1>1, <2>1, <2>3, DeviceFacts DEF Struct
    <2> QED
        BY <2>1, <2>2, <2>3, <2>4, IdsApart
<1>2. PICK k : k = s[1]
    OBVIOUS
<1>3. PICK l : l = t[1]
    OBVIOUS
<1>4. /\ k \in DOMAIN w.uses /\ l \in DOMAIN w.uses /\ w.uses[k].in # None /\ w.uses[l].in # None
      /\ w.uses[k].id \in {"CAPTURE", "VOICE_CALL"} /\ w.uses[l].id \in {"CAPTURE", "VOICE_CALL"}
      /\ Assigned(w)[s] = w.uses[k].in /\ Assigned(w)[t] = w.uses[l].in
    BY <1>1, <1>2, <1>3, DeviceFacts
<1>5. CASE w.uses[k].id = w.uses[l].id
    BY <1>4, <1>5 DEF Struct, Distinct
<1>6. CASE w.uses[k].id # w.uses[l].id
    BY <1>4, <1>6 DEF WeakIn
<1> QED
    BY <1>5, <1>6

(* Usecase finds the usecase that has the id.                              *)
LEMMA CallFound ==
    ASSUME NEW w, Shape(w), Struct(w), NEW k \in DOMAIN w.uses, NEW id, w.uses[k].id = id
    PROVE  Usecase(w, id) = w.uses[k]
    BY IdFound DEF Usecase, Shape, Struct

(* A step of select_devices keeps Half if it keeps its parts about the     *)
(* list.                                                                   *)
LEMMA HalfKept ==
    ASSUME NEW w, Half(w), NEW x, Shape(x), Struct(x), Matches(x), SameUses(w, x),
           Keeps(w, x, RoutingFields \cup {"session", "two_mic"}), WeakIn(x)
    PROVE  Half(x)
<1>1. x.out = w.out /\ x.in = w.in /\ x.active_input = w.active_input /\ x.in_call = w.in_call
    BY DEF Keeps, HalFields, RoutingFields
<1>2. StreamTypes(x)
    BY <1>1 DEF Half, StreamTypes
<1>3. Listed(x, "VOICE_CALL") <=> Listed(w, "VOICE_CALL")
    BY DEF SameUses, Listed
<1>4. CallListed(x)
    BY <1>1, <1>3 DEF Half, CallListed
<1> QED
    BY <1>2, <1>4 DEF Half

-----------------------------------------------------------------------------
(* select_devices for a capture, a playback and a call.                    *)

(* For the capture: it gets the device of the call or its own, and no      *)
(* other usecase changes.                                                  *)
LEMMA CaptureSelected ==
    ASSUME NEW w, Half(w), NEW p \in DOMAIN w.uses, w.uses[p].id = "CAPTURE", NEW junk,
           NEW x, x = SelectCapture(w, junk)
    PROVE  /\ Half(x) /\ CallIn(x) /\ SameUses(w, x) /\ Keeps(w, x, RoutingFields)
           /\ \A j \in DOMAIN w.uses : x.uses[j].out = w.uses[j].out
           /\ \A j \in DOMAIN w.uses \ {p} : x.uses[j].in = w.uses[j].in
<1>0. Shape(w) /\ Struct(w) /\ Matches(w) /\ StreamTypes(w) /\ CallListed(w) /\ WeakIn(w)
    BY DEF Half
<1>1. PICK vc : vc = IF w.in_call THEN Usecase(w, "VOICE_CALL").in ELSE None
    OBVIOUS
<1>2. PICK s : s = ActiveInput(w, junk)
    OBVIOUS
<1>3. PICK e : e = IF s.source = "VOICE_COMMUNICATION" /\ ~w.out[Primary].standby
                   THEN w.out[Primary].devices ELSE {}
    OBVIOUS
<1>4. PICK in : in = IF vc # None THEN vc ELSE get_input_snd_device(w, s, e)
    OBVIOUS
<1>5. x = Route(w, "CAPTURE", None, in)
    BY <1>1, <1>2, <1>3, <1>4 DEF SelectCapture
<1>6. /\ \A k \in DOMAIN w.uses : w.uses[k].id = "VOICE_CALL" => vc = w.uses[k].in
      /\ vc \in InTypes
    <2>1. ASSUME NEW k \in DOMAIN w.uses, w.uses[k].id = "VOICE_CALL"
          PROVE  vc = w.uses[k].in /\ vc \in InTypes
        <3>1. Usecase(w, "VOICE_CALL") = w.uses[k]
            BY <1>0, <2>1, CallFound
        <3>2. w.in_call
            BY <1>0, <2>1 DEF CallListed, Listed
        <3>3. w.uses[k].in \in InTypes
            BY <1>0, UseTyped DEF InTypes
        <3> QED
            BY <1>1, <3>1, <3>2, <3>3
    <2>2. CASE w.in_call
        <3>1. PICK k : k \in DOMAIN w.uses /\ w.uses[k].id = "VOICE_CALL"
            BY <1>0, <2>2 DEF CallListed, Listed
        <3> QED
            BY <2>1, <3>1
    <2>3. CASE ~w.in_call
        BY <1>1, <2>1, <2>3 DEF InTypes
    <2> QED
        BY <2>1, <2>2, <2>3
<1>7. in \in InTypes
    BY <1>4, <1>6, InDeviceTyped
<1>8. RouteOk(w, x, p, None, in)
    <2>1. OneIn(Assigned(w))
        BY <1>0, OneInside
    <2>2. None \in OutTypes /\ "CAPTURE" \notin Outputs
        BY StreamsAssumption DEF OutTypes
    <2>3. PICK id : id = "CAPTURE"
        OBVIOUS
    <2> QED
        BY <1>0, <1>5, <1>7, <2>1, <2>2, <2>3, RouteEffect
<1>9. /\ Shape(x) /\ Struct(x) /\ Matches(x) /\ SameUses(w, x) /\ Keeps(w, x, RoutingFields)
    BY <1>8 DEF RouteOk, RoutingFields
<1>10. /\ x.uses[p].in = in
       /\ \A j \in DOMAIN w.uses : x.uses[j].out = w.uses[j].out
       /\ \A j \in DOMAIN w.uses \ {p} : x.uses[j].in = w.uses[j].in
    <2>1. CASE x = w /\ w.uses[p].out = None /\ w.uses[p].in = in
        BY <2>1
    <2>2. CASE Rerouted(w, x, p, None, in)
        <3>1. w.uses[p].out = None
            BY <1>0 DEF Struct
        <3>2. \A j \in DOMAIN w.uses \ {p} : w.uses[j].type # "PCM_CAPTURE"
            <4>1. ASSUME NEW j \in DOMAIN w.uses \ {p} PROVE w.uses[j].type # "PCM_CAPTURE"
                <5>1. w.uses[j].id # "CAPTURE" /\ w.uses[j].id \in Ids
                    BY <1>0, UseTyped DEF Struct, Distinct
                <5> QED
                    BY <1>0, <5>1 DEF Struct, Ids
            <4> QED
                BY <4>1
        <3> QED
            BY <2>2, <3>1, <3>2 DEF Rerouted
    <2> QED
        BY <1>8, <2>1, <2>2 DEF RouteOk
<1>11. CallIn(x)
    <2> SUFFICES ASSUME NEW k \in DOMAIN w.uses, NEW l \in DOMAIN w.uses, x.uses[k].id = "VOICE_CALL",
                        x.uses[l].id = "CAPTURE", x.uses[k].in # None
                 PROVE  x.uses[l].in = x.uses[k].in
        BY <1>9 DEF CallIn, SameUses
    <2>1. w.uses[k].id = "VOICE_CALL" /\ w.uses[l].id = "CAPTURE"
        BY <1>9 DEF SameUses
    <2>2. l = p /\ k # p
        BY <1>0, <2>1 DEF Struct, Distinct
    <2>3. x.uses[k].in = w.uses[k].in /\ vc = w.uses[k].in
        BY <1>6, <1>10, <2>1, <2>2
    <2> QED
        BY <1>4, <1>10, <2>2, <2>3
<1>12. WeakIn(x)
    BY <1>11 DEF CallIn, WeakIn
<1>13. Half(x)
    <2>1. Keeps(w, x, RoutingFields \cup {"session", "two_mic"})
        BY <1>9 DEF Keeps
    <2> QED
        BY <1>9, <1>12, <2>1, HalfKept
<1> QED
    BY <1>9, <1>10, <1>11, <1>13

(* A playback usecase is routed to a device that a call, if it has one, is *)
(* on: all playback is there afterwards.                                   *)
LEMMA PlaybackRouted ==
    ASSUME NEW w, Half(w), CallIn(w), NEW p \in DOMAIN w.uses, NEW o \in Outputs, w.uses[p].id = o,
           CallOutBut(w, p), Routable => SharedBut(w, p) /\ (Shared(w) \/ w.uses[p].out = None),
           NEW out \in OutTypes, Routable => out # None,
           \A k \in DOMAIN w.uses : w.uses[k].id = "VOICE_CALL" => w.uses[k].out \in {None, out},
           NEW x, x = Route(w, o, out, None)
    PROVE  Good(x) /\ SameUses(w, x) /\ Keeps(w, x, RoutingFields)
<1>0. Shape(w) /\ Struct(w) /\ Matches(w) /\ StreamTypes(w) /\ CallListed(w) /\ WeakIn(w)
    BY DEF Half
<1>1. RouteOk(w, x, p, out, None)
    <2>1. OneIn(Assigned(w))
        BY <1>0, OneInside
    <2>2. None \in InTypes /\ o # "CAPTURE"
        BY StreamsAssumption DEF InTypes
    <2> QED
        BY <1>0, <2>1, <2>2, RouteEffect
<1>2. Shape(x) /\ Struct(x) /\ Matches(x) /\ SameUses(w, x) /\ Keeps(w, x, RoutingFields)
    BY <1>1 DEF RouteOk, RoutingFields
<1>3. \A j \in DOMAIN w.uses : w.uses[j].id \in Outputs <=> w.uses[j].type = "PCM_PLAYBACK"
    <2>1. ASSUME NEW j \in DOMAIN w.uses
          PROVE  w.uses[j].id \in Outputs <=> w.uses[j].type = "PCM_PLAYBACK"
        <3>1. w.uses[j].id \in Ids
            BY <1>0, UseTyped
        <3> QED
            BY <1>0, <3>1, IdsApart DEF Struct
    <2> QED
        BY <2>1
<1>4. w.uses[p].in = None
    BY <1>0 DEF Struct
<1>5. /\ x.uses[p].out = out
      /\ \A j \in DOMAIN w.uses : x.uses[j].in = w.uses[j].in
      /\ \A j \in DOMAIN w.uses : w.uses[j].id \notin Outputs => x.uses[j].out = w.uses[j].out
      /\ \/ x = w
         \/ \A j \in DOMAIN w.uses : w.uses[j].id \in Outputs /\ out # None => x.uses[j].out = out
    <2>1. CASE x = w /\ w.uses[p].out = out
        BY <2>1
    <2>2. CASE Rerouted(w, x, p, out, None)
        BY <1>3, <1>4, <2>2 DEF Rerouted
    <2> QED
        BY <1>1, <2>1, <2>2 DEF RouteOk
<1>6. \A j \in DOMAIN w.uses : x.uses[j].id = w.uses[j].id
    BY <1>2 DEF SameUses
<1>7. DOMAIN x.uses = DOMAIN w.uses
    BY <1>2 DEF SameUses
<1>8. CallIn(x)
    BY <1>5, <1>6, <1>7 DEF CallIn
<1>9. WeakIn(x)
    BY <1>8 DEF CallIn, WeakIn
<1>10. Half(x)
    <2>1. Keeps(w, x, RoutingFields \cup {"session", "two_mic"})
        BY <1>2 DEF Keeps
    <2> QED
        BY <1>2, <1>9, <2>1, HalfKept
<1>11. CallOut(x)
    <2> SUFFICES ASSUME NEW k \in DOMAIN w.uses, NEW l \in DOMAIN w.uses, w.uses[k].id = "VOICE_CALL",
                        w.uses[l].id \in Outputs, x.uses[k].out # None
                 PROVE  x.uses[l].out = x.uses[k].out
        BY <1>6, <1>7 DEF CallOut, CallOutBut
    <2>1. "VOICE_CALL" \notin Outputs
        BY StreamsAssumption
    <2>2. x.uses[k].out = w.uses[k].out
        BY <1>5, <2>1
    <2>3. w.uses[k].out = out /\ out # None
        BY <2>2
    <2>4. CASE x = w
        <3>1. CASE l = p
            BY <1>5, <2>2, <2>3, <3>1
        <3>2. CASE l # p
            BY <2>2, <2>3, <2>4, <3>2 DEF CallOutBut
        <3> QED
            BY <3>1, <3>2
    <2>5. CASE x # w
        BY <1>5, <2>2, <2>3, <2>5
    <2> QED
        BY <2>4, <2>5
<1>12. ASSUME Routable PROVE Shared(x)
    <2>1. out # None
        BY <1>12
    <2>2. CASE x = w
        <3>1. w.uses[p].out # None
            BY <1>5, <2>1, <2>2
        <3> QED
            BY <1>12, <2>2, <3>1
    <2>3. CASE x # w
        <3>1. \A j \in DOMAIN w.uses : w.uses[j].id \in Outputs => x.uses[j].out = out
            BY <1>5, <2>1, <2>3
        <3> QED
            BY <1>6, <1>7, <3>1 DEF Shared, SharedBut
    <2> QED
        BY <2>2, <2>3
<1> QED
    BY <1>2, <1>8, <1>10, <1>11, <1>12 DEF Good

(* For a playback usecase, one just listed or one that is routed anew,     *)
(* whether the capture is selected again first or not.                     *)
LEMMA PlaybackSelected ==
    ASSUME NEW w, Half(w), CallIn(w), NEW p \in DOMAIN w.uses, NEW o \in Outputs, w.uses[p].id = o,
           CallOutBut(w, p), Routable => SharedBut(w, p) /\ (Shared(w) \/ w.uses[p].out = None),
           NEW junk, NEW x, x = SelectPlayback(w, o, junk)
    PROVE  Good(x) /\ SameUses(w, x) /\ Keeps(w, x, RoutingFields)
<1>0. Shape(w) /\ Struct(w) /\ Matches(w) /\ StreamTypes(w) /\ CallListed(w) /\ WeakIn(w)
    BY DEF Half
<1>1. PICK vc : vc = IF w.in_call THEN Usecase(w, "VOICE_CALL").out ELSE None
    OBVIOUS
<1>2. PICK s : s = ActiveInput(w, junk)
    OBVIOUS
<1>3. PICK own : own = get_output_snd_device(w, w.out[o].devices)
    OBVIOUS
<1>4. PICK y : y = IF o = Primary /\ s.source = "VOICE_COMMUNICATION" /\ Listed(w, "CAPTURE")
                   THEN SelectCapture(w, junk) ELSE w
    OBVIOUS
<1>5. x = IF vc # None THEN Route(w, o, vc, None) ELSE Route(y, o, own, None)
    BY <1>1, <1>2, <1>3, <1>4 DEF SelectPlayback
<1>6. /\ \A k \in DOMAIN w.uses : w.uses[k].id = "VOICE_CALL" => vc = w.uses[k].out
      /\ vc \in OutTypes
    <2>1. ASSUME NEW k \in DOMAIN w.uses, w.uses[k].id = "VOICE_CALL"
          PROVE  vc = w.uses[k].out /\ vc \in OutTypes
        <3>1. Usecase(w, "VOICE_CALL") = w.uses[k]
            BY <1>0, <2>1, CallFound
        <3>2. w.in_call
            BY <1>0, <2>1 DEF CallListed, Listed
        <3>3. w.uses[k].out \in OutTypes
            BY <1>0, UseTyped DEF OutTypes
        <3> QED
            BY <1>1, <3>1, <3>2, <3>3
    <2>2. CASE w.in_call
        <3>1. PICK k : k \in DOMAIN w.uses /\ w.uses[k].id = "VOICE_CALL"
            BY <1>0, <2>2 DEF CallListed, Listed
        <3> QED
            BY <2>1, <3>1
    <2>3. CASE ~w.in_call
        BY <1>1, <2>1, <2>3 DEF OutTypes
    <2> QED
        BY <2>1, <2>2, <2>3
<1>7. CASE vc # None
    <2>1. x = Route(w, o, vc, None)
        BY <1>5, <1>7
    <2>2. \A k \in DOMAIN w.uses : w.uses[k].id = "VOICE_CALL" => w.uses[k].out \in {None, vc}
        BY <1>6
    <2> QED
        BY <1>6, <1>7, <2>1, <2>2, PlaybackRouted
<1>8. CASE vc = None
    <2>1. x = Route(y, o, own, None)
        BY <1>5, <1>8
    <2>2. own \in OutTypes /\ (Routable => own # None)
        <3>1. w.out[o].devices \in OutDevices
            BY <1>0 DEF StreamTypes
        <3> QED
            BY <1>3, <3>1, OutDeviceTyped
    <2>3. /\ Half(y) /\ CallIn(y) /\ SameUses(w, y) /\ Keeps(w, y, RoutingFields)
          /\ \A j \in DOMAIN w.uses : y.uses[j].out = w.uses[j].out
        <3>1. CASE y = w
            <4>1. SameUses(w, w) /\ Keeps(w, w, RoutingFields)
                BY DEF SameUses, Keeps
            <4> QED
                BY <3>1, <4>1
        <3>2. CASE Listed(w, "CAPTURE") /\ y = SelectCapture(w, junk)
            <4>1. PICK q : q \in DOMAIN w.uses /\ w.uses[q].id = "CAPTURE"
                BY <3>2 DEF Listed
            <4> QED
                BY <3>2, <4>1, CaptureSelected
        <3> QED
            BY <1>4, <3>1, <3>2
    <2>4. DOMAIN y.uses = DOMAIN w.uses /\ \A j \in DOMAIN w.uses : y.uses[j].id = w.uses[j].id
        BY <2>3 DEF SameUses
    <2>5. /\ p \in DOMAIN y.uses /\ y.uses[p].id = o
          /\ \A k \in DOMAIN y.uses : y.uses[k].id = "VOICE_CALL" => y.uses[k].out \in {None, own}
        BY <1>6, <1>8, <2>3, <2>4
    <2>6. CallOutBut(y, p)
        BY <2>3, <2>4 DEF CallOutBut
    <2>7. (SharedBut(w, p) => SharedBut(y, p)) /\ (Shared(w) => Shared(y)) /\ y.uses[p].out = w.uses[p].out
        BY <2>3, <2>4 DEF Shared, SharedBut
    <2>8. Good(x) /\ SameUses(y, x) /\ Keeps(y, x, RoutingFields)
        BY <2>1, <2>2, <2>3, <2>5, <2>6, <2>7, PlaybackRouted
    <2>9. SameUses(w, x)
        BY <2>3, <2>8 DEF SameUses
    <2>10. Keeps(w, x, RoutingFields)
        BY <2>3, <2>8 DEF Keeps
    <2> QED
        BY <2>8, <2>9, <2>10
<1> QED
    BY <1>7, <1>8

(* x differs from w in no field that is about routing.                     *)
SameRoutes(w, x) ==
    /\ DOMAIN x = HalFields /\ x.uses = w.uses
    /\ x.snd_dev_ref_cnt = w.snd_dev_ref_cnt /\ x.paths = w.paths

(* A change of other fields keeps Half.                                    *)
LEMMA HalfMoved ==
    ASSUME NEW w, Half(w), NEW x, SameRoutes(w, x), StreamTypes(x), x.in_call = w.in_call
    PROVE  Half(x)
<1>1. Shape(x) /\ Struct(x) /\ Matches(x)
    <2>1. Shape(w) /\ Struct(w) /\ Matches(w)
        BY DEF Half
    <2> QED
        BY <2>1, SameRouting DEF SameRoutes
<1>2. CallListed(x)
    BY DEF Half, CallListed, Listed, SameRoutes
<1>3. WeakIn(x)
    BY DEF Half, WeakIn, SameRoutes
<1> QED
    BY <1>1, <1>2, <1>3 DEF Half

(* It keeps Good.                                                          *)
LEMMA GoodMoved ==
    ASSUME NEW w, Good(w), NEW x, SameRoutes(w, x), StreamTypes(x), x.in_call = w.in_call
    PROVE  Good(x)
<1>1. Half(x)
    BY HalfMoved DEF Good
<1>2. CallIn(x) /\ CallOut(x)
    BY DEF Good, CallIn, CallOut, CallOutBut, SameRoutes
<1>3. Shared(w) => Shared(x)
    BY DEF Shared, SharedBut, SameRoutes
<1> QED
    BY <1>1, <1>2, <1>3 DEF Good

(* The fields that change for a call, those of prepare_voice_session       *)
(* included.                                                               *)
CallFields == RoutingFields \cup {"session", "two_mic"}

(* For a call just listed: all playback and the capture move to its        *)
(* devices, the session and the modem are on the devices of the primary    *)
(* output.                                                                 *)
LEMMA VoiceSelected ==
    ASSUME NEW w, Half(w), Routable => Shared(w), NEW p \in DOMAIN w.uses,
           w.uses[p].id = "VOICE_CALL", w.uses[p].in = None, w.uses[p].out = None, w.in_call,
           NEW junk, NEW x, x = SelectVoice(w, junk), NEW d, d = w.out[Primary].devices
    PROVE  /\ Good(x) /\ SameUses(w, x) /\ Keeps(w, x, CallFields)
           /\ x.session = d /\ (Routable => x.modem_path = ModemPath(d))
           /\ x.uses[p].out = get_output_snd_device(x, d)
           /\ w.mode = "IN_CALL" => x.uses[p].in = get_input_snd_device(x, NoStream, d)
<1> DEFINE v == [w EXCEPT !.session = d, !.two_mic = d \in {{"EARPIECE"}, {"SPEAKER"}}]
           out == get_output_snd_device(v, d)
           in == get_input_snd_device(v, ActiveInput(v, junk), d)
<1>0. Shape(w) /\ Struct(w) /\ Matches(w) /\ StreamTypes(w) /\ CallListed(w) /\ WeakIn(w)
    BY DEF Half
<1>1. x = Route(v, "VOICE_CALL", out, in)
    BY DEF SelectVoice
<1>2. /\ SameRoutes(w, v) /\ v.session = d /\ v.in_call = w.in_call /\ v.out = w.out /\ v.in = w.in
      /\ v.active_input = w.active_input /\ Keeps(w, v, {"session", "two_mic"}) /\ v.mode = w.mode
    BY <1>0 DEF SameRoutes, Shape, Keeps, HalFields
<1>3. Half(v)
    <2>1. StreamTypes(v)
        BY <1>0, <1>2 DEF StreamTypes
    <2> QED
        BY <1>2, <2>1, HalfMoved
<1> HIDE DEF v
<1>4. out \in OutTypes /\ in \in InTypes /\ (Routable => out # None)
    <2>1. d \in OutDevices
        BY <1>0, StreamsAssumption DEF StreamTypes
    <2> QED
        BY <2>1, OutDeviceTyped, InDeviceTyped
<1>5. PICK a : a = out
    OBVIOUS
<1>6. PICK b : b = in
    OBVIOUS
<1> HIDE DEF out, in
<1>7. v.uses = w.uses
    BY <1>2 DEF SameRoutes
<1>8. RouteOk(v, x, p, a, b)
    <2>1. Shape(v) /\ Struct(v) /\ Matches(v) /\ OneIn(Assigned(v))
        BY <1>3, OneInside DEF Half
    <2>2. PICK id : id = "VOICE_CALL"
        OBVIOUS
    <2>3. id \notin Outputs /\ id # "CAPTURE"
        BY <2>2, StreamsAssumption
    <2>4. p \in DOMAIN v.uses /\ id = v.uses[p].id /\ a \in OutTypes /\ b \in InTypes
          /\ x = Route(v, id, a, b)
        BY <1>1, <1>4, <1>5, <1>6, <1>7, <2>2
    <2> QED
        BY <2>1, <2>3, <2>4, RouteEffect
<1>9. /\ Shape(x) /\ Struct(x) /\ Matches(x) /\ SameUses(v, x) /\ Keeps(v, x, RoutingFields)
    BY <1>8 DEF RouteOk, RoutingFields
<1>10. DOMAIN x.uses = DOMAIN w.uses
       /\ \A j \in DOMAIN w.uses : x.uses[j].id = w.uses[j].id /\ x.uses[j].type = w.uses[j].type
    BY <1>7, <1>9 DEF SameUses
<1>11. SameUses(w, x) /\ Keeps(w, x, CallFields)
    BY <1>2, <1>7, <1>9 DEF SameUses, Keeps, CallFields
<1>12. /\ x.uses[p].out = a /\ x.uses[p].in = b
       /\ a # None => x.modem_path = ModemPath(d)
       /\ \A j \in DOMAIN w.uses : w.uses[j].id \in Outputs =>
            x.uses[j].out = IF a = None THEN w.uses[j].out ELSE a
       /\ \A j \in DOMAIN w.uses : w.uses[j].id = "CAPTURE" /\ b # None => x.uses[j].in = b
    <2>1. CASE x = v /\ v.uses[p].out = a /\ v.uses[p].in = b
        BY <1>7, <2>1
    <2>2. CASE /\ Rerouted(v, x, p, a, b)
               /\ x.modem_path = IF a # None /\ v.in_call THEN ModemPath(v.session) ELSE v.modem_path
        <3>1. "VOICE_CALL" \notin Outputs
            BY StreamsAssumption
        <3>2. \A j \in DOMAIN w.uses : /\ w.uses[j].id \in Outputs => w.uses[j].type = "PCM_PLAYBACK"
                                       /\ w.uses[j].id = "CAPTURE" => w.uses[j].type = "PCM_CAPTURE"
            BY <1>0 DEF Struct
        <3> QED
            BY <1>2, <1>7, <2>2, <3>1, <3>2 DEF Rerouted
    <2> QED
        BY <1>8, <2>1, <2>2 DEF RouteOk
<1>13. \A k \in DOMAIN w.uses : w.uses[k].id = "VOICE_CALL" => k = p
    BY <1>0 DEF Struct, Distinct
<1>14. CallIn(x)
    BY <1>10, <1>12, <1>13 DEF CallIn
<1>15. CallOut(x)
    BY <1>10, <1>12, <1>13 DEF CallOut, CallOutBut
<1>16. ASSUME Routable PROVE Shared(x)
    BY <1>4, <1>5, <1>10, <1>12, <1>16 DEF Shared, SharedBut
<1>17. Half(x)
    <2>1. WeakIn(x)
        BY <1>14 DEF CallIn, WeakIn
    <2> QED
        BY <1>9, <1>11, <2>1, HalfKept DEF CallFields
<1>18. /\ x.session = d /\ x.two_mic = v.two_mic /\ x.session = v.session /\ x.mode = v.mode
       /\ x.bluetooth_wb = v.bluetooth_wb /\ x.wb_amr = v.wb_amr /\ x.mode = w.mode
    BY <1>2, <1>9 DEF Keeps, RoutingFields, HalFields
<1>19. x.uses[p].out = get_output_snd_device(x, d)
    <2>1. get_output_snd_device(x, d) = get_output_snd_device(v, d)
        BY <1>18 DEF get_output_snd_device, Wideband
    <2> QED
        BY <1>5, <1>12, <2>1 DEF out
<1>20. ASSUME w.mode = "IN_CALL" PROVE x.uses[p].in = get_input_snd_device(x, NoStream, d)
    <2>1. CallMic(x, d) = CallMic(v, d)
        BY <1>18 DEF CallMic, Wideband
    <2>2. \A s : get_input_snd_device(x, s, d) = CallMic(x, d) /\ get_input_snd_device(v, s, d) = CallMic(v, d)
        BY <1>2, <1>18, <1>20 DEF get_input_snd_device
    <2> QED
        BY <1>6, <1>12, <2>1, <2>2 DEF in
<1> QED
    BY <1>4, <1>5, <1>11, <1>12, <1>14, <1>15, <1>16, <1>17, <1>18, <1>19, <1>20 DEF Good

-----------------------------------------------------------------------------
(* Usecases come and go.                                                   *)

(* x lists usecase u behind those of w.                                    *)
Appended(w, x, u) ==
    /\ Shape(x) /\ Struct(x) /\ Matches(x) /\ Keeps(w, x, {"uses"})
    /\ Len(w.uses) + 1 \in Nat \ DOMAIN w.uses
    /\ DOMAIN x.uses = DOMAIN w.uses \cup {Len(w.uses) + 1}
    /\ x.uses[Len(w.uses) + 1] = u
    /\ \A j \in DOMAIN w.uses : x.uses[j] = w.uses[j]

(* A new usecase holds no device, so that the counters and the paths still *)
(* match.                                                                  *)
LEMMA ListedNew ==
    ASSUME NEW w, Shape(w), Struct(w), Matches(w), NEW u \in UseRec, u.in = None, u.out = None,
           ~Listed(w, u.id), u.id \in Outputs => u.type = "PCM_PLAYBACK",
           u.id = "CAPTURE" => u.type = "PCM_CAPTURE", u.id = "VOICE_CALL" => u.type = "VOICE_CALL",
           Covered => u.mixer, NEW x, x = List(w, u)
    PROVE  Appended(w, x, u)
<1>1. PICK n : n = Len(w.uses) + 1
    OBVIOUS
<1>2. /\ w.uses \in Seq(UseRec) /\ DOMAIN w = HalFields /\ DOMAIN w.uses = 1..Len(w.uses) /\ Len(w.uses) \in Nat
    BY LenProperties DEF Shape
<1>3. x.uses = Append(w.uses, u) /\ Keeps(w, x, {"uses"}) /\ DOMAIN x = HalFields
    BY <1>2 DEF List, Keeps, HalFields
<1>4. /\ x.uses \in Seq(UseRec) /\ DOMAIN x.uses = DOMAIN w.uses \cup {n} /\ x.uses[n] = u
      /\ \A j \in DOMAIN w.uses : x.uses[j] = w.uses[j]
      /\ n \in Nat \ DOMAIN w.uses
    <2>1. /\ Append(w.uses, u) \in Seq(UseRec) /\ Len(Append(w.uses, u)) = n
          /\ \A i \in 1..Len(w.uses) : Append(w.uses, u)[i] = w.uses[i]
          /\ Append(w.uses, u)[n] = u
        BY <1>1, <1>2, AppendProperties
    <2>2. DOMAIN Append(w.uses, u) = 1..n
        BY <2>1, LenProperties
    <2> QED
        BY <1>1, <1>2, <1>3, <2>1, <2>2
<1>5. x.snd_dev_ref_cnt = w.snd_dev_ref_cnt /\ x.paths = w.paths
    BY <1>3 DEF Keeps, HalFields
<1>6. Shape(x)
    BY <1>3, <1>4, <1>5 DEF Shape
<1>7. Struct(x)
    <2>1. Distinct(x)
        BY <1>4 DEF Struct, Distinct, Listed
    <2>2. ASSUME NEW k \in DOMAIN x.uses
          PROVE  /\ x.uses[k].id \in Outputs => x.uses[k].type = "PCM_PLAYBACK" /\ x.uses[k].in = None
                 /\ x.uses[k].id = "CAPTURE" => x.uses[k].type = "PCM_CAPTURE" /\ x.uses[k].out = None
                 /\ x.uses[k].id = "VOICE_CALL" => x.uses[k].type = "VOICE_CALL"
                 /\ Covered => x.uses[k].mixer
        <3>1. CASE k = n
            BY <1>4, <3>1
        <3>2. CASE k # n
            <4>1. k \in DOMAIN w.uses /\ x.uses[k] = w.uses[k]
                BY <1>4, <3>2
            <4> QED
                BY <4>1 DEF Struct
        <3> QED
            BY <3>1, <3>2
    <2> QED
        BY <2>1, <2>2 DEF Struct
<1>8. Matches(x)
    <2>1. ASSUME NEW d \in SndDevices PROVE UsersOf(Assigned(x), d) = UsersOf(Assigned(w), d)
        <3>1. d \notin Parts(None)
            BY DeviceFacts DEF Parts
        <3>2. \A s \in Slots(x) : s \in Slots(w) \/ (s[1] = n /\ x.uses[s[1]][s[2]] = None)
            BY <1>4 DEF Slots
        <3>3. \A s \in Slots(w) : s \in Slots(x) /\ x.uses[s[1]] = w.uses[s[1]]
            BY <1>4 DEF Slots
        <3> QED
            BY <3>1, <3>2, <3>3 DEF UsersOf, Assigned
    <2>2. RefsAre(x, Assigned(x))
        BY <1>5, <2>1 DEF Matches, Sound, RefsAre
    <2>3. Covered => PathsAre(x)
        BY <1>5 DEF Matches, Sound, PathsAre
    <2> QED
        BY <2>2, <2>3 DEF Matches, Sound
<1> QED
    BY <1>1, <1>3, <1>4, <1>6, <1>7, <1>8 DEF Appended

(* The same ids are listed, but perhaps id.                                *)
ListedBut(w, x, id) == \A i \in Ids \ {id} : Listed(x, i) <=> Listed(w, i)

(* A usecase that has released its devices leaves a good HAL behind.       *)
LEMMA Dropped ==
    ASSUME NEW w, Good(w), NEW p \in DOMAIN w.uses, NEW id, id = w.uses[p].id,
           NEW y, Shape(y), y.uses = w.uses, Sound(y, Routed(y, p, None)), StreamTypes(y),
           y.in_call = IF id = "VOICE_CALL" THEN FALSE ELSE w.in_call,
           NEW x, x = Unlist(y, id)
    PROVE  Good(x) /\ Keeps(y, x, {"uses"}) /\ ~Listed(x, id) /\ ListedBut(w, x, id)
<1>0. Half(w) /\ CallIn(w) /\ CallOut(w) /\ (Routable => Shared(w))
    BY DEF Good
<1>1. Struct(y)
    BY <1>0 DEF Half, Struct, Distinct
<1>2. Shape(x) /\ Struct(x) /\ Matches(x) /\ Keeps(y, x, {"uses"}) /\ Without(y, x, p)
    BY <1>1, Unlisted
<1>3. /\ \A j \in DOMAIN x.uses : \E k \in DOMAIN w.uses : k # p /\ x.uses[j] = w.uses[k]
      /\ \A k \in DOMAIN w.uses : k # p => \E j \in DOMAIN x.uses : x.uses[j] = w.uses[k]
    BY <1>2 DEF Without
<1>4. ~Listed(x, id)
    BY <1>1, <1>3 DEF Listed, Struct, Distinct
<1>5. ListedBut(w, x, id)
    BY <1>3 DEF Listed, ListedBut
<1>6. x.in_call = y.in_call /\ x.out = y.out /\ x.in = y.in /\ x.active_input = y.active_input
    BY <1>2 DEF Keeps, HalFields
<1>7. StreamTypes(x)
    BY <1>6 DEF StreamTypes
<1>8. CallListed(x)
    <2>1. w.in_call <=> Listed(w, "VOICE_CALL")
        BY <1>0 DEF Half, CallListed
    <2>2. "VOICE_CALL" \in Ids
        BY DEF Ids
    <2>3. CASE id = "VOICE_CALL"
        BY <1>4, <1>6, <2>3 DEF CallListed
    <2>4. CASE id # "VOICE_CALL"
        BY <1>5, <1>6, <2>1, <2>2, <2>4 DEF CallListed, ListedBut
    <2> QED
        BY <2>3, <2>4
<1>9. CallIn(x)
    BY <1>0, <1>3 DEF CallIn
<1>10. CallOut(x)
    <2>1. ASSUME NEW k \in DOMAIN x.uses, NEW l \in DOMAIN x.uses, x.uses[k].id = "VOICE_CALL",
                 x.uses[l].id \in Outputs, x.uses[k].out # None
          PROVE  x.uses[l].out = x.uses[k].out
        <3>1. PICK m : m \in DOMAIN w.uses /\ x.uses[k] = w.uses[m]
            BY <1>3
        <3>2. PICK n : n \in DOMAIN w.uses /\ x.uses[l] = w.uses[n]
            BY <1>3
        <3>3. n # 0
            BY <1>0, <3>2 DEF Half, Shape
        <3> QED
            BY <1>0, <2>1, <3>1, <3>2, <3>3 DEF CallOut, CallOutBut
    <2> QED
        BY <2>1 DEF CallOut, CallOutBut
<1>11. ASSUME Routable PROVE Shared(x)
    <2>1. ASSUME NEW k \in DOMAIN x.uses, NEW l \in DOMAIN x.uses, x.uses[k].id \in Outputs,
                 x.uses[l].id \in Outputs
          PROVE  x.uses[k].out = x.uses[l].out
        <3>1. PICK m : m \in DOMAIN w.uses /\ x.uses[k] = w.uses[m]
            BY <1>3
        <3>2. PICK n : n \in DOMAIN w.uses /\ x.uses[l] = w.uses[n]
            BY <1>3
        <3>3. n # 0 /\ m # 0
            BY <1>0, <3>1, <3>2 DEF Half, Shape
        <3> QED
            BY <1>0, <1>11, <2>1, <3>1, <3>2, <3>3 DEF Shared, SharedBut
    <2> QED
        BY <2>1 DEF Shared, SharedBut
<1>12. WeakIn(x)
    BY <1>9 DEF CallIn, WeakIn
<1> QED
    BY <1>2, <1>4, <1>5, <1>7, <1>8, <1>9, <1>10, <1>11, <1>12 DEF Good, Half

(* The fields that change when a usecase goes.                             *)
RefFields == {"uses", "snd_dev_ref_cnt", "paths"}

(* A usecase releases both its devices and goes, while fields that are not *)
(* about routing may change.                                               *)
LEMMA UsecaseStopped ==
    ASSUME NEW w, Good(w), NEW q, SameRoutes(w, q), StreamTypes(q),
           NEW p \in DOMAIN w.uses, NEW id, id = w.uses[p].id,
           q.in_call = IF id = "VOICE_CALL" THEN FALSE ELSE w.in_call,
           NEW u, u = w.uses[p],
           NEW x, x = Unlist(disable_snd_device(disable_snd_device(q, u, u.out), u, u.in), id)
    PROVE  Good(x) /\ Keeps(q, x, RefFields) /\ ~Listed(x, id) /\ ListedBut(w, x, id)
<1>1. PICK y : y = disable_snd_device(disable_snd_device(q, u, u.out), u, u.in)
    OBVIOUS
<1>2. Shape(w) /\ Struct(w) /\ Matches(w) /\ WeakIn(w)
    BY DEF Good, Half
<1>3. Shape(q) /\ Struct(q) /\ Matches(q) /\ Assigned(q) = Assigned(w) /\ q.uses = w.uses
    BY <1>2, SameRouting DEF SameRoutes
<1>4. OneIn(Assigned(q))
    BY <1>2, <1>3, OneInside
<1>5. Moved(q, y) /\ Sound(y, Routed(y, p, None))
    <2>1. p \in DOMAIN q.uses /\ u = q.uses[p]
        BY <1>3
    <2> QED
        BY <1>1, <1>3, <1>4, <2>1, BothReleased
<1>6. Shape(y) /\ y.uses = w.uses /\ y.in_call = q.in_call /\ y.out = q.out /\ y.in = q.in
      /\ y.active_input = q.active_input
    BY <1>3, <1>5 DEF Moved, Keeps, HalFields
<1>7. StreamTypes(y)
    BY <1>6 DEF StreamTypes
<1>8. Good(x) /\ Keeps(y, x, {"uses"}) /\ ~Listed(x, id) /\ ListedBut(w, x, id)
    BY <1>1, <1>5, <1>6, <1>7, Dropped, ZenonT(60)
<1>9. Keeps(q, x, RefFields)
    BY <1>5, <1>8 DEF Moved, Keeps, RefFields
<1> QED
    BY <1>8, <1>9

(* disable_output_path_l.                                                  *)
LEMMA OutputStopped ==
    ASSUME NEW w, Good(w), NEW o \in Outputs, NEW x, x = disable_output_path_l(w, o)
    PROVE  Good(x) /\ Keeps(w, x, RefFields) /\ ~Listed(x, o) /\ ListedBut(w, x, o)
<1>0. Shape(w) /\ Struct(w) /\ StreamTypes(w)
    BY DEF Good, Half
<1>1. CASE ~Listed(w, o)
    BY <1>1 DEF disable_output_path_l, Keeps, ListedBut
<1>2. CASE Listed(w, o)
    <2>1. PICK p : p \in DOMAIN w.uses /\ w.uses[p].id = o
        BY <1>2 DEF Listed
    <2>2. PICK u : u = w.uses[p]
        OBVIOUS
    <2>3. Usecase(w, o) = u
        BY <1>0, <2>1, <2>2, CallFound
    <2>4. u.in = None
        BY <1>0, <2>1, <2>2 DEF Struct
    <2>5. x = Unlist(disable_snd_device(disable_snd_device(w, u, u.out), u, u.in), o)
        BY <1>2, <2>3, <2>4, NothingReleased DEF disable_output_path_l
    <2>6. SameRoutes(w, w)
        BY <1>0 DEF SameRoutes, Shape
    <2>7. o # "VOICE_CALL"
        BY StreamsAssumption
    <2> QED
        BY <1>0, <2>1, <2>2, <2>5, <2>6, <2>7, UsecaseStopped
<1> QED
    BY <1>1, <1>2

(* stop_input_stream.                                                      *)
LEMMA CaptureStopped ==
    ASSUME NEW w, Good(w), NEW i, NEW x, x = stop_input_stream(w, i)
    PROVE  /\ Good(x) /\ Keeps(w, x, RefFields \cup {"active_input"}) /\ x.active_input = Nobody
           /\ ~Listed(x, "CAPTURE") /\ ListedBut(w, x, "CAPTURE")
<1> DEFINE q == [w EXCEPT !.active_input = Nobody]
<1>0. Shape(w) /\ Struct(w) /\ StreamTypes(w)
    BY DEF Good, Half
<1>1. /\ SameRoutes(w, q) /\ Keeps(w, q, {"active_input"}) /\ q.active_input = Nobody
      /\ q.in_call = w.in_call /\ q.out = w.out /\ q.in = w.in
    BY <1>0 DEF SameRoutes, Keeps, Shape, HalFields
<1>2. x = IF ~Listed(w, "CAPTURE") THEN q
          ELSE Unlist(disable_snd_device(q, Usecase(w, "CAPTURE"), Usecase(w, "CAPTURE").in), "CAPTURE")
    BY DEF stop_input_stream
<1> HIDE DEF q
<1>3. StreamTypes(q)
    BY <1>0, <1>1 DEF StreamTypes
<1>4. CASE ~Listed(w, "CAPTURE")
    <2>1. x = q /\ q.uses = w.uses
        BY <1>1, <1>2, <1>4 DEF SameRoutes
    <2>2. Good(q)
        BY <1>1, <1>3, GoodMoved
    <2> QED
        BY <1>1, <1>4, <2>1, <2>2 DEF Keeps, ListedBut, Listed
<1>5. CASE Listed(w, "CAPTURE")
    <2>1. PICK p : p \in DOMAIN w.uses /\ w.uses[p].id = "CAPTURE"
        BY <1>5 DEF Listed
    <2>2. PICK u : u = w.uses[p]
        OBVIOUS
    <2>3. Usecase(w, "CAPTURE") = u
        BY <1>0, <2>1, <2>2, CallFound
    <2>4. u.out = None
        BY <1>0, <2>1, <2>2 DEF Struct
    <2>5. PICK id : id = "CAPTURE"
        OBVIOUS
    <2>6. x = Unlist(disable_snd_device(disable_snd_device(q, u, u.out), u, u.in), id)
        BY <1>2, <1>5, <2>3, <2>4, <2>5, NothingReleased
    <2>7. id = w.uses[p].id /\ id # "VOICE_CALL"
        BY <2>1, <2>5
    <2>8. Good(x) /\ Keeps(q, x, RefFields) /\ ~Listed(x, id) /\ ListedBut(w, x, id)
        BY <1>1, <1>3, <2>1, <2>2, <2>6, <2>7, UsecaseStopped
    <2>9. Keeps(w, x, RefFields \cup {"active_input"}) /\ x.active_input = Nobody
        BY <1>1, <2>8 DEF Keeps, RefFields, HalFields
    <2> QED
        BY <2>5, <2>8, <2>9
<1> QED
    BY <1>4, <1>5

(* The fields stop_voice_call changes.                                     *)
StopFields == RefFields \cup {"in_call", "voice_pcm", "session", "modem_path"}

(* stop_voice_call, whether the call is listed or not.                     *)
LEMMA CallStopped ==
    ASSUME NEW w, Good(w), NEW x, x = stop_voice_call(w)
    PROVE  /\ Good(x) /\ Keeps(w, x, StopFields) /\ x.in_call = FALSE
           /\ ListedBut(w, x, "VOICE_CALL")
<1> DEFINE q == stop_voice_session([w EXCEPT !.in_call = FALSE])
<1>0. Shape(w) /\ Struct(w) /\ StreamTypes(w) /\ CallListed(w)
    BY DEF Good, Half
<1>1. /\ SameRoutes(w, q) /\ Keeps(w, q, StopFields) /\ q.in_call = FALSE
      /\ q.out = w.out /\ q.in = w.in /\ q.active_input = w.active_input
    BY <1>0 DEF SameRoutes, Keeps, Shape, HalFields, StopFields, RefFields, stop_voice_session
<1>2. x = IF ~Listed(w, "VOICE_CALL") THEN q
          ELSE Unlist(disable_snd_device(disable_snd_device(q, Usecase(w, "VOICE_CALL"),
                                                               Usecase(w, "VOICE_CALL").out),
                                         Usecase(w, "VOICE_CALL"), Usecase(w, "VOICE_CALL").in),
                      "VOICE_CALL")
    BY DEF stop_voice_call
<1> HIDE DEF q
<1>3. StreamTypes(q)
    BY <1>0, <1>1 DEF StreamTypes
<1>4. CASE ~Listed(w, "VOICE_CALL")
    <2>1. x = q /\ q.uses = w.uses
        BY <1>1, <1>2, <1>4 DEF SameRoutes
    <2>2. q.in_call = w.in_call
        BY <1>0, <1>1, <1>4 DEF CallListed, StreamTypes
    <2>3. Good(q)
        BY <1>1, <1>3, <2>2, GoodMoved
    <2>4. ListedBut(w, x, "VOICE_CALL")
        BY <2>1 DEF ListedBut, Listed
    <2> QED
        BY <1>1, <2>1, <2>3, <2>4
<1>5. CASE Listed(w, "VOICE_CALL")
    <2>1. PICK p : p \in DOMAIN w.uses /\ w.uses[p].id = "VOICE_CALL"
        BY <1>5 DEF Listed
    <2>2. PICK u : u = w.uses[p]
        OBVIOUS
    <2>3. Usecase(w, "VOICE_CALL") = u
        BY <1>0, <2>1, <2>2, CallFound
    <2>5. PICK id : id = "VOICE_CALL"
        OBVIOUS
    <2>6. x = Unlist(disable_snd_device(disable_snd_device(q, u, u.out), u, u.in), id)
        BY <1>2, <1>5, <2>3, <2>5
    <2>7. id = w.uses[p].id /\ q.in_call = IF id = "VOICE_CALL" THEN FALSE ELSE w.in_call
        BY <1>1, <2>1, <2>5
    <2>8. Good(x) /\ Keeps(q, x, RefFields) /\ ~Listed(x, id) /\ ListedBut(w, x, id)
        BY <1>1, <1>3, <2>1, <2>2, <2>6, <2>7, UsecaseStopped
    <2>9. Keeps(w, x, StopFields) /\ x.in_call = q.in_call
        BY <1>1, <2>8 DEF Keeps, RefFields, StopFields, HalFields
    <2> QED
        BY <1>1, <2>5, <2>8, <2>9
<1> QED
    BY <1>4, <1>5

(* x is w with usecase u at p, which is listed and not routed yet.         *)
Admitted(w, x, u, p) ==
    /\ Half(x) /\ p \in DOMAIN x.uses /\ x.uses[p] = u
    /\ Listed(x, u.id) /\ ListedBut(w, x, u.id) /\ CallOutBut(x, p) /\ (Routable => SharedBut(x, p))
    /\ u.id \in Outputs => CallIn(x)
    /\ u.id \notin Outputs => CallOutBut(x, p) /\ (Routable => Shared(x))

(* Listing a usecase whose id is not listed leads there.                   *)
LEMMA UsecaseJoins ==
    ASSUME NEW w, Good(w), NEW q, SameRoutes(w, q), StreamTypes(q),
           NEW u \in UseRec, u.in = None, u.out = None,
           ~Listed(w, u.id), u.id \in Outputs => u.type = "PCM_PLAYBACK",
           u.id = "CAPTURE" => u.type = "PCM_CAPTURE", u.id = "VOICE_CALL" => u.type = "VOICE_CALL",
           Covered => u.mixer, q.in_call = IF u.id = "VOICE_CALL" THEN TRUE ELSE w.in_call,
           NEW x, x = List(q, u), NEW p, p = Len(w.uses) + 1
    PROVE  Admitted(w, x, u, p) /\ Keeps(q, x, {"uses"})
<1>0. /\ Half(w) /\ CallIn(w) /\ CallOut(w) /\ (Routable => Shared(w))
      /\ Shape(w) /\ Struct(w) /\ Matches(w) /\ CallListed(w) /\ WeakIn(w)
    BY DEF Good, Half
<1>1. Shape(q) /\ Struct(q) /\ Matches(q) /\ q.uses = w.uses
    BY <1>0, SameRouting DEF SameRoutes
<1>2. ~Listed(q, u.id)
    BY <1>1 DEF Listed
<1>3. Appended(q, x, u)
    BY <1>1, <1>2, ListedNew
<1>4. /\ Shape(x) /\ Struct(x) /\ Matches(x) /\ Keeps(q, x, {"uses"})
      /\ DOMAIN x.uses = DOMAIN w.uses \cup {p} /\ p \in Nat \ DOMAIN w.uses /\ x.uses[p] = u
      /\ \A j \in DOMAIN w.uses : x.uses[j] = w.uses[j]
    BY <1>1, <1>3 DEF Appended
<1>5. x.in_call = q.in_call /\ x.out = q.out /\ x.in = q.in /\ x.active_input = q.active_input
    BY <1>4 DEF Keeps, HalFields
<1>6. StreamTypes(x)
    BY <1>5 DEF StreamTypes
<1>7. Listed(x, u.id) /\ ListedBut(w, x, u.id)
    BY <1>4 DEF Listed, ListedBut
<1>8. CallListed(x)
    <2>1. "VOICE_CALL" \in Ids
        BY DEF Ids
    <2>2. CASE u.id = "VOICE_CALL"
        BY <1>5, <1>7, <2>2 DEF CallListed
    <2>3. CASE u.id # "VOICE_CALL"
        BY <1>0, <1>5, <1>7, <2>1, <2>3 DEF CallListed, ListedBut
    <2> QED
        BY <2>2, <2>3
<1>9. WeakIn(x)
    BY <1>0, <1>4 DEF WeakIn
<1>10. Half(x)
    BY <1>4, <1>6, <1>8, <1>9 DEF Half
<1>11. 0 \notin DOMAIN w.uses /\ p # 0
    BY <1>0, <1>4 DEF Shape
<1>12. CallOutBut(x, p)
    BY <1>0, <1>4, <1>11 DEF CallOut, CallOutBut
<1>13. ASSUME Routable PROVE SharedBut(x, p)
    BY <1>0, <1>4, <1>11, <1>13 DEF Shared, SharedBut
<1>14. ASSUME u.id \in Outputs PROVE CallIn(x)
    <2>1. u.id # "CAPTURE" /\ u.id # "VOICE_CALL"
        BY <1>14, StreamsAssumption
    <2> QED
        BY <1>0, <1>4, <2>1 DEF CallIn
<1>15. ASSUME Routable, u.id \notin Outputs PROVE Shared(x)
    BY <1>4, <1>13, <1>15 DEF Shared, SharedBut
<1> QED
    BY <1>4, <1>7, <1>10, <1>12, <1>13, <1>14, <1>15 DEF Admitted

(* Routing changes no id.                                                  *)
LEMMA SameListed ==
    ASSUME NEW w, NEW x, SameUses(w, x)
    PROVE  \A id : Listed(x, id) <=> Listed(w, id)
    BY DEF SameUses, Listed

(* Output o is in standby or not, and only that may differ of the outputs. *)
Standing(w, x, o, off) ==
    /\ x.out \in [Outputs -> [standby : BOOLEAN, devices : OutDevices]]
    /\ \A r \in Outputs : /\ x.out[r].devices = w.out[r].devices
                          /\ x.out[r].standby = IF r = o THEN off ELSE w.out[r].standby

(* enable_output_path_l.                                                   *)
LEMMA OutputPathOn ==
    ASSUME NEW w, Good(w), NEW o \in Outputs, ~Listed(w, o), NEW junk,
           NEW x, x = enable_output_path_l(w, o, junk)
    PROVE  Good(x) /\ Keeps(w, x, RoutingFields) /\ Listed(x, o) /\ ListedBut(w, x, o)
<1>0. Shape(w) /\ StreamTypes(w)
    BY DEF Good, Half
<1>1. PICK m : m = (w.out[o].devices \cap PlaybackProfile # {})
    OBVIOUS
<1>2. m \in BOOLEAN /\ (Covered => m)
    BY <1>0, <1>1 DEF StreamTypes, Covered
<1>3. PICK u : u = NewUsecase(o, "PCM_PLAYBACK", o, m)
    OBVIOUS
<1>4. u \in UseRec /\ u.in = None /\ u.out = None /\ u.id = o /\ u.type = "PCM_PLAYBACK" /\ (Covered => u.mixer)
    BY <1>2, <1>3 DEF NewUsecase, UseRec, Ids
<1>5. PICK y : y = List(w, u)
    OBVIOUS
<1>6. x = SelectPlayback(y, o, junk)
    BY <1>1, <1>3, <1>5 DEF enable_output_path_l
<1>7. PICK p : p = Len(w.uses) + 1
    OBVIOUS
<1>8. Admitted(w, y, u, p) /\ Keeps(w, y, {"uses"})
    <2>1. SameRoutes(w, w)
        BY <1>0 DEF SameRoutes, Shape
    <2>2. o # "VOICE_CALL" /\ o # "CAPTURE"
        BY StreamsAssumption
    <2> QED
        BY <1>0, <1>4, <1>5, <1>7, <2>1, <2>2, UsecaseJoins
<1>9. Good(x) /\ SameUses(y, x) /\ Keeps(y, x, RoutingFields)
    <2>1. /\ Half(y) /\ CallIn(y) /\ p \in DOMAIN y.uses /\ y.uses[p].id = o /\ CallOutBut(y, p)
          /\ y.uses[p].out = None /\ (Routable => SharedBut(y, p))
        BY <1>4, <1>8 DEF Admitted
    <2> QED
        BY <1>6, <2>1, PlaybackSelected
<1>10. Keeps(w, x, RoutingFields)
    BY <1>8, <1>9 DEF Keeps, RoutingFields
<1>11. Listed(y, o) /\ ListedBut(w, y, o)
    BY <1>4, <1>8 DEF Admitted
<1>12. Listed(x, o) /\ ListedBut(w, x, o)
    BY <1>9, <1>11, SameListed DEF ListedBut
<1> QED
    BY <1>9, <1>10, <1>12

(* start_output_stream, whether the PCM device opens or not: the output is *)
(* listed if it does, and nothing is left behind if it does not.           *)
LEMMA OutputStarted ==
    ASSUME NEW w, Good(w), NEW o \in Outputs, ~Listed(w, o), NEW junk, NEW opens \in BOOLEAN,
           NEW x, x = start_output_stream(w, o, opens, junk)
    PROVE  /\ Good(x) /\ Keeps(w, x, RoutingFields \cup {"out"})
           /\ Listed(x, o) <=> opens
           /\ ListedBut(w, x, o) /\ Standing(w, x, o, IF opens THEN FALSE ELSE w.out[o].standby)
<1>0. Shape(w) /\ StreamTypes(w)
    BY DEF Good, Half
<1>1. PICK on : on = enable_output_path_l(w, o, junk)
    OBVIOUS
<1>2. Good(on) /\ Keeps(w, on, RoutingFields) /\ Listed(on, o) /\ ListedBut(w, on, o)
    BY <1>1, OutputPathOn
<1>3. on.out = w.out /\ DOMAIN on = HalFields
    BY <1>0, <1>2 DEF Keeps, RoutingFields, HalFields, Shape
<1>4. CASE opens
    <2>1. x = [on EXCEPT !.out[o].standby = FALSE]
        BY <1>1, <1>4 DEF start_output_stream
    <2>2. SameRoutes(on, x) /\ Keeps(on, x, {"out"}) /\ x.out = [on.out EXCEPT ![o].standby = FALSE]
        BY <1>3, <2>1 DEF SameRoutes, Keeps, HalFields
    <2>3. Standing(w, x, o, FALSE)
        <3>1. w.out \in [Outputs -> [standby : BOOLEAN, devices : OutDevices]]
            BY <1>0 DEF StreamTypes
        <3>2. PICK f : f = w.out
            OBVIOUS
        <3>3. PICK g : g = [f EXCEPT ![o].standby = FALSE]
            OBVIOUS
        <3>4. f \in [Outputs -> [standby : BOOLEAN, devices : OutDevices]]
            BY <3>1, <3>2
        <3>5. g \in [Outputs -> [standby : BOOLEAN, devices : OutDevices]]
            BY <3>3, <3>4
        <3>6. \A r \in Outputs : /\ g[r].devices = f[r].devices
                                 /\ g[r].standby = IF r = o THEN FALSE ELSE f[r].standby
            BY <3>3, <3>4
        <3>7. x.out = g
            BY <1>3, <2>2, <3>2, <3>3
        <3> QED
            BY <3>2, <3>5, <3>6, <3>7 DEF Standing
    <2>4. x.in = on.in /\ x.active_input = on.active_input /\ x.in_call = on.in_call /\ x.uses = on.uses
        BY <2>2 DEF Keeps, HalFields
    <2>5. StreamTypes(x)
        BY <1>2, <2>3, <2>4 DEF Standing, StreamTypes, Good, Half
    <2>6. Good(x)
        BY <1>2, <2>2, <2>4, <2>5, GoodMoved
    <2>7. Listed(x, o) /\ ListedBut(w, x, o)
        BY <1>2, <2>4 DEF Listed, ListedBut
    <2>8. Keeps(w, x, RoutingFields \cup {"out"})
        BY <1>2, <2>2 DEF Keeps, RoutingFields
    <2> QED
        BY <1>4, <2>3, <2>6, <2>7, <2>8
<1>5. CASE ~opens
    <2>1. x = disable_output_path_l(on, o)
        BY <1>1, <1>5 DEF start_output_stream
    <2>2. Good(x) /\ Keeps(on, x, RefFields) /\ ~Listed(x, o) /\ ListedBut(on, x, o)
        BY <1>2, <2>1, OutputStopped
    <2>3. Keeps(w, x, RoutingFields \cup {"out"}) /\ x.out = w.out
        BY <1>2, <1>3, <2>2 DEF Keeps, RoutingFields, RefFields, HalFields
    <2>4. Standing(w, x, o, w.out[o].standby)
        BY <1>0, <2>3 DEF Standing, StreamTypes
    <2>5. ListedBut(w, x, o)
        BY <1>2, <2>2 DEF ListedBut
    <2> QED
        BY <1>5, <2>2, <2>3, <2>4, <2>5
<1> QED
    BY <1>4, <1>5

(* do_out_standby_l.                                                       *)
LEMMA OutputStandby ==
    ASSUME NEW w, Good(w), NEW o \in Outputs, NEW x, x = do_out_standby_l(w, o)
    PROVE  /\ Good(x) /\ Keeps(w, x, RefFields \cup {"out"}) /\ ~Listed(x, o) /\ ListedBut(w, x, o)
           /\ Standing(w, x, o, TRUE)
<1> DEFINE q == [w EXCEPT !.out[o].standby = TRUE]
<1>0. Shape(w) /\ StreamTypes(w)
    BY DEF Good, Half
<1>1. /\ SameRoutes(w, q) /\ Keeps(w, q, {"out"}) /\ q.out = [w.out EXCEPT ![o].standby = TRUE]
    BY <1>0 DEF SameRoutes, Keeps, Shape, HalFields
<1>2. x = disable_output_path_l(q, o)
    BY DEF do_out_standby_l
<1> HIDE DEF q
<1>3. Standing(w, q, o, TRUE)
    <2>1. PICK f : f = w.out
        OBVIOUS
    <2>2. PICK g : g = [f EXCEPT ![o].standby = TRUE]
        OBVIOUS
    <2>3. f \in [Outputs -> [standby : BOOLEAN, devices : OutDevices]]
        BY <1>0, <2>1 DEF StreamTypes
    <2>4. g \in [Outputs -> [standby : BOOLEAN, devices : OutDevices]]
        BY <2>2, <2>3
    <2>5. \A r \in Outputs : /\ g[r].devices = f[r].devices
                             /\ g[r].standby = IF r = o THEN TRUE ELSE f[r].standby
        BY <2>2, <2>3
    <2>6. q.out = g
        BY <1>1, <2>1, <2>2
    <2> QED
        BY <2>1, <2>4, <2>5, <2>6 DEF Standing
<1>4. q.in = w.in /\ q.active_input = w.active_input /\ q.in_call = w.in_call /\ q.uses = w.uses
    BY <1>1 DEF Keeps, HalFields
<1>5. StreamTypes(q)
    BY <1>0, <1>3, <1>4 DEF Standing, StreamTypes
<1>6. Good(q)
    BY <1>1, <1>4, <1>5, GoodMoved
<1>7. Good(x) /\ Keeps(q, x, RefFields) /\ ~Listed(x, o) /\ ListedBut(q, x, o)
    BY <1>2, <1>6, OutputStopped
<1>8. Keeps(w, x, RefFields \cup {"out"}) /\ x.out = q.out
    BY <1>1, <1>7 DEF Keeps, RefFields, HalFields
<1>9. Standing(w, x, o, TRUE)
    BY <1>3, <1>8 DEF Standing
<1>10. ListedBut(w, x, o)
    BY <1>4, <1>7 DEF ListedBut, Listed
<1> QED
    BY <1>7, <1>8, <1>9, <1>10

(* The types of the inputs.                                                *)
InputTypes == [Inputs -> [standby : BOOLEAN, devices : InDevices, source : Sources, aec : BOOLEAN]]

(* Input i is in standby or not, and the other inputs are as they were.    *)
Sitting(w, x, i, off) ==
    /\ x.in \in InputTypes /\ x.in[i].standby = off
    /\ \A j \in Inputs \ {i} : x.in[j] = w.in[j]

(* Setting the standby flag of an input changes nothing about routing.     *)
LEMMA InputSet ==
    ASSUME NEW w, Good(w), NEW i \in Inputs, NEW b \in BOOLEAN, NEW x, x = [w EXCEPT !.in[i].standby = b]
    PROVE  /\ Good(x) /\ SameRoutes(w, x) /\ Keeps(w, x, {"in"}) /\ Sitting(w, x, i, b)
<1>0. Shape(w) /\ StreamTypes(w)
    BY DEF Good, Half
<1>1. /\ SameRoutes(w, x) /\ Keeps(w, x, {"in"}) /\ x.in = [w.in EXCEPT ![i].standby = b]
    BY <1>0 DEF SameRoutes, Keeps, Shape, HalFields
<1>2. Sitting(w, x, i, b)
    <2>1. PICK f : f = w.in
        OBVIOUS
    <2>2. PICK g : g = [f EXCEPT ![i].standby = b]
        OBVIOUS
    <2>3. f \in InputTypes
        BY <1>0, <2>1 DEF StreamTypes, InputTypes
    <2>4. g \in InputTypes
        BY <2>2, <2>3 DEF InputTypes
    <2>5. g[i].standby = b /\ \A j \in Inputs \ {i} : g[j] = f[j]
        BY <2>2, <2>3 DEF InputTypes
    <2>6. x.in = g
        BY <1>1, <2>1, <2>2
    <2> QED
        BY <2>1, <2>4, <2>5, <2>6 DEF Sitting
<1>3. x.out = w.out /\ x.active_input = w.active_input /\ x.in_call = w.in_call
    BY <1>1 DEF Keeps, HalFields
<1>4. StreamTypes(x)
    BY <1>0, <1>2, <1>3 DEF Sitting, StreamTypes, InputTypes
<1> QED
    BY <1>1, <1>2, <1>3, <1>4, GoodMoved

(* The fields a step on an input changes.                                  *)
InputFields == RoutingFields \cup {"active_input", "in"}

(* do_in_standby_l of an input that runs.                                  *)
LEMMA InputStandby ==
    ASSUME NEW w, Good(w), NEW i \in Inputs, ~w.in[i].standby, NEW x, x = do_in_standby_l(w, i)
    PROVE  /\ Good(x) /\ Keeps(w, x, InputFields) /\ ~Listed(x, "CAPTURE")
           /\ ListedBut(w, x, "CAPTURE") /\ Sitting(w, x, i, TRUE)
<1>1. PICK q : q = stop_input_stream(w, i)
    OBVIOUS
<1>2. x = [q EXCEPT !.in[i].standby = TRUE]
    BY <1>1 DEF do_in_standby_l
<1>3. /\ Good(q) /\ Keeps(w, q, RefFields \cup {"active_input"})
      /\ ~Listed(q, "CAPTURE") /\ ListedBut(w, q, "CAPTURE")
    BY <1>1, CaptureStopped
<1>4. Good(x) /\ SameRoutes(q, x) /\ Keeps(q, x, {"in"}) /\ Sitting(q, x, i, TRUE)
    BY <1>2, <1>3, InputSet
<1>5. Keeps(w, x, InputFields) /\ q.in = w.in
    BY <1>3, <1>4 DEF Keeps, InputFields, RoutingFields, RefFields, HalFields
<1>6. ~Listed(x, "CAPTURE") /\ ListedBut(w, x, "CAPTURE")
    BY <1>3, <1>4 DEF Listed, ListedBut, SameRoutes
<1>7. Sitting(w, x, i, TRUE)
    BY <1>4, <1>5 DEF Sitting
<1> QED
    BY <1>4, <1>5, <1>6, <1>7

(* start_input_stream: no profile, a PCM device that opens or one that     *)
(* does not.                                                               *)
LEMMA CaptureStarted ==
    ASSUME NEW w, Good(w), NEW i \in Inputs, ~Listed(w, "CAPTURE"), w.in[i].standby,
           NEW junk, NEW opens \in BOOLEAN, NEW x, x = start_input_stream(w, i, opens, junk)
    PROVE  /\ Good(x) /\ Keeps(w, x, InputFields) /\ ListedBut(w, x, "CAPTURE")
           /\ \E b \in BOOLEAN : Sitting(w, x, i, b) /\ (Listed(x, "CAPTURE") <=> ~b)
<1> DEFINE q == [w EXCEPT !.active_input = i]
           z == [w EXCEPT !.active_input = Nobody]
<1>0. Shape(w) /\ StreamTypes(w)
    BY DEF Good, Half
<1>1. /\ SameRoutes(w, q) /\ Keeps(w, q, {"active_input"}) /\ q.active_input = i
      /\ q.in_call = w.in_call /\ q.out = w.out /\ q.in = w.in
    BY <1>0 DEF SameRoutes, Keeps, Shape, HalFields
<1>2. /\ SameRoutes(w, z) /\ Keeps(w, z, {"active_input"}) /\ z.active_input = Nobody
      /\ z.in_call = w.in_call /\ z.out = w.out /\ z.in = w.in
    BY <1>0 DEF SameRoutes, Keeps, Shape, HalFields
<1>3. PICK u : u = NewUsecase("CAPTURE", "PCM_CAPTURE", i, TRUE)
    OBVIOUS
<1>4. PICK y : y = List(q, u)
    OBVIOUS
<1>5. PICK on : on = SelectCapture(y, junk)
    OBVIOUS
<1>6. x = IF w.in[i].devices \cap CaptureProfile = {} THEN z
          ELSE IF opens THEN [on EXCEPT !.in[i].standby = FALSE] ELSE stop_input_stream(on, i)
    BY <1>3, <1>4, <1>5 DEF start_input_stream
<1> HIDE DEF q, z
<1>7. StreamTypes(q) /\ StreamTypes(z)
    BY <1>0, <1>1, <1>2 DEF StreamTypes
<1>8. CASE w.in[i].devices \cap CaptureProfile = {}
    <2>1. x = z
        BY <1>6, <1>8
    <2>2. Good(z)
        BY <1>2, <1>7, GoodMoved
    <2>3. Keeps(w, z, InputFields)
        BY <1>2 DEF Keeps, InputFields
    <2>4. ListedBut(w, z, "CAPTURE") /\ ~Listed(z, "CAPTURE")
        BY <1>2 DEF Listed, ListedBut, SameRoutes
    <2>5. w.in[i].standby = TRUE
        <3>1. w.in[i].standby \in BOOLEAN
            BY <1>0 DEF StreamTypes
        <3> QED
            BY <3>1, Zenon
    <2>6. Sitting(w, z, i, TRUE)
        BY <1>0, <1>2, <2>5 DEF Sitting, StreamTypes, InputTypes
    <2> QED
        BY <2>1, <2>2, <2>3, <2>4, <2>6
<1>9. CASE w.in[i].devices \cap CaptureProfile # {}
    <2>1. x = IF opens THEN [on EXCEPT !.in[i].standby = FALSE] ELSE stop_input_stream(on, i)
        BY <1>6, <1>9
    <2>2. u \in UseRec /\ u.in = None /\ u.out = None /\ u.id = "CAPTURE" /\ u.type = "PCM_CAPTURE" /\ u.mixer
        BY <1>3 DEF NewUsecase, UseRec, Ids
    <2>3. PICK p : p = Len(w.uses) + 1
        OBVIOUS
    <2>4. Admitted(w, y, u, p) /\ Keeps(q, y, {"uses"})
        <3>1. "CAPTURE" \notin Outputs
            BY StreamsAssumption
        <3>2. /\ ~Listed(w, u.id) /\ (u.id \in Outputs => u.type = "PCM_PLAYBACK")
              /\ u.id = "CAPTURE" => u.type = "PCM_CAPTURE"
              /\ u.id = "VOICE_CALL" => u.type = "VOICE_CALL"
              /\ q.in_call = IF u.id = "VOICE_CALL" THEN TRUE ELSE w.in_call
            BY <1>1, <2>2, <3>1
        <3> QED
            BY <1>1, <1>4, <1>7, <2>2, <2>3, <3>2, UsecaseJoins
    <2>5. /\ Half(y) /\ p \in DOMAIN y.uses /\ y.uses[p].id = "CAPTURE" /\ CallOutBut(y, p)
          /\ Routable => Shared(y)
          /\ Listed(y, "CAPTURE") /\ ListedBut(w, y, "CAPTURE") /\ y.uses[p].out = None
        BY <2>2, <2>4, StreamsAssumption DEF Admitted
    <2>6. /\ Half(on) /\ CallIn(on) /\ SameUses(y, on) /\ Keeps(y, on, RoutingFields)
          /\ \A j \in DOMAIN y.uses : on.uses[j].out = y.uses[j].out
        BY <1>5, <2>5, CaptureSelected
    <2>7. CallOut(on) /\ (Shared(y) => Shared(on))
        <3>1. "CAPTURE" \notin Outputs
            BY StreamsAssumption
        <3> QED
            BY <2>5, <2>6, <3>1 DEF CallOut, CallOutBut, Shared, SharedBut, SameUses
    <2>8. Good(on)
        BY <2>5, <2>6, <2>7 DEF Good
    <2>9. Listed(on, "CAPTURE") /\ ListedBut(w, on, "CAPTURE")
        BY <2>5, <2>6, SameListed DEF ListedBut
    <2>10. Keeps(w, on, InputFields) /\ on.in = w.in
        BY <1>1, <2>4, <2>6 DEF Keeps, InputFields, RoutingFields, HalFields
    <2>11. CASE opens
        <3>1. x = [on EXCEPT !.in[i].standby = FALSE]
            BY <2>1, <2>11
        <3>2. Good(x) /\ SameRoutes(on, x) /\ Keeps(on, x, {"in"}) /\ Sitting(on, x, i, FALSE)
            BY <2>8, <3>1, InputSet
        <3>3. Keeps(w, x, InputFields)
            BY <2>10, <3>2 DEF Keeps, InputFields
        <3>4. Listed(x, "CAPTURE") /\ ListedBut(w, x, "CAPTURE")
            BY <2>9, <3>2 DEF Listed, ListedBut, SameRoutes
        <3>5. Sitting(w, x, i, FALSE)
            BY <2>10, <3>2 DEF Sitting
        <3> QED
            BY <3>2, <3>3, <3>4, <3>5
    <2>12. CASE ~opens
        <3>1. x = stop_input_stream(on, i)
            BY <2>1, <2>12
        <3>2. /\ Good(x) /\ Keeps(on, x, RefFields \cup {"active_input"})
              /\ ~Listed(x, "CAPTURE") /\ ListedBut(on, x, "CAPTURE")
            BY <2>8, <3>1, CaptureStopped
        <3>3. Keeps(w, x, InputFields) /\ x.in = w.in
            BY <2>10, <3>2 DEF Keeps, InputFields, RoutingFields, RefFields, HalFields
        <3>4. ListedBut(w, x, "CAPTURE")
            BY <2>9, <3>2 DEF ListedBut
        <3>5. w.in[i].standby = TRUE
            <4>1. w.in[i].standby \in BOOLEAN
                BY <1>0 DEF StreamTypes
            <4> QED
                BY <4>1, Zenon
        <3>6. Sitting(w, x, i, TRUE)
            BY <1>0, <3>3, <3>5 DEF Sitting, StreamTypes, InputTypes
        <3> QED
            BY <3>2, <3>3, <3>4, <3>6
    <2> QED
        BY <2>11, <2>12
<1> QED
    BY <1>8, <1>9

(* The fields start_voice_call changes.                                    *)
StartFields == CallFields \cup {"in_call", "voice_pcm"}

(* CallFollows, of any state of the HAL.                                   *)
Follows(w) ==
    /\ w.session = w.out[Primary].devices /\ w.modem_path = ModemPath(w.out[Primary].devices)
    /\ Usecase(w, "VOICE_CALL").out = get_output_snd_device(w, w.out[Primary].devices)
    /\ Usecase(w, "VOICE_CALL").in = get_input_snd_device(w, NoStream, w.out[Primary].devices)

(* start_voice_call: playback and capture move to the call, and in mode    *)
(* IN_CALL the call is on the devices of the primary output in all its     *)
(* parts.                                                                  *)
LEMMA CallStarted ==
    ASSUME NEW w, Good(w), ~w.in_call, NEW junk, NEW x, x = start_voice_call(w, junk)
    PROVE  /\ Good(x) /\ Keeps(w, x, StartFields) /\ x.in_call = TRUE
           /\ ListedBut(w, x, "VOICE_CALL")
           /\ Routable /\ w.mode = "IN_CALL" => Follows(x)
<1> DEFINE q == [w EXCEPT !.in_call = TRUE]
<1>0. Shape(w) /\ StreamTypes(w) /\ CallListed(w)
    BY DEF Good, Half
<1>1. /\ SameRoutes(w, q) /\ Keeps(w, q, {"in_call"}) /\ q.active_input = w.active_input
      /\ q.in_call = TRUE /\ q.out = w.out /\ q.in = w.in
    BY <1>0 DEF SameRoutes, Keeps, Shape, HalFields
<1>2. PICK u : u = NewUsecase("VOICE_CALL", "VOICE_CALL", Primary, TRUE)
    OBVIOUS
<1>3. PICK y : y = List(q, u)
    OBVIOUS
<1>4. PICK v : v = SelectVoice(y, junk)
    OBVIOUS
<1>5. x = [v EXCEPT !.voice_pcm = TRUE]
    BY <1>2, <1>3, <1>4 DEF start_voice_call, start_voice_session
<1> HIDE DEF q
<1>6. StreamTypes(q)
    BY <1>0, <1>1 DEF StreamTypes
<1>7. u \in UseRec /\ u.in = None /\ u.out = None /\ u.id = "VOICE_CALL" /\ u.type = "VOICE_CALL" /\ u.mixer
    BY <1>2, StreamsAssumption DEF NewUsecase, UseRec, Ids
<1>8. PICK p : p = Len(w.uses) + 1
    OBVIOUS
<1>9. Admitted(w, y, u, p) /\ Keeps(q, y, {"uses"})
    <2>1. "VOICE_CALL" \notin Outputs
        BY StreamsAssumption
    <2>2. /\ ~Listed(w, u.id) /\ (u.id \in Outputs => u.type = "PCM_PLAYBACK")
          /\ u.id = "CAPTURE" => u.type = "PCM_CAPTURE"
          /\ u.id = "VOICE_CALL" => u.type = "VOICE_CALL"
          /\ q.in_call = IF u.id = "VOICE_CALL" THEN TRUE ELSE w.in_call
        BY <1>0, <1>1, <1>7, <2>1 DEF CallListed
    <2> QED
        BY <1>1, <1>3, <1>6, <1>7, <1>8, <2>2, UsecaseJoins
<1>10. /\ Half(y) /\ p \in DOMAIN y.uses /\ y.uses[p].id = "VOICE_CALL" /\ y.uses[p].in = None
       /\ y.uses[p].out = None /\ (Routable => Shared(y))
       /\ ListedBut(w, y, "VOICE_CALL")
    BY <1>7, <1>9, StreamsAssumption DEF Admitted
<1>11. y.in_call /\ y.out = w.out /\ y.mode = w.mode
    BY <1>1, <1>9 DEF Keeps, HalFields
<1>12. PICK d : d = w.out[Primary].devices
    OBVIOUS
<1>13. /\ Good(v) /\ SameUses(y, v) /\ Keeps(y, v, CallFields)
       /\ v.session = d /\ (Routable => v.modem_path = ModemPath(d))
       /\ v.uses[p].out = get_output_snd_device(v, d)
       /\ y.mode = "IN_CALL" => v.uses[p].in = get_input_snd_device(v, NoStream, d)
    BY <1>4, <1>10, <1>11, <1>12, VoiceSelected
<1>14. DOMAIN v = HalFields
    BY <1>13 DEF Good, Half, Shape
<1>15. /\ SameRoutes(v, x) /\ Keeps(v, x, {"voice_pcm"}) /\ x.voice_pcm = TRUE
    BY <1>5, <1>14 DEF SameRoutes, Keeps, HalFields
<1>16. /\ x.out = v.out /\ x.in = v.in /\ x.active_input = v.active_input /\ x.in_call = v.in_call
       /\ x.session = v.session /\ x.modem_path = v.modem_path /\ x.mode = v.mode
       /\ x.two_mic = v.two_mic /\ x.wb_amr = v.wb_amr /\ x.bluetooth_wb = v.bluetooth_wb
       /\ x.uses = v.uses
    BY <1>15 DEF Keeps, HalFields
<1>17. StreamTypes(v)
    BY <1>13 DEF Good, Half
<1>18. StreamTypes(x)
    BY <1>16, <1>17 DEF StreamTypes
<1>19. Good(x)
    BY <1>13, <1>15, <1>16, <1>18, GoodMoved
<1>20. /\ Keeps(w, x, StartFields) /\ x.in_call = y.in_call /\ y.in_call = q.in_call
    BY <1>1, <1>9, <1>13, <1>15 DEF Keeps, StartFields, CallFields, RoutingFields, HalFields
<1>21. ListedBut(w, x, "VOICE_CALL")
    <2>1. \A id : Listed(v, id) <=> Listed(y, id)
        BY <1>13, SameListed
    <2> QED
        BY <1>10, <1>16, <2>1 DEF ListedBut, Listed
<1>22. ASSUME Routable, w.mode = "IN_CALL" PROVE Follows(x)
    <2>1. p \in DOMAIN x.uses /\ x.uses[p].id = "VOICE_CALL"
        BY <1>10, <1>13, <1>16 DEF SameUses
    <2>2. Usecase(x, "VOICE_CALL") = x.uses[p]
        BY <1>19, <2>1, CallFound DEF Good, Half
    <2>3. x.out[Primary].devices = d
        BY <1>12, <1>20 DEF Keeps, StartFields, CallFields, RoutingFields, HalFields
    <2>4. get_output_snd_device(x, d) = get_output_snd_device(v, d)
        BY <1>16 DEF get_output_snd_device, Wideband
    <2>5. get_input_snd_device(x, NoStream, d) = get_input_snd_device(v, NoStream, d)
        <3>1. CallMic(x, d) = CallMic(v, d)
            BY <1>16 DEF CallMic, Wideband
        <3>2. x.mode = "IN_CALL" /\ v.mode = "IN_CALL"
            BY <1>11, <1>13, <1>16, <1>22 DEF Keeps, CallFields, RoutingFields, HalFields
        <3> QED
            BY <3>1, <3>2 DEF get_input_snd_device
    <2> QED
        BY <1>11, <1>13, <1>15, <1>16, <1>22, <2>2, <2>3, <2>4, <2>5 DEF Follows
<1> QED
    BY <1>1, <1>19, <1>20, <1>21, <1>22

(* The fields that change with a Bluetooth SCO session.                    *)
ScoFields == {"bt_sco_active", "voice_pcm", "session", "modem_path"}

(* It changes nothing about routing.                                       *)
LEMMA ScoSwitched ==
    ASSUME NEW w, Good(w), NEW o, NEW opens, NEW x, x = BluetoothSco(w, o, opens)
    PROVE  Good(x) /\ Keeps(w, x, ScoFields) /\ x.uses = w.uses
<1>0. Shape(w) /\ StreamTypes(w)
    BY DEF Good, Half
<1> DEFINE on == [w EXCEPT !.bt_sco_active = TRUE]
           off == [w EXCEPT !.bt_sco_active = FALSE]
<1>1. x \in {w, on, off, start_voice_session(on), stop_voice_session(off)}
    BY DEF BluetoothSco
<1>2. DOMAIN w = HalFields
    BY <1>0 DEF Shape
<1>3. /\ SameRoutes(w, x) /\ Keeps(w, x, ScoFields)
    BY <1>1, <1>2 DEF SameRoutes, Keeps, HalFields, ScoFields, start_voice_session, stop_voice_session
<1>4. /\ x.out = w.out /\ x.in = w.in /\ x.active_input = w.active_input /\ x.in_call = w.in_call
      /\ x.uses = w.uses
    BY <1>3 DEF Keeps, HalFields, ScoFields
<1>5. StreamTypes(x)
    BY <1>0, <1>4 DEF StreamTypes
<1> QED
    BY <1>3, <1>4, <1>5, GoodMoved

-----------------------------------------------------------------------------
(* The streams and the usecases they have.                                 *)

(* There is at most one input stream. The id of the capture usecase is the *)
(* same for every input, and in_read does not look whether it is listed    *)
(* already.                                                                *)
OneInput == \A i, j \in Inputs : i = j

(* An output has a usecase exactly when it is not in standby.              *)
LinkedOut(w) == \A o \in Outputs : Listed(w, o) <=> ~w.out[o].standby

(* So has the input.                                                       *)
LinkedIn(w) == \A i \in Inputs : Listed(w, "CAPTURE") <=> ~w.in[i].standby

(* Both.                                                                   *)
Linked(w) == LinkedOut(w) /\ LinkedIn(w)

(* A step that changes neither, as those of a call.                        *)
LEMMA StillLinked ==
    ASSUME NEW w, Linked(w), NEW x, x.out = w.out, x.in = w.in,
           \A id \in Ids \ {"VOICE_CALL"} : Listed(x, id) <=> Listed(w, id)
    PROVE  Linked(x)
<1>1. Outputs \subseteq Ids \ {"VOICE_CALL"} /\ "CAPTURE" \in Ids \ {"VOICE_CALL"}
    BY StreamsAssumption DEF Ids
<1>2. LinkedOut(x)
    BY <1>1 DEF Linked, LinkedOut
<1>3. LinkedIn(x)
    BY <1>1 DEF Linked, LinkedIn
<1> QED
    BY <1>2, <1>3 DEF Linked

(* A step that starts or stops an output.                                  *)
LEMMA OutputLinked ==
    ASSUME NEW w, Linked(w), NEW x, NEW o \in Outputs, NEW b, x.in = w.in, ListedBut(w, x, o),
           Standing(w, x, o, b), Listed(x, o) <=> ~b
    PROVE  Linked(x)
<1>1. Outputs \subseteq Ids /\ "CAPTURE" \in Ids \ {o}
    BY StreamsAssumption DEF Ids
<1>2. LinkedIn(x)
    BY <1>1 DEF Linked, LinkedIn, ListedBut
<1>3. ASSUME NEW r \in Outputs PROVE Listed(x, r) <=> ~x.out[r].standby
    <2>1. CASE r = o
        <3>1. x.out[r].standby = b
            BY <2>1 DEF Standing
        <3> QED
            BY <2>1, <3>1
    <2>2. CASE r # o
        <3>1. x.out[r].standby = w.out[r].standby
            BY <2>2 DEF Standing
        <3>2. Listed(x, r) <=> Listed(w, r)
            BY <1>1, <2>2 DEF ListedBut
        <3>3. Listed(w, r) <=> ~w.out[r].standby
            BY DEF Linked, LinkedOut
        <3> QED
            BY <3>1, <3>2, <3>3
    <2> QED
        BY <2>1, <2>2
<1> QED
    BY <1>2, <1>3 DEF Linked, LinkedOut

(* A step that starts or stops the input.                                  *)
LEMMA InputLinked ==
    ASSUME OneInput, NEW w, Linked(w), NEW x, NEW i \in Inputs, NEW b, x.out = w.out,
           ListedBut(w, x, "CAPTURE"), Sitting(w, x, i, b), Listed(x, "CAPTURE") <=> ~b
    PROVE  Linked(x)
<1>1. Outputs \subseteq Ids \ {"CAPTURE"}
    BY StreamsAssumption DEF Ids
<1>2. LinkedOut(x)
    BY <1>1 DEF Linked, LinkedOut, ListedBut
<1>3. LinkedIn(x)
    BY DEF LinkedIn, OneInput, Sitting
<1> QED
    BY <1>2, <1>3 DEF Linked

(* What out_set_parameters leaves.                                         *)
Rerouting(w, o, d, x) ==
    /\ Good(x) /\ Linked(x) /\ x.mode = w.mode /\ x.in = w.in
    /\ IF w.mode = "IN_CALL" /\ o = Primary THEN Routable => Follows(x)
       ELSE /\ x.in_call = w.in_call
            /\ o # Primary => x.out[Primary].devices = w.out[Primary].devices

(* The output goes to standby or is selected anew, a Bluetooth session     *)
(* comes or goes, and a call is stopped and started on the new devices.    *)
LEMMA OutputRerouted ==
    ASSUME NEW w, Good(w), Linked(w), NEW o \in Outputs, NEW d \in OutDevices, NEW opens, NEW junk,
           NEW x, x = Reroute(w, o, d, opens, junk)
    PROVE  Rerouting(w, o, d, x)
<1> DEFINE a == [w EXCEPT !.out[o].devices = d]
<1>0. Shape(w) /\ StreamTypes(w)
    BY DEF Good, Half
<1>1. /\ SameRoutes(w, a) /\ Keeps(w, a, {"out"}) /\ a.out = [w.out EXCEPT ![o].devices = d]
    BY <1>0 DEF SameRoutes, Keeps, Shape, HalFields
<1>2. PICK b : b = IF w.out[o].standby THEN a
                   ELSE IF ~Serves(w.out[o].devices, d) THEN do_out_standby_l(a, o)
                   ELSE SelectPlayback(a, o, junk)
    OBVIOUS
<1>3. PICK c : c = BluetoothSco(b, o, opens)
    OBVIOUS
<1>4. PICK e : e = IF c.in_call THEN stop_voice_call(c) ELSE c
    OBVIOUS
<1>5. x = IF w.mode # "IN_CALL" \/ o # Primary THEN c ELSE start_voice_call(e, junk)
    BY <1>2, <1>3, <1>4 DEF Reroute
<1> HIDE DEF a
<1>6. /\ a.out \in [Outputs -> [standby : BOOLEAN, devices : OutDevices]]
      /\ \A r \in Outputs : /\ a.out[r].standby = w.out[r].standby
                            /\ a.out[r].devices = IF r = o THEN d ELSE w.out[r].devices
    <2>1. PICK f : f = w.out
        OBVIOUS
    <2>2. PICK g : g = [f EXCEPT ![o].devices = d]
        OBVIOUS
    <2>3. f \in [Outputs -> [standby : BOOLEAN, devices : OutDevices]]
        BY <1>0, <2>1 DEF StreamTypes
    <2>4. g \in [Outputs -> [standby : BOOLEAN, devices : OutDevices]]
        BY <2>2, <2>3
    <2>5. \A r \in Outputs : /\ g[r].standby = f[r].standby
                             /\ g[r].devices = IF r = o THEN d ELSE f[r].devices
        BY <2>2, <2>3
    <2>6. a.out = g
        BY <1>1, <2>1, <2>2
    <2> QED
        BY <2>1, <2>4, <2>5, <2>6
<1>7. /\ a.in = w.in /\ a.active_input = w.active_input /\ a.in_call = w.in_call /\ a.uses = w.uses
      /\ a.mode = w.mode
    BY <1>1 DEF Keeps, HalFields
<1>8. Good(a)
    <2>1. StreamTypes(a)
        BY <1>0, <1>6, <1>7 DEF StreamTypes
    <2> QED
        BY <1>1, <1>7, <2>1, GoodMoved
<1>9. Linked(a)
    BY <1>6, <1>7 DEF Linked, LinkedOut, LinkedIn, Listed
<1>10. /\ Good(b) /\ Linked(b) /\ b.in = a.in /\ b.in_call = a.in_call /\ b.mode = a.mode
       /\ \A r \in Outputs : b.out[r].devices = a.out[r].devices
    <2>1. CASE b = a
        BY <1>8, <1>9, <2>1
    <2>2. CASE b = do_out_standby_l(a, o)
        <3>1. /\ Good(b) /\ Keeps(a, b, RefFields \cup {"out"}) /\ ~Listed(b, o) /\ ListedBut(a, b, o)
              /\ Standing(a, b, o, TRUE)
            BY <1>8, <2>2, OutputStandby
        <3>2. b.in = a.in /\ b.in_call = a.in_call /\ b.mode = a.mode
            BY <3>1 DEF Keeps, RefFields, HalFields
        <3>3. Linked(b)
            BY <1>9, <3>1, <3>2, OutputLinked
        <3> QED
            BY <3>1, <3>2, <3>3 DEF Standing
    <2>3. CASE ~w.out[o].standby /\ b = SelectPlayback(a, o, junk)
        <3>1. Listed(a, o)
            BY <1>7, <2>3 DEF Linked, LinkedOut, Listed
        <3>2. PICK p : p \in DOMAIN a.uses /\ a.uses[p].id = o
            BY <3>1 DEF Listed
        <3>3. /\ Half(a) /\ CallIn(a) /\ CallOut(a) /\ (Routable => Shared(a))
            BY <1>8 DEF Good
        <3>4. CallOutBut(a, p) /\ (Shared(a) => SharedBut(a, p))
            <4>1. 0 \notin DOMAIN a.uses
                BY <3>3 DEF Half, Shape
            <4> QED
                BY <3>3, <4>1 DEF CallOut, CallOutBut, Shared, SharedBut
        <3>5. Good(b) /\ SameUses(a, b) /\ Keeps(a, b, RoutingFields)
            BY <2>3, <3>2, <3>3, <3>4, PlaybackSelected
        <3>6. b.in = a.in /\ b.in_call = a.in_call /\ b.mode = a.mode /\ b.out = a.out
            BY <3>5 DEF Keeps, RoutingFields, HalFields
        <3>7. Linked(b)
            BY <1>9, <3>5, <3>6, SameListed, StillLinked
        <3> QED
            BY <3>5, <3>6, <3>7
    <2> QED
        BY <1>2, <2>1, <2>2, <2>3
<1>11. Good(c) /\ Keeps(b, c, ScoFields) /\ c.uses = b.uses
    BY <1>3, <1>10, ScoSwitched
<1>12. c.in = b.in /\ c.in_call = b.in_call /\ c.mode = b.mode /\ c.out = b.out
    BY <1>11 DEF Keeps, ScoFields, HalFields
<1>13. Linked(c)
    BY <1>10, <1>11, <1>12, StillLinked DEF Listed
<1>14. CASE w.mode # "IN_CALL" \/ o # Primary
    <2>1. x = c
        BY <1>5, <1>14
    <2>2. c.mode = w.mode /\ c.in = w.in /\ c.in_call = w.in_call
        BY <1>7, <1>10, <1>12
    <2>3. o # Primary => c.out[Primary].devices = w.out[Primary].devices
        BY <1>6, <1>10, <1>12, StreamsAssumption
    <2> QED
        BY <1>11, <1>13, <1>14, <2>1, <2>2, <2>3 DEF Rerouting
<1>15. CASE ~(w.mode # "IN_CALL" \/ o # Primary)
    <2>1. x = start_voice_call(e, junk)
        BY <1>5, <1>15
    <2>2. /\ Good(e) /\ ~e.in_call /\ e.in = c.in /\ e.out = c.out /\ e.mode = c.mode
          /\ ListedBut(c, e, "VOICE_CALL")
        <3>1. CASE ~c.in_call
            BY <1>4, <1>11, <3>1 DEF ListedBut
        <3>2. CASE c.in_call
            <4>1. e = stop_voice_call(c)
                BY <1>4, <3>2
            <4>2. Good(e) /\ Keeps(c, e, StopFields) /\ e.in_call = FALSE /\ ListedBut(c, e, "VOICE_CALL")
                BY <1>11, <4>1, CallStopped
            <4> QED
                BY <4>2 DEF Keeps, StopFields, RefFields, HalFields
        <3> QED
            BY <3>1, <3>2
    <2>3. /\ Good(x) /\ Keeps(e, x, StartFields) /\ ListedBut(e, x, "VOICE_CALL")
          /\ Routable /\ e.mode = "IN_CALL" => Follows(x)
        BY <2>1, <2>2, CallStarted
    <2>4. x.in = e.in /\ x.out = e.out /\ x.mode = e.mode
        BY <2>3 DEF Keeps, StartFields, CallFields, RoutingFields, HalFields
    <2>5. Linked(x)
        <3>1. x.in = c.in /\ x.out = c.out
            BY <2>2, <2>4
        <3>2. \A id \in Ids \ {"VOICE_CALL"} : Listed(x, id) <=> Listed(c, id)
            BY <2>2, <2>3 DEF ListedBut
        <3> QED
            BY <1>13, <3>1, <3>2, StillLinked
    <2>6. x.mode = w.mode /\ x.in = w.in /\ e.mode = w.mode
        BY <1>7, <1>10, <1>12, <2>2, <2>4
    <2> QED
        BY <1>15, <2>3, <2>5, <2>6 DEF Rerouting
<1> QED
    BY <1>14, <1>15

(* select_devices for a capture that runs.                                 *)
LEMMA CaptureReselected ==
    ASSUME NEW w, Good(w), Listed(w, "CAPTURE"), NEW junk, NEW x, x = SelectCapture(w, junk)
    PROVE  Good(x) /\ SameUses(w, x) /\ Keeps(w, x, RoutingFields)
<1>1. PICK p : p \in DOMAIN w.uses /\ w.uses[p].id = "CAPTURE"
    BY DEF Listed
<1>2. Half(w) /\ CallOut(w) /\ (Routable => Shared(w))
    BY DEF Good
<1>3. /\ Half(x) /\ CallIn(x) /\ SameUses(w, x) /\ Keeps(w, x, RoutingFields)
      /\ \A j \in DOMAIN w.uses : x.uses[j].out = w.uses[j].out
    BY <1>1, <1>2, CaptureSelected
<1>4. CallOut(x) /\ (Shared(w) => Shared(x))
    BY <1>2, <1>3 DEF CallOut, CallOutBut, Shared, SharedBut, SameUses
<1> QED
    BY <1>2, <1>3, <1>4 DEF Good

(* A step on an input leaves a good HAL and touches only the fields of     *)
(* inputs.                                                                 *)
InputStep(w, x) ==
    /\ Good(x) /\ Linked(x) /\ Keeps(w, x, InputFields)

(* Source, devices and effects of an input change nothing about routing.   *)
LEMMA InputChanged ==
    ASSUME OneInput, NEW w, Good(w), Linked(w), NEW i \in Inputs, NEW x, SameRoutes(w, x),
           Keeps(w, x, {"in"}), Sitting(w, x, i, w.in[i].standby)
    PROVE  Good(x) /\ Linked(x)
<1>1. x.out = w.out /\ x.active_input = w.active_input /\ x.in_call = w.in_call
    BY DEF Keeps, HalFields
<1>2. StreamTypes(x)
    BY <1>1 DEF StreamTypes, Good, Half, Sitting, InputTypes
<1>3. Good(x)
    BY <1>1, <1>2, GoodMoved
<1>4. ListedBut(w, x, "CAPTURE") /\ (Listed(x, "CAPTURE") <=> Listed(w, "CAPTURE"))
    BY DEF ListedBut, Listed, SameRoutes
<1>5. Listed(x, "CAPTURE") <=> ~w.in[i].standby
    BY <1>4 DEF Linked, LinkedIn
<1> QED
    BY <1>1, <1>3, <1>4, <1>5, InputLinked

(* select_devices for an input that runs.                                  *)
LEMMA InputSelected ==
    ASSUME NEW w, Good(w), Linked(w), NEW i \in Inputs, ~w.in[i].standby, NEW junk,
           NEW x, x = SelectCapture(w, junk)
    PROVE  Good(x) /\ Linked(x) /\ Keeps(w, x, RoutingFields)
<1>1. Listed(w, "CAPTURE")
    BY DEF Linked, LinkedIn
<1>2. Good(x) /\ SameUses(w, x) /\ Keeps(w, x, RoutingFields)
    BY <1>1, CaptureReselected
<1>3. x.out = w.out /\ x.in = w.in
    BY <1>2 DEF Keeps, RoutingFields, HalFields
<1> QED
    BY <1>2, <1>3, SameListed, StillLinked

(* do_in_standby_l, whether the input runs or not.                         *)
LEMMA InputOff ==
    ASSUME OneInput, NEW w, Good(w), Linked(w), NEW i \in Inputs, NEW x, x = do_in_standby_l(w, i)
    PROVE  InputStep(w, x)
<1>1. CASE w.in[i].standby
    BY <1>1 DEF do_in_standby_l, InputStep, Keeps
<1>2. CASE ~w.in[i].standby
    <2>1. /\ Good(x) /\ Keeps(w, x, InputFields) /\ ~Listed(x, "CAPTURE")
          /\ ListedBut(w, x, "CAPTURE") /\ Sitting(w, x, i, TRUE)
        BY <1>2, InputStandby
    <2>2. x.out = w.out
        BY <2>1 DEF Keeps, InputFields, RoutingFields, HalFields
    <2>3. Linked(x)
        BY <2>1, <2>2, InputLinked
    <2> QED
        BY <2>1, <2>3 DEF InputStep
<1> QED
    BY <1>1, <1>2

(* in_set_parameters.                                                      *)
LEMMA InputRerouted ==
    ASSUME OneInput, NEW w, Good(w), Linked(w), NEW i \in Inputs, NEW d \in InDevices,
           NEW source \in Sources, NEW junk, NEW x, x = RerouteInput(w, i, d, source, junk)
    PROVE  InputStep(w, x)
<1> DEFINE new == [w EXCEPT !.in[i].source = source, !.in[i].devices = d]
<1>0. Shape(w) /\ StreamTypes(w)
    BY DEF Good, Half
<1>1. /\ SameRoutes(w, new) /\ Keeps(w, new, {"in"})
      /\ new.in = [w.in EXCEPT ![i].source = source, ![i].devices = d]
    BY <1>0 DEF SameRoutes, Keeps, Shape, HalFields
<1>2. x = IF w.in[i].standby \/ d = w.in[i].devices THEN new
          ELSE IF d \cap CaptureProfile = {} THEN do_in_standby_l(new, i)
          ELSE SelectCapture(new, junk)
    BY DEF RerouteInput
<1> HIDE DEF new
<1>3. Sitting(w, new, i, w.in[i].standby)
    <2>1. PICK f : f = w.in
        OBVIOUS
    <2>2. PICK g : g = [f EXCEPT ![i].source = source, ![i].devices = d]
        OBVIOUS
    <2>3. f \in InputTypes
        BY <1>0, <2>1 DEF StreamTypes, InputTypes
    <2>4. g \in InputTypes
        BY <2>2, <2>3 DEF InputTypes
    <2>5. g[i].standby = f[i].standby /\ \A j \in Inputs \ {i} : g[j] = f[j]
        BY <2>2, <2>3 DEF InputTypes
    <2>6. new.in = g
        BY <1>1, <2>1, <2>2
    <2> QED
        BY <2>1, <2>4, <2>5, <2>6 DEF Sitting
<1>4. Good(new) /\ Linked(new)
    BY <1>1, <1>3, InputChanged
<1>5. CASE x = new
    BY <1>1, <1>4, <1>5 DEF InputStep, Keeps, InputFields
<1>6. CASE x = do_in_standby_l(new, i)
    <2>1. InputStep(new, x)
        BY <1>4, <1>6, InputOff
    <2> QED
        BY <1>1, <2>1 DEF InputStep, Keeps, InputFields
<1>7. CASE ~w.in[i].standby /\ x = SelectCapture(new, junk)
    <2>1. ~new.in[i].standby
        BY <1>3, <1>7 DEF Sitting
    <2>2. Good(x) /\ Linked(x) /\ Keeps(new, x, RoutingFields)
        BY <1>4, <1>7, <2>1, InputSelected
    <2> QED
        BY <1>1, <2>2 DEF InputStep, Keeps, InputFields
<1> QED
    BY <1>2, <1>5, <1>6, <1>7

(* add_remove_audio_effect.                                                *)
LEMMA EffectChanged ==
    ASSUME OneInput, NEW w, Good(w), Linked(w), NEW i \in Inputs, NEW junk,
           NEW s, s = [w EXCEPT !.in[i].aec = ~@],
           NEW x, x = IF w.in[i].standby THEN s ELSE do_in_standby_l(SelectCapture(s, junk), i)
    PROVE  InputStep(w, x)
<1>0. Shape(w) /\ StreamTypes(w)
    BY DEF Good, Half
<1>1. PICK b : b = ~w.in[i].aec
    OBVIOUS
<1>2. /\ SameRoutes(w, s) /\ Keeps(w, s, {"in"}) /\ s.in = [w.in EXCEPT ![i].aec = b]
    BY <1>0, <1>1 DEF SameRoutes, Keeps, Shape, HalFields
<1>3. Sitting(w, s, i, w.in[i].standby)
    <2>1. PICK f : f = w.in
        OBVIOUS
    <2>2. PICK g : g = [f EXCEPT ![i].aec = b]
        OBVIOUS
    <2>3. f \in InputTypes
        BY <1>0, <2>1 DEF StreamTypes, InputTypes
    <2>7. b \in BOOLEAN
        BY <1>1
    <2>4. g \in InputTypes
        BY <2>2, <2>3, <2>7 DEF InputTypes
    <2>5. g[i].standby = f[i].standby /\ \A j \in Inputs \ {i} : g[j] = f[j]
        BY <2>2, <2>3 DEF InputTypes
    <2>6. s.in = g
        BY <1>2, <2>1, <2>2
    <2> QED
        BY <2>1, <2>4, <2>5, <2>6 DEF Sitting
<1>4. Good(s) /\ Linked(s)
    BY <1>2, <1>3, InputChanged
<1>5. CASE x = s
    BY <1>2, <1>4, <1>5 DEF InputStep, Keeps, InputFields
<1>6. CASE ~w.in[i].standby /\ x = do_in_standby_l(SelectCapture(s, junk), i)
    <2>1. ~s.in[i].standby
        BY <1>3, <1>6 DEF Sitting
    <2>2. PICK y : y = SelectCapture(s, junk)
        OBVIOUS
    <2>3. Good(y) /\ Linked(y) /\ Keeps(s, y, RoutingFields)
        BY <1>4, <2>1, <2>2, InputSelected
    <2>4. InputStep(y, x)
        BY <1>6, <2>2, <2>3, InputOff
    <2> QED
        BY <1>2, <2>3, <2>4 DEF InputStep, Keeps, InputFields
<1> QED
    BY <1>5, <1>6

-----------------------------------------------------------------------------
(* The invariant of the specification, one lemma per action.               *)

(* What CallFollowsPrimary says of a step from w to x, for devices         *)
(* get_output_snd_device knows.                                            *)
CallStep(w, x) ==
    x.in_call /\ x.mode = "IN_CALL" /\ (x.out[Primary].devices # w.out[Primary].devices \/ ~w.in_call) =>
        (Routable => Follows(x))

(* The invariant of the HAL.                                               *)
HalOk(w) == Good(w) /\ Linked(w)

(* The inductive invariant.                                                *)
HalInv == HalOk(hal) /\ forced \in Inputs \cup {Nobody}

(* A step on an input keeps the invariant, and no call starts.             *)
LEMMA InputStepOk ==
    ASSUME NEW w, NEW x, InputStep(w, x)
    PROVE  HalOk(x) /\ CallStep(w, x)
<1>1. x.out = w.out /\ x.in_call = w.in_call
    BY DEF InputStep, Keeps, InputFields, RoutingFields, HalFields
<1> QED
    BY <1>1 DEF InputStep, HalOk, CallStep

(* The input that is reset is an input.                                    *)
LEMMA ResetsTyped ==
    ASSUME NEW w, Good(w)
    PROVE  Resets(w) \in Inputs \cup {Nobody}
    BY DEF Good, Half, StreamTypes, Resets

(* The mode and the codecs change nothing about routing.                   *)
LEMMA SettingsChanged ==
    ASSUME NEW w, HalOk(w), NEW x, SameRoutes(w, x), Keeps(w, x, {"mode", "bluetooth_wb", "wb_amr"})
    PROVE  HalOk(x) /\ x.out = w.out /\ x.in_call = w.in_call /\ x.in = w.in
<1>1. /\ x.out = w.out /\ x.in = w.in /\ x.active_input = w.active_input /\ x.in_call = w.in_call
      /\ x.uses = w.uses
    BY DEF Keeps, HalFields
<1>2. StreamTypes(x)
    BY <1>1 DEF HalOk, Good, Half, StreamTypes
<1>3. Good(x)
    BY <1>1, <1>2, GoodMoved DEF HalOk
<1>4. Linked(x)
    BY <1>1, StillLinked DEF HalOk, Listed
<1> QED
    BY <1>1, <1>3, <1>4 DEF HalOk

(* stop_voice_call keeps the invariant.                                    *)
LEMMA CallEnded ==
    ASSUME NEW w, HalOk(w), NEW x, x = stop_voice_call(w)
    PROVE  HalOk(x) /\ x.in_call = FALSE /\ x.out = w.out
<1>1. Good(x) /\ Keeps(w, x, StopFields) /\ x.in_call = FALSE /\ ListedBut(w, x, "VOICE_CALL")
    BY CallStopped DEF HalOk
<1>2. x.out = w.out /\ x.in = w.in
    BY <1>1 DEF Keeps, StopFields, RefFields, HalFields
<1>3. Linked(x)
    BY <1>1, <1>2, StillLinked DEF HalOk, ListedBut
<1> QED
    BY <1>1, <1>2, <1>3 DEF HalOk

(* adev_open: no usecase, no reference, no path.                           *)
LEMMA HalInitially ==
    Init => HalInv
<1> SUFFICES ASSUME Init PROVE HalInv
    OBVIOUS
<1>1. PICK od, id, s :
        /\ od \in OutDevices /\ id \in InDevices /\ s \in Sources
        /\ hal = [mode |-> "NORMAL", uses |-> <<>>, snd_dev_ref_cnt |-> [d \in SndDevices |-> 0],
                  paths |-> {}, active_input |-> Nobody, in_call |-> FALSE, wb_amr |-> FALSE,
                  bluetooth_wb |-> FALSE, bt_sco_active |-> FALSE, session |-> {},
                  two_mic |-> FALSE, voice_pcm |-> FALSE, modem_path |-> {},
                  out |-> [o \in Outputs |-> [standby |-> TRUE, devices |-> od]],
                  in |-> [i \in Inputs |-> [standby |-> TRUE, devices |-> id, source |-> s,
                                            aec |-> FALSE]]]
    BY DEF Init
<1>2. /\ DOMAIN hal = HalFields /\ hal.uses = <<>> /\ hal.snd_dev_ref_cnt = [d \in SndDevices |-> 0]
      /\ hal.paths = {} /\ hal.active_input = Nobody /\ hal.in_call = FALSE
      /\ hal.out = [o \in Outputs |-> [standby |-> TRUE, devices |-> od]]
      /\ hal.in = [i \in Inputs |-> [standby |-> TRUE, devices |-> id, source |-> s, aec |-> FALSE]]
    BY <1>1 DEF HalFields
<1>3. DOMAIN hal.uses = {} /\ \A k \in DOMAIN hal.uses : FALSE
    BY <1>2
<1>4. Shape(hal)
    BY <1>2 DEF Shape
<1>5. Struct(hal) /\ WeakIn(hal) /\ CallIn(hal) /\ CallOut(hal) /\ Shared(hal)
    BY <1>3 DEF Struct, Distinct, WeakIn, CallIn, CallOut, CallOutBut, Shared, SharedBut
<1>6. \A x : ~Listed(hal, x)
    BY <1>3 DEF Listed
<1>7. CallListed(hal)
    BY <1>2, <1>6 DEF CallListed
<1>8. StreamTypes(hal)
    BY <1>1, <1>2 DEF StreamTypes
<1>9. Matches(hal)
    <2>1. \A d \in SndDevices : UsersOf(Assigned(hal), d) = {}
        BY <1>3 DEF UsersOf, Assigned, Slots
    <2>2. RefsAre(hal, Assigned(hal))
        BY <1>2, <2>1, FS_EmptySet DEF RefsAre
    <2>3. PathsAre(hal)
        BY <1>2 DEF PathsAre, HeldPaths
    <2> QED
        BY <2>2, <2>3 DEF Matches, Sound
<1>10. Linked(hal)
    BY <1>2, <1>6 DEF Linked, LinkedOut, LinkedIn
<1> QED
    BY <1>4, <1>5, <1>7, <1>8, <1>9, <1>10 DEF HalInv, HalOk, Good, Half, Init

(* out_write on an output in standby.                                      *)
LEMMA OutWriteStep ==
    ASSUME HalInv, NEW o \in Outputs, NEW opens \in BOOLEAN, NEW junk, out_write(o, opens, junk)
    PROVE  HalInv' /\ CallStep(hal, hal')
<1>1. PICK w : w = hal
    OBVIOUS
<1>2. PICK x : x = hal'
    OBVIOUS
<1>3. HalOk(w) /\ w.out[o].standby /\ x = start_output_stream(w, o, opens, junk)
    BY <1>1, <1>2 DEF HalInv, out_write
<1>4. ~Listed(w, o)
    BY <1>3 DEF HalOk, Linked, LinkedOut
<1>5. /\ Good(x) /\ Keeps(w, x, RoutingFields \cup {"out"})
      /\ Listed(x, o) <=> opens
      /\ ListedBut(w, x, o) /\ Standing(w, x, o, IF opens THEN FALSE ELSE w.out[o].standby)
    BY <1>3, <1>4, OutputStarted DEF HalOk
<1>6. x.in = w.in /\ x.in_call = w.in_call
    BY <1>5 DEF Keeps, RoutingFields, HalFields
<1>7. Linked(x)
    <2>1. PICK b : b = IF opens THEN FALSE ELSE w.out[o].standby
        OBVIOUS
    <2>2. Listed(x, o) <=> ~b
        BY <1>3, <1>5, <2>1
    <2> QED
        BY <1>3, <1>5, <1>6, <2>1, <2>2, OutputLinked DEF HalOk
<1>8. x.out[Primary].devices = w.out[Primary].devices
    BY <1>5, StreamsAssumption DEF Standing
<1>9. CallStep(w, x)
    BY <1>6, <1>8 DEF CallStep
<1>10. forced' \in Inputs \cup {Nobody}
    <2>1. Resets(x) \in Inputs \cup {Nobody}
        BY <1>5, ResetsTyped
    <2> QED
        BY <1>2, <2>1 DEF out_write
<1> QED
    BY <1>1, <1>2, <1>5, <1>7, <1>9, <1>10 DEF HalInv, HalOk

(* out_standby.                                                            *)
LEMMA OutStandbyStep ==
    ASSUME HalInv, NEW o \in Outputs, out_standby(o)
    PROVE  HalInv' /\ CallStep(hal, hal')
<1>1. PICK w : w = hal
    OBVIOUS
<1>2. PICK x : x = hal'
    OBVIOUS
<1>3. HalOk(w) /\ x = do_out_standby_l(w, o)
    BY <1>1, <1>2 DEF HalInv, out_standby
<1>4. /\ Good(x) /\ Keeps(w, x, RefFields \cup {"out"}) /\ ~Listed(x, o) /\ ListedBut(w, x, o)
      /\ Standing(w, x, o, TRUE)
    BY <1>3, OutputStandby DEF HalOk
<1>5. x.in = w.in /\ x.in_call = w.in_call
    BY <1>4 DEF Keeps, RefFields, HalFields
<1>6. Linked(x)
    BY <1>3, <1>4, <1>5, OutputLinked DEF HalOk
<1>7. x.out[Primary].devices = w.out[Primary].devices
    BY <1>4, StreamsAssumption DEF Standing
<1>8. CallStep(w, x)
    BY <1>5, <1>7 DEF CallStep
<1>9. forced' \in Inputs \cup {Nobody}
    BY DEF HalInv, out_standby
<1> QED
    BY <1>1, <1>2, <1>4, <1>6, <1>8, <1>9 DEF HalInv, HalOk

(* out_set_parameters.                                                     *)
LEMMA OutSetParametersStep ==
    ASSUME HalInv, NEW o \in Outputs, NEW d \in OutDevices, NEW opens, NEW junk,
           out_set_parameters(o, d, opens, junk)
    PROVE  HalInv' /\ CallStep(hal, hal')
<1>1. PICK w : w = hal
    OBVIOUS
<1>2. PICK x : x = hal'
    OBVIOUS
<1>3. HalOk(w) /\ x = Reroute(w, o, d, opens, junk)
    BY <1>1, <1>2 DEF HalInv, out_set_parameters
<1>4. Rerouting(w, o, d, x)
    BY <1>3, OutputRerouted DEF HalOk
<1>5. CallStep(w, x)
    BY <1>4 DEF Rerouting, CallStep
<1>6. HalOk(x)
    BY <1>4 DEF Rerouting, HalOk
<1>7. forced' \in Inputs \cup {Nobody}
    <2>1. Resets(w) \in Inputs \cup {Nobody}
        BY <1>3, ResetsTyped DEF HalOk
    <2> QED
        BY <1>1, <2>1 DEF out_set_parameters
<1> QED
    BY <1>1, <1>2, <1>5, <1>6, <1>7 DEF HalInv

(* Every action on an input.                                               *)
LEMMA InputSteps ==
    ASSUME OneInput, HalInv,
           \/ ForceInput
           \/ \E i \in Inputs : in_standby(i)
           \/ \E i \in Inputs, opens \in BOOLEAN, junk \in Junk : in_read(i, opens, junk)
           \/ \E i \in Inputs, junk \in Junk, d \in InDevices, s \in Sources :
                in_set_parameters(i, d, s, junk)
           \/ \E i \in Inputs, junk \in Junk : add_remove_audio_effect(i, junk)
    PROVE  HalInv' /\ CallStep(hal, hal')
<1>1. PICK w : w = hal
    OBVIOUS
<1>2. PICK x : x = hal'
    OBVIOUS
<1>3. HalOk(w) /\ Good(w) /\ Linked(w) /\ forced \in Inputs \cup {Nobody}
    BY <1>1 DEF HalInv, HalOk
<1>4. InputStep(w, x) /\ forced' \in Inputs \cup {Nobody}
    <2>1. CASE ForceInput
        <3>1. x = do_in_standby_l(w, forced) /\ forced \in Inputs /\ forced' = Nobody
            BY <1>1, <1>2, <1>3, <2>1 DEF ForceInput
        <3> QED
            BY <1>3, <3>1, InputOff
    <2>2. CASE \E i \in Inputs : in_standby(i)
        <3>1. PICK i : i \in Inputs /\ in_standby(i)
            BY <2>2
        <3>2. x = do_in_standby_l(w, i) /\ forced' = forced
            BY <1>1, <1>2, <3>1 DEF in_standby
        <3> QED
            BY <1>3, <3>1, <3>2, InputOff
    <2>3. CASE \E i \in Inputs, opens \in BOOLEAN, junk \in Junk : in_read(i, opens, junk)
        <3>1. PICK i, opens, junk : i \in Inputs /\ opens \in BOOLEAN /\ in_read(i, opens, junk)
            BY <2>3
        <3>2. x = start_input_stream(w, i, opens, junk) /\ forced' = forced /\ w.in[i].standby
            BY <1>1, <1>2, <3>1 DEF in_read
        <3>3. ~Listed(w, "CAPTURE")
            BY <1>3, <3>1, <3>2 DEF Linked, LinkedIn
        <3>4. /\ Good(x) /\ Keeps(w, x, InputFields) /\ ListedBut(w, x, "CAPTURE")
              /\ \E b \in BOOLEAN : Sitting(w, x, i, b) /\ (Listed(x, "CAPTURE") <=> ~b)
            BY <1>3, <3>1, <3>2, <3>3, CaptureStarted
        <3>5. x.out = w.out
            BY <3>4 DEF Keeps, InputFields, RoutingFields, HalFields
        <3>6. Linked(x)
            <4>1. PICK b : Sitting(w, x, i, b) /\ (Listed(x, "CAPTURE") <=> ~b)
                BY <3>4
            <4> QED
                BY <1>3, <3>1, <3>4, <3>5, <4>1, InputLinked
        <3> QED
            BY <1>3, <3>2, <3>4, <3>6 DEF InputStep
    <2>4. CASE \E i \in Inputs, junk \in Junk, d \in InDevices, s \in Sources :
                 in_set_parameters(i, d, s, junk)
        <3>1. PICK i, junk, d, s : /\ i \in Inputs /\ d \in InDevices /\ s \in Sources
                                   /\ in_set_parameters(i, d, s, junk)
            BY <2>4
        <3>2. x = RerouteInput(w, i, d, s, junk) /\ forced' = forced
            BY <1>1, <1>2, <3>1 DEF in_set_parameters
        <3> QED
            BY <1>3, <3>1, <3>2, InputRerouted
    <2>5. CASE \E i \in Inputs, junk \in Junk : add_remove_audio_effect(i, junk)
        <3>1. PICK i, junk : i \in Inputs /\ add_remove_audio_effect(i, junk)
            BY <2>5
        <3>2. PICK s : s = [w EXCEPT !.in[i].aec = ~@]
            OBVIOUS
        <3>3. /\ x = IF w.in[i].standby THEN s ELSE do_in_standby_l(SelectCapture(s, junk), i)
              /\ forced' = forced
            BY <1>1, <1>2, <3>1, <3>2, SMT DEF add_remove_audio_effect
        <3> QED
            BY <1>3, <3>1, <3>2, <3>3, EffectChanged
    <2> QED
        BY <2>1, <2>2, <2>3, <2>4, <2>5
<1>5. HalOk(x) /\ CallStep(w, x)
    BY <1>4, InputStepOk
<1> QED
    BY <1>1, <1>2, <1>4, <1>5 DEF HalInv

(* adev_set_mode, which ends a call when the mode is normal again.         *)
LEMMA SetModeStep ==
    ASSUME HalInv, NEW m, adev_set_mode(m)
    PROVE  HalInv' /\ CallStep(hal, hal')
<1>1. PICK w : w = hal
    OBVIOUS
<1>2. PICK x : x = hal'
    OBVIOUS
<1> DEFINE n == [w EXCEPT !.mode = m]
<1>3. HalOk(w) /\ DOMAIN w = HalFields
    BY <1>1 DEF HalInv, HalOk, Good, Half, Shape
<1>4. x = (IF m = "NORMAL" /\ w.in_call THEN stop_voice_call(n) ELSE n) /\ forced' = forced
    BY <1>1, <1>2 DEF adev_set_mode
<1>5. SameRoutes(w, n) /\ Keeps(w, n, {"mode", "bluetooth_wb", "wb_amr"})
    BY <1>3 DEF SameRoutes, Keeps, HalFields
<1> HIDE DEF n
<1>6. HalOk(n) /\ n.out = w.out /\ n.in_call = w.in_call
    BY <1>3, <1>5, SettingsChanged
<1>7. HalOk(x) /\ CallStep(w, x)
    <2>1. CASE x = n
        BY <1>6, <2>1 DEF CallStep
    <2>2. CASE x = stop_voice_call(n)
        <3>1. HalOk(x) /\ x.in_call = FALSE
            BY <1>6, <2>2, CallEnded
        <3> QED
            BY <3>1 DEF CallStep
    <2> QED
        BY <1>4, <2>1, <2>2
<1> QED
    BY <1>1, <1>2, <1>4, <1>7 DEF HalInv

(* adev_set_parameters.                                                    *)
LEMMA SetParametersStep ==
    ASSUME HalInv, adev_set_parameters
    PROVE  HalInv' /\ CallStep(hal, hal')
<1>1. PICK w : w = hal
    OBVIOUS
<1>2. PICK x : x = hal'
    OBVIOUS
<1>3. HalOk(w) /\ DOMAIN w = HalFields
    BY <1>1 DEF HalInv, HalOk, Good, Half, Shape
<1>4. x = [w EXCEPT !.bluetooth_wb = ~@] /\ forced' = forced
    BY <1>1, <1>2, SMT DEF adev_set_parameters
<1>5. SameRoutes(w, x) /\ Keeps(w, x, {"mode", "bluetooth_wb", "wb_amr"})
    BY <1>3, <1>4, SMT DEF SameRoutes, Keeps, HalFields
<1>6. HalOk(x) /\ x.out = w.out /\ x.in_call = w.in_call
    BY <1>3, <1>5, SettingsChanged
<1>7. CallStep(w, x)
    BY <1>6 DEF CallStep
<1> QED
    BY <1>1, <1>2, <1>4, <1>6, <1>7 DEF HalInv

(* The callback for the codec of the modem, which restarts a call.         *)
LEMMA WidebandStep ==
    ASSUME HalInv, NEW junk, voice_session_wb_amr_callback(junk)
    PROVE  HalInv' /\ CallStep(hal, hal')
<1>1. PICK w : w = hal
    OBVIOUS
<1>2. PICK x : x = hal'
    OBVIOUS
<1>3. HalOk(w) /\ DOMAIN w = HalFields
    BY <1>1 DEF HalInv, HalOk, Good, Half, Shape
<1>4. PICK n : n = [w EXCEPT !.wb_amr = ~@]
    OBVIOUS
<1>5. x = (IF w.in_call THEN start_voice_call(stop_voice_call(n), junk) ELSE n) /\ forced' = forced
    BY <1>1, <1>2, <1>4, SMT DEF voice_session_wb_amr_callback
<1>6. SameRoutes(w, n) /\ Keeps(w, n, {"mode", "bluetooth_wb", "wb_amr"})
    BY <1>3, <1>4, SMT DEF SameRoutes, Keeps, HalFields
<1>7. HalOk(n) /\ n.out = w.out /\ n.in_call = w.in_call
    BY <1>3, <1>6, SettingsChanged
<1>8. CASE ~w.in_call
    BY <1>1, <1>2, <1>5, <1>7, <1>8 DEF HalInv, CallStep
<1>9. CASE w.in_call
    <2>1. PICK e : e = stop_voice_call(n)
        OBVIOUS
    <2>2. x = start_voice_call(e, junk)
        BY <1>5, <1>9, <2>1
    <2>3. HalOk(e) /\ e.in_call = FALSE /\ e.out = w.out
        BY <1>7, <2>1, CallEnded
    <2>4. Good(x) /\ Keeps(e, x, StartFields) /\ ListedBut(e, x, "VOICE_CALL")
        BY <2>2, <2>3, CallStarted DEF HalOk
    <2>5. x.out = e.out /\ x.in = e.in
        BY <2>4 DEF Keeps, StartFields, CallFields, RoutingFields, HalFields
    <2>6. Linked(x)
        BY <2>3, <2>4, <2>5, StillLinked DEF HalOk, ListedBut
    <2>7. CallStep(w, x)
        BY <1>9, <2>3, <2>5 DEF CallStep
    <2> QED
        BY <1>1, <1>2, <1>5, <2>4, <2>6, <2>7 DEF HalInv, HalOk
<1> QED
    BY <1>8, <1>9

(* Every step keeps the invariant and does what CallFollowsPrimary says.   *)
LEMMA HalStep ==
    ASSUME OneInput, HalInv, [Next]_vars
    PROVE  HalInv' /\ (Next => CallStep(hal, hal'))
<1>1. ASSUME Next PROVE HalInv' /\ CallStep(hal, hal')
    <2>1. CASE \E junk \in Junk, opens \in BOOLEAN, o \in Outputs : out_write(o, opens, junk)
        BY <2>1, OutWriteStep
    <2>2. CASE \E junk \in Junk, opens \in BOOLEAN, o \in Outputs, d \in OutDevices :
                 out_set_parameters(o, d, opens, junk)
        BY <2>2, OutSetParametersStep
    <2>3. CASE \/ ForceInput
               \/ \E i \in Inputs : in_standby(i)
               \/ \E i \in Inputs, opens \in BOOLEAN, junk \in Junk : in_read(i, opens, junk)
               \/ \E i \in Inputs, junk \in Junk, d \in InDevices, s \in Sources :
                    in_set_parameters(i, d, s, junk)
               \/ \E i \in Inputs, junk \in Junk : add_remove_audio_effect(i, junk)
        BY <2>3, InputSteps
    <2>4. CASE \E junk \in Junk : voice_session_wb_amr_callback(junk)
        BY <2>4, WidebandStep
    <2>5. CASE \E o \in Outputs : out_standby(o)
        BY <2>5, OutStandbyStep
    <2>6. CASE \E m \in Modes : adev_set_mode(m)
        BY <2>6, SetModeStep
    <2>7. CASE adev_set_parameters
        BY <2>7, SetParametersStep
    <2> QED
        BY <1>1, <2>1, <2>2, <2>3, <2>4, <2>5, <2>6, <2>7 DEF Next
<1>2. CASE UNCHANGED vars
    <2>1. hal' = hal /\ forced' = forced
        BY <1>2 DEF vars
    <2>2. HalInv'
        BY <2>1 DEF HalInv
    <2>3. HalOk(hal)
        BY DEF HalInv
    <2> QED
        BY <1>1, <2>2
<1> QED
    BY <1>1, <1>2

-----------------------------------------------------------------------------
(* The theorems.                                                           *)

(* The invariant holds in every reachable state of the audio HAL with one  *)
(* input: usecases, reference counters, mixer paths, standby flags and the *)
(* call agree whenever adev->lock is free.                                 *)
THEOREM HalInvariant ==
    ASSUME OneInput
    PROVE  Spec => []HalInv
<1>1. HalInv /\ [Next]_vars => HalInv'
    BY HalStep
<1> QED
    BY <1>1, HalInitially, PTL DEF Spec

(* snd_dev_ref_cnt of every sound device is the number of usecases routed  *)
(* to it, for every set of outputs, every sets of devices they are routed  *)
(* to and every order of starts, failed opens, stops, reroutes, effects,   *)
(* calls and codec changes: enable_snd_device and disable_snd_device are   *)
(* always called in pairs.                                                 *)
THEOREM ReferencesCounted ==
    ASSUME OneInput
    PROVE  Spec => []RefCountsMatchUsers
<1>1. HalInv => RefCountsMatchUsers
    <2> SUFFICES ASSUME HalInv, NEW d \in SndDevices
                 PROVE  hal.snd_dev_ref_cnt[d] = Cardinality(Users(d))
        BY DEF RefCountsMatchUsers
    <2>1. Users(d) = UsersOf(Assigned(hal), d)
        BY DEF Users, UsersOf, Assigned, Slots
    <2> QED
        BY <2>1 DEF HalInv, HalOk, Good, Half, Matches, Sound, RefsAre
<1> QED
    BY <1>1, HalInvariant, PTL

(* The mixer paths that are applied are those of the sound devices in use, *)
(* if every set of devices an output is given meets a playback profile:    *)
(* resetting a path never silences another device that shares it, and the  *)
(* cycling in disable_snd_device applies no path that nobody uses.         *)
THEOREM PathsFollowReferences ==
    ASSUME OneInput, Covered
    PROVE  Spec => []PathsMatchRefs
<1>1. HalInv => PathsMatchRefs
    BY DEF HalInv, HalOk, Good, Half, Matches, Sound, PathsAre, HeldPaths, PathsMatchRefs, Held
<1> QED
    BY <1>1, HalInvariant, PTL

(* All playback is on one sound device, and on that of the call while      *)
(* there is one; the capture is on that of the call. For devices that      *)
(* get_output_snd_device knows, for which select_devices never routes a    *)
(* playback usecase to SND_DEVICE_NONE.                                    *)
THEOREM BackendShared ==
    ASSUME OneInput, Routable
    PROVE  Spec => []OneBackend
<1>1. HalInv => OneBackend
    <2> SUFFICES ASSUME HalInv, NEW k \in DOMAIN hal.uses, NEW l \in DOMAIN hal.uses
                 PROVE  /\ hal.uses[l].type = "PCM_PLAYBACK" /\ hal.uses[k].type = "PCM_PLAYBACK" =>
                             hal.uses[k].out = hal.uses[l].out
                        /\ hal.uses[l].type = "PCM_PLAYBACK" /\ hal.uses[k].type = "VOICE_CALL"
                             /\ hal.uses[k].out # None => hal.uses[k].out = hal.uses[l].out
                        /\ hal.uses[l].type = "PCM_CAPTURE" /\ hal.uses[k].type = "VOICE_CALL"
                             /\ hal.uses[k].in # None => hal.uses[k].in = hal.uses[l].in
        BY DEF OneBackend
    <2>1. Shape(hal) /\ Struct(hal) /\ CallIn(hal) /\ CallOut(hal) /\ Shared(hal)
        BY DEF HalInv, HalOk, Good, Half
    <2>2. ASSUME NEW j \in DOMAIN hal.uses
          PROVE  /\ hal.uses[j].type = "PCM_PLAYBACK" => hal.uses[j].id \in Outputs
                 /\ hal.uses[j].type = "PCM_CAPTURE" => hal.uses[j].id = "CAPTURE"
                 /\ hal.uses[j].type = "VOICE_CALL" => hal.uses[j].id = "VOICE_CALL"
        <3>1. hal.uses[j].id \in Ids
            BY <2>1, UseTyped
        <3> QED
            BY <2>1, <3>1 DEF Struct, Ids
    <2>3. k # 0 /\ l # 0
        BY <2>1 DEF Shape
    <2> QED
        BY <2>1, <2>2, <2>3 DEF CallIn, CallOut, CallOutBut, Shared, SharedBut
<1> QED
    BY <1>1, HalInvariant, PTL

(* A call that starts, or whose primary output gets other devices, is on   *)
(* those devices in all its parts when out_set_parameters returns, for     *)
(* devices that get_output_snd_device knows: for others the modem is not   *)
(* told.                                                                   *)
THEOREM CallOnPrimary ==
    ASSUME OneInput, Routable
    PROVE  Spec => CallFollowsPrimary
<1>1. HalInv /\ [Next]_vars =>
        [hal'.in_call /\ hal'.mode = "IN_CALL"
            /\ (hal'.out[Primary].devices # hal.out[Primary].devices \/ ~hal.in_call) =>
         CallFollows']_vars
    <2> SUFFICES ASSUME HalInv, [Next]_vars, ~UNCHANGED vars, hal'.in_call, hal'.mode = "IN_CALL",
                        hal'.out[Primary].devices # hal.out[Primary].devices \/ ~hal.in_call
                 PROVE  CallFollows'
        OBVIOUS
    <2>1. CallStep(hal, hal')
        BY HalStep
    <2>2. Follows(hal')
        BY <2>1 DEF CallStep
    <2> QED
        BY <2>2 DEF Follows, CallFollows
<1> QED
    BY <1>1, HalInvariant, PTL DEF Spec, CallFollowsPrimary

-----------------------------------------------------------------------------
(* The compress offload output.                                            *)

(* The types of the variables that the argument is about.                  *)
OffloadType ==
    /\ caller \in [Callers -> {"idle", "write", "pause", "resume", "drain", "flush", "standby",
                               "inputs", "again", "start", "data", "unroute", "route", "flushed",
                               "stop", "wait", "destroy", "join"}]
    /\ state \in {"IDLE", "PLAYING", "PAUSED", "PAUSED_FLUSHED"}
    /\ listed \in Nat /\ standby \in BOOLEAN /\ compr \in BOOLEAN /\ fx_lib \in BOOLEAN

(* Where a caller is, and what then holds of the stream, whatever went     *)
(* wrong before.                                                           *)
CallerAt(at) ==
    /\ at \in {"inputs", "again", "start", "destroy", "join", "wait"} => standby
    /\ at \in {"data", "unroute", "route", "stop"} => ~standby
    /\ at \in {"unroute", "route", "flushed"} => state = "PAUSED"
    /\ compr <=> ~standby \/ at = "wait"
    /\ fx_lib /\ standby /\ at # "wait" => state = "IDLE"
    /\ Happened("no_path") => at = "unroute" \/ (state = "PLAYING" /\ compr)
    /\ ~standby /\ at # "data" => state # "IDLE"
    /\ ~standby /\ at = "write" => state # "PAUSED"
    /\ ~standby /\ (state = "PLAYING" \/ (at = "data" /\ state # "PAUSED_FLUSHED")) =>
        listed > 0 \/ Happened("no_path")

(* The path and the DSP, as long as no standby has kept the state.         *)
PathAt(at) ==
    /\ standby /\ at # "wait" => state \in {"IDLE", "PAUSED"}
    /\ at \notin {"unroute", "wait", "data"} =>
        listed = (IF standby \/ Paused THEN 0 ELSE 1) \/ (Happened("no_path") /\ listed = 0)
    /\ at = "unroute" => listed = 1 \/ (Happened("no_path") /\ listed = 0)
    /\ at = "wait" => listed = (IF Paused THEN 0 ELSE 1) \/ (Happened("no_path") /\ listed = 0)
    /\ at = "data" => listed = (IF state = "PAUSED_FLUSHED" THEN 0 ELSE 1)
                      \/ (Happened("no_path") /\ listed = 0)
    /\ at # "wait" /\ state = "PLAYING" => dsp \in {"running", "drained"}
    /\ at \notin {"wait", "data", "flushed"} /\ ~standby /\ state = "PAUSED" =>
        dsp \in {"paused", "drained"}

OffloadInv ==
    /\ OffloadType
    /\ thread = "none" => standby /\ \A c \in Callers : caller[c] = "idle"
    /\ fx_lib => ~Happened("state_kept")
    /\ \A c \in Callers : CallerAt(caller[c]) /\ (~Happened("state_kept") => PathAt(caller[c]))

(* A stream that was never opened.                                         *)
LEMMA OffloadInitHolds == OffloadInit => OffloadInv
<1> SUFFICES ASSUME OffloadInit PROVE OffloadInv
    OBVIOUS
<1>1. standby /\ ~compr /\ standby \in BOOLEAN /\ compr \in BOOLEAN /\ fx_lib \in BOOLEAN
    BY Zenon DEF OffloadInit
<1> QED
    BY <1>1 DEF OffloadInit, OffloadInv, OffloadType, CallerAt, PathAt, Paused, Happened

(* One caller: what it does is what changes the path and the state.        *)
LEMMA OffloadBegins ==
    ASSUME NEW player, Callers = {player}, OffloadInv, Begin(player)
    PROVE  OffloadInv'
<1> USE DEF OffloadInv, OffloadType, Proceed, device, locks, queue
<1>1. CASE create_offload_callback_thread(player)
    <2>1. standby /\ caller[player] = "idle" /\ UNCHANGED <<caller, fx_lib, compr, dsp, listed, faults>>
        BY <1>1 DEF create_offload_callback_thread
    <2>2. standby' /\ standby' \in BOOLEAN
        BY <1>1, Zenon DEF create_offload_callback_thread
    <2>3. state' = "IDLE" /\ thread' = "loop"
        BY <1>1 DEF create_offload_callback_thread
    <2> QED
        BY <2>1, <2>2, <2>3 DEF CallerAt, PathAt, Paused, Happened
<1>2. CASE \E op \in Ops : Call(player, op)
    <2>1. PICK op \in Ops : Call(player, op)
        BY <1>2
    <2>2. /\ caller[player] = "idle" /\ thread # "none"
          /\ op = "write" => standby \/ state # "PAUSED"
          /\ caller' = [caller EXCEPT ![player] = IF op = "close" THEN "standby" ELSE op]
          /\ UNCHANGED <<fx_lib, standby, state, compr, dsp, listed, faults, thread>>
        BY <2>1 DEF Call
    <2>3. /\ caller'[player] \in {"write", "pause", "resume", "drain", "flush", "standby"}
          /\ caller'[player] = "write" => standby \/ state # "PAUSED"
        BY <2>2 DEF Ops
    <2>4. caller' \in [Callers -> {"idle", "write", "pause", "resume", "drain", "flush", "standby",
                               "inputs", "again", "start", "data", "unroute", "route", "flushed",
                               "stop", "wait", "destroy", "join"}]
        BY <2>2 DEF Ops
    <2> QED
        BY <2>2, <2>3, <2>4 DEF CallerAt, PathAt, Paused, Happened
<1> QED
    BY <1>1, <1>2 DEF Begin

LEMMA OffloadWrites ==
    ASSUME NEW player, Callers = {player}, OffloadInv, Write(player)
    PROVE  OffloadInv'
<1> USE DEF OffloadInv, OffloadType, Proceed, device, locks, queue
<1> USE DEF CallerAt, PathAt, Paused, Happened
<1>1. CASE out_write_compress(player)
    BY <1>1 DEF out_write_compress
<1>2. CASE LockInputs(player)
    BY <1>2 DEF LockInputs
<1>3. CASE WriteAgain(player)
    BY <1>3 DEF WriteAgain
<1>4. CASE WriteStarts(player)
    <2>1. caller[player] = "start" /\ standby /\ ~Happened("no_path")
        BY <1>4 DEF WriteStarts
    <2>2. ~standby' /\ standby' \in BOOLEAN /\ compr' /\ compr' \in BOOLEAN
        BY <1>4, Zenon DEF WriteStarts
    <2>3. /\ listed' = listed + 1 /\ dsp' = "open" /\ UNCHANGED <<fx_lib, state, thread>>
          /\ caller' = [caller EXCEPT ![player] = "data"]
        BY <1>4 DEF WriteStarts
    <2>4. \A f \in {"state_kept", "no_path"} : Happened(f)' <=> Happened(f)
        BY <1>4 DEF WriteStarts
    <2>5. ~Happened("state_kept") => state \in {"IDLE", "PAUSED"} /\ listed = 0
        BY <2>1
    <2>6. CallerAt("data")'
        BY <2>1, <2>2, <2>3, <2>4
    <2>7. ~Happened("state_kept")' => PathAt("data")'
        BY <2>1, <2>2, <2>3, <2>4, <2>5
    <2> QED
        BY <2>1, <2>2, <2>3, <2>4, <2>6, <2>7
<1>5. CASE StartFails(player)
    <2>1. caller[player] = "start" /\ standby
        BY <1>5 DEF StartFails
    <2>2. state' \in {state, "IDLE"} /\ (fx_lib => state' = "IDLE") /\ listed' = listed
        BY <1>5, <2>1 DEF StartFails
    <2>3. /\ caller' = [caller EXCEPT ![player] = "standby"]
          /\ UNCHANGED <<fx_lib, standby, compr, dsp, thread, faults>>
        BY <1>5 DEF StartFails
    <2>4. ~Happened("state_kept") => state' \in {"IDLE", "PAUSED"} /\ listed' = 0
        BY <2>1, <2>2
    <2> QED
        BY <2>1, <2>2, <2>3, <2>4
<1>6. CASE out_write_offload(player)
    <2>1. caller[player] = "data" /\ ~standby /\ compr
        BY <1>6 DEF out_write_offload
    <2>2. /\ listed' = IF state = "PAUSED_FLUSHED" THEN listed + 1 ELSE listed
          /\ state' = "PLAYING" /\ dsp' = IF state = "PLAYING" THEN dsp ELSE "running"
          /\ caller' = [caller EXCEPT ![player] = "idle"]
          /\ UNCHANGED <<fx_lib, standby, compr, thread, faults>>
        BY <1>6 DEF out_write_offload
    <2>3. listed' > 0 \/ Happened("no_path")
        BY <2>1, <2>2
    <2>4. Happened("no_path") => state = "PLAYING"
        BY <2>1
    <2>5. ~Happened("state_kept") =>
            /\ listed' = 1 \/ (Happened("no_path") /\ listed' = 0)
            /\ dsp' \in {"running", "drained"}
        BY <2>1, <2>2, <2>4
    <2>6. CallerAt("idle")'
        BY <2>1, <2>2, <2>3, <2>4
    <2>7. ~Happened("state_kept")' => PathAt("idle")'
        BY <2>1, <2>2, <2>5
    <2>8. OffloadType'
        BY <2>1, <2>2
    <2>9. caller'[player] = "idle" /\ thread' # "none"
        BY <2>1, <2>2
    <2>10. fx_lib' => ~Happened("state_kept")'
        BY <2>2
    <2> HIDE DEF CallerAt, PathAt, OffloadType, Happened
    <2> QED
        BY <2>6, <2>7, <2>8, <2>9, <2>10
<1>7. CASE WriteNotRouted(player)
    <2>1. /\ caller[player] = "data" /\ state = "PAUSED_FLUSHED"
          /\ caller' = [caller EXCEPT ![player] = "idle"]
          /\ UNCHANGED <<fx_lib, state, standby, compr, dsp, listed, thread>>
        BY <1>7 DEF WriteNotRouted
    <2>2. \A f \in {"state_kept", "no_path"} : Happened(f)' <=> Happened(f)
        BY <1>7 DEF WriteNotRouted
    <2> QED
        BY <2>1, <2>2
<1> QED
    BY <1>1, <1>2, <1>3, <1>4, <1>5, <1>6, <1>7 DEF Write

LEMMA OffloadControlled ==
    ASSUME NEW player, Callers = {player}, OffloadInv, Control(player)
    PROVE  OffloadInv'
<1> USE DEF OffloadInv, OffloadType, Proceed, device, locks, queue
<1> USE DEF CallerAt, PathAt, Paused, Happened
<1>1. CASE out_pause_offload(player)
    <2>1. CASE compr /\ state = "PLAYING"
        BY <1>1, <2>1 DEF out_pause_offload
    <2>2. CASE ~(compr /\ state = "PLAYING")
        BY <1>1, <2>2 DEF out_pause_offload
    <2> QED
        BY <2>1, <2>2
<1>2. CASE PauseUnroutes(player)
    <2>1. /\ caller[player] = "unroute" /\ state = "PAUSED" /\ ~standby /\ compr
          /\ caller' = [caller EXCEPT ![player] = "idle"] /\ listed' = PathDisabled
          /\ UNCHANGED <<fx_lib, state, standby, compr, dsp, thread>>
        BY <1>2 DEF PauseUnroutes
    <2>2. ~Happened("no_path")' /\ (Happened("state_kept")' <=> Happened("state_kept"))
        BY <1>2 DEF PauseUnroutes
    <2>3. listed' \in Nat /\ (listed \in {0, 1} => listed' = 0)
        BY <2>1 DEF PathDisabled
    <2> QED
        BY <2>1, <2>2, <2>3
<1>3. CASE out_resume_offload(player)
    <2>1. CASE compr /\ state = "PAUSED"
        BY <1>3, <2>1 DEF out_resume_offload
    <2>2. CASE ~(compr /\ state = "PAUSED")
        BY <1>3, <2>2 DEF out_resume_offload
    <2> QED
        BY <2>1, <2>2
<1>4. CASE ResumeRoutes(player)
    <2>1. /\ caller[player] = "route" /\ state = "PAUSED" /\ ~standby /\ compr
          /\ ~Happened("no_path")
          /\ caller' = [caller EXCEPT ![player] = "idle"]
          /\ state' = "PLAYING" /\ dsp' = IF dsp = "paused" THEN "running" ELSE dsp
          /\ UNCHANGED <<fx_lib, standby, compr, thread>>
        BY <1>4 DEF ResumeRoutes
    <2>2. \/ listed' = listed + 1 /\ ~Happened("no_path")'
          \/ listed' = listed /\ Happened("no_path")'
        BY <1>4, <2>1 DEF ResumeRoutes
    <2>3. Happened("state_kept")' <=> Happened("state_kept")
        BY <1>4 DEF ResumeRoutes
    <2>4. ~Happened("state_kept") => listed = 0 /\ dsp \in {"paused", "drained"}
        BY <2>1
    <2>5. CallerAt("idle")'
        BY <2>1, <2>2
    <2>6. ~Happened("state_kept")' => PathAt("idle")'
        BY <2>1, <2>2, <2>3, <2>4
    <2>7. OffloadType'
        BY <2>1, <2>2
    <2>8. caller'[player] = "idle" /\ thread' # "none"
        BY <2>1
    <2>9. fx_lib' => ~Happened("state_kept")'
        BY <2>1, <2>3
    <2> HIDE DEF CallerAt, PathAt, OffloadType, Happened
    <2> QED
        BY <2>5, <2>6, <2>7, <2>8, <2>9
<1>5. CASE out_drain_offload(player)
    BY <1>5 DEF out_drain_offload
<1>6. CASE out_flush_offload(player)
    <2>1. CASE state = "PAUSED"
        <3>1. /\ caller[player] = "flush" /\ caller' = [caller EXCEPT ![player] = "flushed"]
              /\ UNCHANGED <<fx_lib, state, standby, compr, listed, thread, faults>>
            BY <1>6, <2>1 DEF out_flush_offload
        <3> QED
            BY <2>1, <3>1
    <2>2. CASE state # "PAUSED"
        BY <1>6, <2>2 DEF out_flush_offload
    <2> QED
        BY <2>1, <2>2
<1>7. CASE FlushEnds(player)
    <2>1. /\ caller[player] = "flushed" /\ state = "PAUSED" /\ state' = "PAUSED_FLUSHED"
          /\ caller' = [caller EXCEPT ![player] = "idle"]
          /\ UNCHANGED <<fx_lib, standby, compr, listed, dsp, thread>>
        BY <1>7 DEF FlushEnds
    <2>2. /\ Happened("no_path")' <=> Happened("no_path")
          /\ Happened("state_kept")' <=> standby \/ Happened("state_kept")
        BY <1>7 DEF FlushEnds, Kept
    <2> QED
        BY <2>1, <2>2
<1> QED
    BY <1>1, <1>2, <1>3, <1>4, <1>5, <1>6, <1>7 DEF Control

LEMMA OffloadStops ==
    ASSUME NEW player, Callers = {player}, OffloadInv, Stop(player)
    PROVE  OffloadInv'
<1> USE DEF OffloadInv, OffloadType, Proceed, device, locks, queue
<1> USE DEF CallerAt, PathAt, Paused, Happened
<1>1. CASE out_standby_compress(player)
    <2>1. AfterStandby \in {"idle", "destroy"}
        BY DEF AfterStandby
    <2>2. /\ caller[player] = "standby"
          /\ UNCHANGED <<fx_lib, state, standby, compr, listed, dsp, thread, faults>>
          /\ caller' = [caller EXCEPT ![player] = IF standby THEN AfterStandby ELSE "stop"]
        BY <1>1 DEF out_standby_compress
    <2> QED
        BY <2>1, <2>2
<1>2. CASE do_out_standby_l_compress(player)
    <2>1. /\ caller[player] = "stop" /\ ~standby /\ compr
          /\ caller' = [caller EXCEPT ![player] = "wait"]
          /\ UNCHANGED <<fx_lib, state, compr, listed, thread, faults>>
        BY <1>2 DEF do_out_standby_l_compress
    <2>2. standby' /\ standby' \in BOOLEAN
        BY <1>2, Zenon DEF do_out_standby_l_compress
    <2> QED
        BY <2>1, <2>2
<1>3. CASE stop_output_offload_stream(player)
    <2>1. AfterStandby \in {"idle", "destroy"}
        BY DEF AfterStandby
    <2>2. /\ caller[player] = "wait" /\ standby
          /\ caller' = [caller EXCEPT ![player] = AfterStandby]
          /\ dsp' = "stopped" /\ UNCHANGED <<fx_lib, standby, thread>>
        BY <1>3 DEF stop_output_offload_stream
    <2>3. ~compr' /\ compr' \in BOOLEAN
        BY <1>3, Zenon DEF stop_output_offload_stream
    <2>4. PathDisabled \in Nat /\ (listed \in {0, 1} => PathDisabled = 0)
        BY DEF PathDisabled
    <2>5. ~Happened("no_path")'
        BY <1>3 DEF stop_output_offload_stream, Kept
    <2>6. listed' \in Nat /\ (~Happened("state_kept") => listed' = 0)
        BY <1>3, <2>2, <2>4 DEF stop_output_offload_stream
    <2>7. CASE fx_lib
        <3>1. state' = "IDLE" /\ ~Happened("state_kept")'
            BY <1>3, <2>7 DEF stop_output_offload_stream
        <3> QED
            BY <2>1, <2>2, <2>3, <2>5, <2>6, <2>7, <3>1
    <2>8. CASE ~fx_lib
        <3>1. state' = state /\ (~Happened("state_kept")' => ~Happened("state_kept"))
            BY <1>3, <2>8 DEF stop_output_offload_stream
        <3>2. ~Happened("state_kept")' => state \in {"IDLE", "PAUSED"}
            BY <1>3, <2>8 DEF stop_output_offload_stream, Kept
        <3> QED
            BY <2>1, <2>2, <2>3, <2>5, <2>6, <2>8, <3>1, <3>2
    <2> QED
        BY <2>7, <2>8
<1>4. CASE destroy_offload_callback_thread(player)
    BY <1>4 DEF destroy_offload_callback_thread
<1>5. CASE Joined(player)
    BY <1>5 DEF Joined
<1> QED
    BY <1>1, <1>2, <1>3, <1>4, <1>5 DEF Stop

LEMMA OffloadStep ==
    ASSUME NEW player, Callers = {player}, OffloadInv, [OffloadNext]_offloadVars
    PROVE  OffloadInv'
<1>1. CASE UNCHANGED offloadVars
    BY <1>1 DEF offloadVars, device, locks, queue, OffloadInv, OffloadType, CallerAt, PathAt, Paused, Happened
<1>2. CASE Offload
    <2>1. /\ UNCHANGED <<caller, fx_lib, state, standby, compr, listed, faults>>
          /\ thread # "none" /\ thread' # "none"
          /\ dsp' = dsp \/ (dsp = "running" /\ dsp' = "drained")
        BY <1>2 DEF Offload, NextCommand, DriverReturns, CallBack, device, locks, queue
    <2> QED
        BY <2>1 DEF OffloadInv, OffloadType, CallerAt, PathAt, Paused, Happened
<1>3. CASE Begin(player)
    BY <1>3, OffloadBegins
<1>4. CASE Continue(player)
    BY <1>4, OffloadWrites, OffloadControlled, OffloadStops DEF Continue
<1> QED
    BY <1>1, <1>2, <1>3, <1>4 DEF OffloadNext

(* Between two calls of the one thread that plays, with any number of      *)
(* queued commands, wherever the offload thread is in the driver, with and *)
(* without the effects library: the output path of the compress offload    *)
(* stream is enabled exactly when the stream is neither in standby nor     *)
(* paused, and a stream whose state is PLAYING has its DSP running or at   *)
(* the end of a full drain, until a standby without the library keeps the  *)
(* state; from then on a playing stream still has its path.  A resume that *)
(* does not enable the path is excepted until the next pause or standby.   *)
THEOREM PathFollows ==
    ASSUME NEW player, Callers = {player}
    PROVE  OffloadSpec => []PathFollowsState
<1>1. OffloadInit => OffloadInv
    BY OffloadInitHolds
<1>2. OffloadInv /\ [OffloadNext]_offloadVars => OffloadInv'
    BY OffloadStep
<1>3. OffloadInv => PathFollowsState
    <2> SUFFICES ASSUME OffloadInv, caller[player] = "idle" PROVE PathFollowsState
        BY DEF PathFollowsState
    <2>1. CallerAt("idle") /\ (~Happened("state_kept") => PathAt("idle"))
        BY DEF OffloadInv
    <2> QED
        BY <2>1 DEF OffloadInv, OffloadType, PathFollowsState, CallerAt, PathAt, Paused, Happened
<1> QED
    BY <1>1, <1>2, <1>3, PTL DEF OffloadSpec
=============================================================================
