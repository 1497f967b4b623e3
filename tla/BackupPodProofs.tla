---------------------------- MODULE BackupPodProofs ----------------------------
(***************************************************************************)
(* Theorems about BackupPod, for whatever specifications the users write.  *)
(***************************************************************************)
EXTENDS BackupPod, TLAPS

(* The builders *)

(* An entry that is there for a path is a pair, the others are not. *)
LEMMA PathsArePairs ==
    ASSUME NEW s, NEW at \in ClaimPaths(s)
    PROVE  /\ at = <<at[1], at[2]>>
           /\ \A v : at # <<v>>
<1>1. PICK t \in DOMAIN s.targets : at \in {t} \X DOMAIN s.targets[t].paths
    BY DEF ClaimPaths
<1>2. at = <<at[1], at[2]>>
    BY <1>1
<1>3. ASSUME NEW v PROVE at # <<v>>
    BY <1>2
<1> QED BY <1>2, <1>3

(* Both controllers make a pod's volumes of a few of their own and of the  *)
(* claims, and count the claims alike.                                     *)
VolumesOf(s, own) ==
    [e \in {<<v>> : v \in own} \cup ClaimPaths(s) |->
        IF e \in ClaimPaths(s) THEN PathAt(s, e).pvc ELSE e[1]]

LEMMA OlderClaims ==
    ASSUME NEW s
    PROVE  /\ Older!ClaimPaths(s) = ClaimPaths(s)
           /\ \A at : Older!ClaimAt(s, at) = PathAt(s, at).pvc
BY DEF Older!ClaimPaths, Older!ClaimAt, ClaimPaths, PathAt

LEMMA BuiltAlike ==
    ASSUME NEW s
    PROVE  /\ buildVolumes(s) = VolumesOf(s, OwnVolumes \cup StorageVolumes(s))
           /\ Older!buildVolumes(s) = VolumesOf(s, Older!OwnVolumes(s))
<1>1. buildVolumes(s) = VolumesOf(s, OwnVolumes \cup StorageVolumes(s))
    BY DEF buildVolumes, VolumesOf
<1>2. Older!buildVolumes(s) = VolumesOf(s, Older!OwnVolumes(s))
    BY OlderClaims DEF Older!buildVolumes, VolumesOf
<1> QED BY <1>1, <1>2

(* The volumes of a pod, without the reasons they are for. *)
LEMMA VolumesBuilt ==
    ASSUME NEW s, NEW own
    PROVE  /\ DOMAIN VolumesOf(s, own) = {<<v>> : v \in own} \cup ClaimPaths(s)
           /\ \A v \in own : VolumesOf(s, own)[<<v>>] = v
           /\ \A at \in ClaimPaths(s) : VolumesOf(s, own)[at] = PathAt(s, at).pvc
           /\ Range(VolumesOf(s, own)) = own \cup Claims(s)
<1> DEFINE D == {<<v>> : v \in own} \cup ClaimPaths(s)
           V == VolumesOf(s, own)
<1>1. V = [e \in D |-> IF e \in ClaimPaths(s) THEN PathAt(s, e).pvc ELSE e[1]]
    BY DEF VolumesOf
<1>2. \A v \in own : <<v>> \in D /\ <<v>> \notin ClaimPaths(s)
    BY PathsArePairs
<1> HIDE DEF V
<1>3. DOMAIN V = D
    BY <1>1
<1>4. \A v \in own : V[<<v>>] = v
    BY <1>1, <1>2
<1>5. \A at \in ClaimPaths(s) : V[at] = PathAt(s, at).pvc
    BY <1>1
<1>6. Range(V) = own \cup Claims(s)
    <2>1. ASSUME NEW v \in own PROVE v \in Range(V)
        BY <1>3, <1>4 DEF Range
    <2>2. ASSUME NEW at \in ClaimPaths(s) PROVE PathAt(s, at).pvc \in Range(V)
        BY <1>3, <1>5 DEF Range
    <2>3. ASSUME NEW e \in D PROVE V[e] \in own \cup Claims(s)
        BY <1>4, <1>5 DEF Claims
    <2> QED BY <1>3, <2>1, <2>2, <2>3 DEF Range, Claims
<1> QED BY <1>3, <1>4, <1>5, <1>6 DEF V

LEMMA MountsBuilt ==
    ASSUME NEW s
    PROVE  /\ DOMAIN buildVolumeMounts(s) =
                  {<<v>> : v \in OwnVolumes \cup StorageVolumes(s)} \cup ClaimPaths(s)
           /\ \A v \in OwnVolumes \cup StorageVolumes(s) :
                  /\ buildVolumeMounts(s)[<<v>>].volume = v
                  /\ buildVolumeMounts(s)[<<v>>].path = MountPath(v)
           /\ \A at \in ClaimPaths(s) :
                  /\ buildVolumeMounts(s)[at].volume = PathAt(s, at).pvc
                  /\ buildVolumeMounts(s)[at].path = PathAt(s, at).path
<1> DEFINE own == OwnVolumes \cup StorageVolumes(s)
           D == {<<v>> : v \in own} \cup ClaimPaths(s)
           M == buildVolumeMounts(s)
<1>1. M = [e \in D |-> IF e \in ClaimPaths(s)
                       THEN [volume |-> PathAt(s, e).pvc, path |-> PathAt(s, e).path]
                       ELSE [volume |-> e[1], path |-> MountPath(e[1])]]
    BY DEF buildVolumeMounts, Mounts
<1>2. \A v \in own : <<v>> \in D /\ <<v>> \notin ClaimPaths(s)
    BY PathsArePairs
<1> HIDE DEF own, M
<1>3. DOMAIN M = D
    BY <1>1
<1>4. ASSUME NEW v \in own
      PROVE  M[<<v>>].volume = v /\ M[<<v>>].path = MountPath(v)
    <2>1. M[<<v>>] = [volume |-> v, path |-> MountPath(v)]
        BY <1>1, <1>2
    <2> QED BY <2>1
<1>5. ASSUME NEW at \in ClaimPaths(s)
      PROVE  M[at].volume = PathAt(s, at).pvc /\ M[at].path = PathAt(s, at).path
    <2>1. M[at] = [volume |-> PathAt(s, at).pvc, path |-> PathAt(s, at).path]
        BY <1>1
    <2> QED BY <2>1
<1> QED BY <1>3, <1>4, <1>5 DEF own, M

(* The older controller mounts its claims by place, and no Secret. *)
LEMMA OlderMountsBuilt ==
    ASSUME NEW s
    PROVE  /\ DOMAIN Older!buildVolumeMounts(s) = {<<"backup-data">>, <<"temp">>} \cup ClaimPaths(s)
           /\ \A v \in {"backup-data", "temp"} :
                  /\ Older!buildVolumeMounts(s)[<<v>>].volume = v
                  /\ Older!buildVolumeMounts(s)[<<v>>].path =
                         <<IF v = "temp" THEN "/tmp" ELSE "/backup/data">>
           /\ \A at \in ClaimPaths(s) :
                  /\ Older!buildVolumeMounts(s)[at].volume = PathAt(s, at).pvc
                  /\ Older!buildVolumeMounts(s)[at].path = <<"/mnt/pvc", at[2] - 1>>
<1> DEFINE D == {<<"backup-data">>, <<"temp">>} \cup ClaimPaths(s)
           M == Older!buildVolumeMounts(s)
<1>1. M = [e \in D |-> IF e \in ClaimPaths(s)
                       THEN [volume |-> PathAt(s, e).pvc, path |-> <<"/mnt/pvc", e[2] - 1>>]
                       ELSE [volume |-> e[1],
                             path |-> <<IF e[1] = "temp" THEN "/tmp" ELSE "/backup/data">>]]
    BY OlderClaims DEF Older!buildVolumeMounts
<1>2. \A v \in {"backup-data", "temp"} : <<v>> \in D /\ <<v>> \notin ClaimPaths(s)
    BY PathsArePairs
<1> HIDE DEF M
<1>3. DOMAIN M = D
    BY <1>1
<1>4. ASSUME NEW v \in {"backup-data", "temp"}
      PROVE  /\ M[<<v>>].volume = v
             /\ M[<<v>>].path = <<IF v = "temp" THEN "/tmp" ELSE "/backup/data">>
    <2>1. M[<<v>>] = [volume |-> v, path |-> <<IF v = "temp" THEN "/tmp" ELSE "/backup/data">>]
        BY <1>1, <1>2
    <2> QED BY <2>1
<1>5. ASSUME NEW at \in ClaimPaths(s)
      PROVE  M[at].volume = PathAt(s, at).pvc /\ M[at].path = <<"/mnt/pvc", at[2] - 1>>
    <2>1. M[at] = [volume |-> PathAt(s, at).pvc, path |-> <<"/mnt/pvc", at[2] - 1>>]
        BY <1>1
    <2> QED BY <2>1
<1> QED BY <1>3, <1>4, <1>5 DEF M

LEMMA InternalBacked ==
    ASSUME NEW s PROVE Backed(InternalPod(s))
<1> DEFINE own == OwnVolumes \cup StorageVolumes(s)
           M == buildVolumeMounts(s)
<1>1. Range(buildVolumes(s)) = own \cup Claims(s)
    BY BuiltAlike, VolumesBuilt
<1>2. ASSUME NEW e \in DOMAIN M PROVE M[e].volume \in own \cup Claims(s)
    <2>1. CASE e \in ClaimPaths(s)
        BY <2>1, MountsBuilt DEF Claims
    <2>2. ASSUME NEW v \in own, e = <<v>> PROVE M[e].volume \in own
        BY <2>2, MountsBuilt
    <2>3. e \in {<<v>> : v \in own} \cup ClaimPaths(s)
        BY MountsBuilt
    <2> HIDE DEF M, own
    <2> QED BY <2>1, <2>2, <2>3
<1> QED BY <1>1, <1>2 DEF Backed, Range, InternalPod

LEMMA OlderBacked ==
    ASSUME NEW s PROVE Backed(Older!PodOf(s))
<1> DEFINE own == Older!OwnVolumes(s)
           M == Older!buildVolumeMounts(s)
<1>1. Range(Older!buildVolumes(s)) = own \cup Claims(s)
    BY BuiltAlike, VolumesBuilt
<1>2. ASSUME NEW e \in DOMAIN M PROVE M[e].volume \in own \cup Claims(s)
    <2>1. CASE e \in ClaimPaths(s)
        BY <2>1, OlderMountsBuilt DEF Claims
    <2>2. ASSUME NEW v \in {"backup-data", "temp"}, e = <<v>> PROVE M[e].volume \in own
        BY <2>2, OlderMountsBuilt DEF Older!OwnVolumes
    <2> QED BY <1>2, <2>1, <2>2, OlderMountsBuilt
<1>3. Older!PodOf(s).mounts = M /\ Older!PodOf(s).volumes = Older!buildVolumes(s)
    BY DEF Older!PodOf
<1> HIDE DEF M
<1> QED BY <1>1, <1>2, <1>3 DEF Backed, Range

(* Volumes and mounts agree for whatever the users write, in either        *)
(* controller's pod.                                                       *)
THEOREM MountsAlwaysBacked ==
    Spec => []MountsBacked
<1>1. MountsBacked
    BY InternalBacked, OlderBacked DEF MountsBacked, PodOf
<1> QED BY <1>1, PTL

-----------------------------------------------------------------------------
(* WHICH PODS ARE ACCEPTED *)

LEMMA VolumesAccepted ==
    ASSUME NEW s \in Specs, NEW own, own \subseteq FixedVolumes
    PROVE  /\ IsInjective(VolumesOf(s, own)) <=> ClaimsOnce(s)
           /\ Range(VolumesOf(s, own)) \cap NoLabel = {} <=> Claims(s) \cap NoLabel = {}
<1> DEFINE V == VolumesOf(s, own)
<1>1. ASSUME NEW v \in own, NEW at \in ClaimPaths(s) PROVE V[<<v>>] # V[at]
    <2>1. V[<<v>>] = v /\ V[at] = PathAt(s, at).pvc
        BY VolumesBuilt
    <2>2. PathAt(s, at).pvc \notin FixedVolumes
        BY ClaimAssumption
    <2> QED BY <2>1, <2>2
<1>2. ASSUME NEW v \in own, NEW w \in own, V[<<v>>] = V[<<w>>] PROVE v = w
    <2>1. \A x \in own : V[<<x>>] = x
        BY VolumesBuilt
    <2> HIDE DEF V
    <2> QED BY <1>2, <2>1
<1>3. ASSUME NEW a \in ClaimPaths(s), NEW b \in ClaimPaths(s)
      PROVE  V[a] = V[b] <=> PathAt(s, a).pvc = PathAt(s, b).pvc
    <2>1. \A at \in ClaimPaths(s) : V[at] = PathAt(s, at).pvc
        BY VolumesBuilt
    <2> HIDE DEF V
    <2> QED BY <2>1
<1>4. /\ DOMAIN V = {<<v>> : v \in own} \cup ClaimPaths(s)
      /\ Range(V) = own \cup Claims(s)
    BY VolumesBuilt
<1>5. Range(V) \cap NoLabel = {} <=> Claims(s) \cap NoLabel = {}
    BY <1>4, ClaimAssumption
<1> HIDE DEF V
<1>6. ASSUME ClaimsOnce(s), NEW d \in DOMAIN V, NEW e \in DOMAIN V, V[d] = V[e]
      PROVE  d = e
    BY <1>1, <1>2, <1>3, <1>4, <1>6 DEF ClaimsOnce
<1>7. ASSUME IsInjective(V) PROVE ClaimsOnce(s)
    BY <1>3, <1>4, <1>7 DEF IsInjective, ClaimsOnce
<1> QED BY <1>5, <1>6, <1>7 DEF IsInjective, V

LEMMA PathsAccepted ==
    ASSUME NEW s
    PROVE  IsInjective([e \in DOMAIN buildVolumeMounts(s) |-> buildVolumeMounts(s)[e].path])
               <=> PathsFit(s)
<1> DEFINE own == OwnVolumes \cup StorageVolumes(s)
           P == [e \in DOMAIN buildVolumeMounts(s) |-> buildVolumeMounts(s)[e].path]
<1>1. DOMAIN P = {<<v>> : v \in own} \cup ClaimPaths(s)
    BY MountsBuilt
<1>2. ASSUME NEW v \in own PROVE P[<<v>>] = MountPath(v)
    BY <1>1, MountsBuilt
<1>3. ASSUME NEW a \in ClaimPaths(s) PROVE P[a] = PathAt(s, a).path
    BY <1>1, MountsBuilt
<1>4. ASSUME NEW v \in own, NEW w \in own, MountPath(v) = MountPath(w) PROVE v = w
    BY <1>4 DEF StorageVolumes, OwnVolumes, MountPath, BackupData, Temp, Config, NFSStorage, TmpPath
<1>5. PathsFit(s) <=>
          /\ \A a, b \in ClaimPaths(s) : PathAt(s, a).path = PathAt(s, b).path => a = b
          /\ \A a \in ClaimPaths(s), v \in own : PathAt(s, a).path # MountPath(v)
    BY DEF PathsFit
<1> HIDE DEF P, own
<1>6. ASSUME PathsFit(s), NEW d \in DOMAIN P, NEW e \in DOMAIN P, P[d] = P[e]
      PROVE  d = e
    BY <1>1, <1>2, <1>3, <1>4, <1>5, <1>6
<1>7. ASSUME IsInjective(P) PROVE PathsFit(s)
    <2>1. ASSUME NEW a \in ClaimPaths(s), NEW v \in own, PathAt(s, a).path = MountPath(v)
          PROVE  FALSE
        <3>1. a # <<v>>
            BY PathsArePairs
        <3> QED BY <1>1, <1>2, <1>3, <1>7, <2>1, <3>1 DEF IsInjective
    <2>2. ASSUME NEW a \in ClaimPaths(s), NEW b \in ClaimPaths(s),
                 PathAt(s, a).path = PathAt(s, b).path
          PROVE  a = b
        BY <1>1, <1>3, <1>7, <2>2 DEF IsInjective
    <2> QED BY <2>1, <2>2, <1>5
<1> QED BY <1>6, <1>7 DEF IsInjective, P

LEMMA PlacesAccepted ==
    ASSUME NEW s \in Specs
    PROVE  IsInjective([e \in DOMAIN Older!buildVolumeMounts(s) |->
                            Older!buildVolumeMounts(s)[e].path])
               <=> PlacesFit(s)
<1> DEFINE own == {"backup-data", "temp"}
           P == [e \in DOMAIN Older!buildVolumeMounts(s) |-> Older!buildVolumeMounts(s)[e].path]
<1>1. DOMAIN P = {<<v>> : v \in own} \cup ClaimPaths(s)
    BY OlderMountsBuilt
<1>2. ASSUME NEW v \in own PROVE P[<<v>>] = <<IF v = "temp" THEN "/tmp" ELSE "/backup/data">>
    BY <1>1, OlderMountsBuilt
<1>3. ASSUME NEW a \in ClaimPaths(s) PROVE P[a] = <<"/mnt/pvc", a[2] - 1>> /\ a[2] \in Int
    <2>1. a[2] \in Nat
        BY PodAssumption DEF ClaimPaths
    <2>2. Older!buildVolumeMounts(s)[a].path = <<"/mnt/pvc", a[2] - 1>>
        BY OlderMountsBuilt
    <2>3. P[a] = Older!buildVolumeMounts(s)[a].path
        BY <1>1
    <2> HIDE DEF P
    <2> QED BY <2>1, <2>2, <2>3
<1> HIDE DEF P
<1>4. ASSUME NEW a \in ClaimPaths(s), NEW b \in ClaimPaths(s)
      PROVE  P[a] = P[b] <=> a[2] = b[2]
    BY <1>3
<1>5. ASSUME NEW a \in ClaimPaths(s), NEW v \in own PROVE P[a] # P[<<v>>]
    BY <1>2, <1>3
<1>6. ASSUME NEW v \in own, NEW w \in own, P[<<v>>] = P[<<w>>] PROVE v = w
    BY <1>2, <1>6
<1>7. ASSUME PlacesFit(s), NEW d \in DOMAIN P, NEW e \in DOMAIN P, P[d] = P[e]
      PROVE  d = e
    <2> HIDE DEF own
    <2> QED BY <1>1, <1>4, <1>5, <1>6, <1>7 DEF PlacesFit
<1>8. ASSUME IsInjective(P) PROVE PlacesFit(s)
    BY <1>1, <1>4, <1>8 DEF IsInjective, PlacesFit
<1> QED BY <1>7, <1>8 DEF IsInjective, P

(* The containers are distinct, and the builder returns, when there is one *)
(* database of each kind that has a client, with a port.                   *)
LEMMA ContainersAccepted ==
    ASSUME NEW s
    PROVE  ~Older!Panics(s) /\ IsInjective(Older!buildContainers(s)) <=> DatabasesFit(s)
<1> DEFINE W == Older!WithClient(s)
           kind(t) == s.targets[t].database.type
           C == Older!buildContainers(s)
<1>1. DOMAIN Older!Client = {"mysql", "postgresql"}
    BY DEF Older!Client
<1>2. W = {t \in DOMAIN s.targets : /\ s.targets[t].database # None
                                    /\ kind(t) \in {"mysql", "postgresql"}}
    BY <1>1 DEF Older!WithClient
<1>3. DatabasesFit(s) <=> \A t, u \in W : s.targets[t].database.port # None
                                          /\ (kind(t) = kind(u) => t = u)
    BY <1>2 DEF DatabasesFit
<1>4. ~Older!Panics(s) <=> \A t \in W : s.targets[t].database.port # None
    BY DEF Older!Panics
<1>5. C = [e \in {<<"backup">>} \cup {<<"client", t>> : t \in W} |->
              IF e = <<"backup">> THEN "backup" ELSE Older!Client[kind(e[2])]]
    BY DEF Older!buildContainers
<1>6. /\ Older!Client["mysql"] = "mysql-client"
      /\ Older!Client["postgresql"] = "postgres-client"
    BY DEF Older!Client
<1>7. \A t \in W : kind(t) \in {"mysql", "postgresql"}
    BY <1>2
<1> HIDE DEF W, kind, C
<1>8. DOMAIN C = {<<"backup">>} \cup {<<"client", t>> : t \in W} /\ C[<<"backup">>] = "backup"
    BY <1>5
<1>9. ASSUME NEW t \in W
      PROVE  C[<<"client", t>>] = Older!Client[kind(t)] /\ C[<<"client", t>>] # "backup"
    <2>1. <<"client", t>> # <<"backup">>
        OBVIOUS
    <2>2. C[<<"client", t>>] = Older!Client[kind(t)]
        BY <1>5, <2>1
    <2> QED BY <1>6, <1>7, <2>2
<1>10. ASSUME NEW t \in W, NEW u \in W
       PROVE  C[<<"client", t>>] = C[<<"client", u>>] <=> kind(t) = kind(u)
    BY <1>6, <1>7, <1>9
<1>11. ASSUME IsInjective(C), NEW t \in W, NEW u \in W, kind(t) = kind(u) PROVE t = u
    <2>1. <<"client", t>> \in DOMAIN C /\ <<"client", u>> \in DOMAIN C
        BY <1>8
    <2>2. C[<<"client", t>>] = C[<<"client", u>>]
        BY <1>10, <1>11
    <2>3. <<"client", t>> = <<"client", u>>
        BY <1>11, <2>1, <2>2 DEF IsInjective
    <2> QED BY <2>3
<1>12. ASSUME \A t, u \in W : kind(t) = kind(u) => t = u,
              NEW d \in DOMAIN C, NEW e \in DOMAIN C, C[d] = C[e]
       PROVE  d = e
    BY <1>8, <1>9, <1>10, <1>12
<1> QED BY <1>3, <1>4, <1>11, <1>12 DEF IsInjective, C

(* What a template brings to the pod: init containers whose mounts must    *)
(* find a volume, and the restart policy.                                  *)
LEMMA TemplateAccepted ==
    ASSUME NEW s, NEW own
    PROVE  /\ InitMounts(s) \subseteq own \cup Claims(s)
              /\ RestartPolicy(s) \in {"OnFailure", "Never"} <=> TemplateFits(s, own)
           /\ Older!InitMounts(s) = InitMounts(s) /\ Older!RestartPolicy(s) = RestartPolicy(s)
<1>1. Older!InitMounts(s) = InitMounts(s) /\ Older!RestartPolicy(s) = RestartPolicy(s)
    BY DEF Older!InitMounts, Older!RestartPolicy, InitMounts, RestartPolicy
<1>2. CASE s.template = None
    BY <1>1, <1>2 DEF TemplateFits, InitMounts, RestartPolicy
<1>3. CASE s.template # None
    <2>1. InitMounts(s) = s.template.initMounts
        BY <1>3 DEF InitMounts
    <2>2. RestartPolicy(s) \in {"OnFailure", "Never"}
              <=> s.template.restartPolicy \in {"", "OnFailure", "Never"}
        BY <1>3 DEF RestartPolicy
    <2> QED BY <1>1, <1>3, <2>1, <2>2 DEF TemplateFits
<1> QED BY <1>2, <1>3

LEMMA InternalAccepted ==
    ASSUME NEW s \in Specs
    PROVE  ServerAccepts(InternalPod(s)) <=>
               /\ ClaimsOnce(s) /\ Claims(s) \cap NoLabel = {}
               /\ PathsFit(s) /\ TemplateFits(s, OwnVolumes \cup StorageVolumes(s))
<1> DEFINE pod == InternalPod(s)
           own == OwnVolumes \cup StorageVolumes(s)
<1>1. /\ pod.volumes = VolumesOf(s, own) /\ pod.mounts = buildVolumeMounts(s)
      /\ pod.containers = [e \in {<<Backup>>} |-> Backup]
      /\ pod.restartPolicy = RestartPolicy(s) /\ pod.initMounts = InitMounts(s)
    BY BuiltAlike DEF InternalPod
<1>2. own \subseteq FixedVolumes
    BY DEF FixedVolumes, StorageVolumes
<1>3. Backed(pod)
    BY InternalBacked
<1> HIDE DEF pod, own
<1>4. IsInjective(pod.containers)
    BY <1>1 DEF IsInjective
<1>5. Range(pod.volumes) = own \cup Claims(s)
    BY <1>1, VolumesBuilt
<1>6. IsInjective([e \in DOMAIN pod.mounts |-> pod.mounts[e].path]) <=> PathsFit(s)
    BY <1>1, PathsAccepted
<1>7. /\ IsInjective(pod.volumes) <=> ClaimsOnce(s)
      /\ Range(pod.volumes) \cap NoLabel = {} <=> Claims(s) \cap NoLabel = {}
    BY <1>1, <1>2, VolumesAccepted
<1>8. (/\ pod.initMounts \subseteq Range(pod.volumes)
       /\ pod.restartPolicy \in {"OnFailure", "Never"}) <=> TemplateFits(s, own)
    BY <1>1, <1>5, TemplateAccepted
<1> QED BY <1>3, <1>4, <1>6, <1>7, <1>8 DEF ServerAccepts, pod, own

LEMMA OlderAccepted ==
    ASSUME NEW s \in Specs
    PROVE  ~Older!Panics(s) /\ ServerAccepts(Older!PodOf(s)) <=>
               /\ ClaimsOnce(s) /\ Claims(s) \cap NoLabel = {}
               /\ PlacesFit(s) /\ DatabasesFit(s) /\ TemplateFits(s, Older!OwnVolumes(s))
<1> DEFINE pod == Older!PodOf(s)
           own == Older!OwnVolumes(s)
<1>1. /\ pod.volumes = VolumesOf(s, own) /\ pod.mounts = Older!buildVolumeMounts(s)
      /\ pod.containers = Older!buildContainers(s)
      /\ pod.restartPolicy = RestartPolicy(s) /\ pod.initMounts = InitMounts(s)
    BY BuiltAlike, TemplateAccepted DEF Older!PodOf
<1>2. own \subseteq FixedVolumes
    BY DEF FixedVolumes, Older!OwnVolumes, Older!FixedVolumes
<1>3. Backed(pod)
    BY OlderBacked
<1> HIDE DEF pod, own
<1>4. ~Older!Panics(s) /\ IsInjective(pod.containers) <=> DatabasesFit(s)
    BY <1>1, ContainersAccepted
<1>5. Range(pod.volumes) = own \cup Claims(s)
    BY <1>1, VolumesBuilt
<1>6. IsInjective([e \in DOMAIN pod.mounts |-> pod.mounts[e].path]) <=> PlacesFit(s)
    BY <1>1, PlacesAccepted
<1>7. /\ IsInjective(pod.volumes) <=> ClaimsOnce(s)
      /\ Range(pod.volumes) \cap NoLabel = {} <=> Claims(s) \cap NoLabel = {}
    BY <1>1, <1>2, VolumesAccepted
<1>8. (/\ pod.initMounts \subseteq Range(pod.volumes)
       /\ pod.restartPolicy \in {"OnFailure", "Never"}) <=> TemplateFits(s, own)
    BY <1>1, <1>5, TemplateAccepted
<1> QED BY <1>3, <1>4, <1>6, <1>7, <1>8 DEF ServerAccepts, pod, own

-----------------------------------------------------------------------------
(* What holds of a pod in force: it was built of a specification somebody  *)
(* wrote, and the API server accepted it.                                  *)
InForce(pod) == (\E s \in Specs : pod = PodOf(s)) /\ ServerAccepts(pod)

ValuesOK ==
    /\ controller \in Controllers
    /\ spec \in Specs /\ cSpec \in Specs
    /\ configMap # None => \E s \in Specs : configMap = ConfigMapOf(s)
    /\ pc \in {"idle", "writeConfigMap", "writeCronJob"}
    /\ wSpec \in Specs \cup {None}
    /\ edits \in 0 .. MaxEdits
    /\ pc # "idle" => wSpec \in Specs

PodInv ==
    /\ ValuesOK
    /\ cronJob # None => InForce(cronJob)
    /\ job # None => InForce(job)

LEMMA ValuesStep ==
    ASSUME ValuesOK, [Next]_vars PROVE ValuesOK'
<1> USE PodAssumption DEF ValuesOK
<1>1. CASE StartReconcile
    BY <1>1 DEF StartReconcile
<1>2. CASE WriteConfigMap
    BY <1>2 DEF WriteConfigMap
<1>3. CASE WriteCronJob
    BY <1>3 DEF WriteCronJob
<1>4. CASE StartJob \/ EndJob
    BY <1>4 DEF StartJob, EndJob
<1>5. CASE SyncTask
    BY <1>5 DEF SyncTask
<1>6. CASE EditTask
    BY <1>6 DEF EditTask
<1>7. CASE UNCHANGED vars
    BY <1>7 DEF vars
<1> QED BY <1>1, <1>2, <1>3, <1>4, <1>5, <1>6, <1>7 DEF Next

(* The controller is chosen once: what is in force stays so. *)
LEMMA StillInForce ==
    ASSUME [Next]_vars, NEW pod PROVE InForce(pod)' <=> InForce(pod)
<1>1. controller' = controller
    BY DEF Next, vars, StartReconcile, WriteConfigMap, WriteCronJob, StartJob, EndJob,
           SyncTask, EditTask
<1> QED BY <1>1 DEF InForce, PodOf, ServerAccepts, Backed

LEMMA PodStep ==
    ASSUME PodInv, [Next]_vars PROVE PodInv'
<1>1. ValuesOK'
    BY ValuesStep DEF PodInv
<1>2. /\ cronJob' # None => InForce(cronJob')
      /\ job' # None => InForce(job')
    <2> USE DEF PodInv
    <2>1. CASE WriteCronJob
        <3>1. wSpec \in Specs
            BY <2>1 DEF WriteCronJob, ValuesOK
        <3>2. Writable(wSpec) => InForce(PodOf(wSpec))
            BY <3>1 DEF Writable, InForce
        <3> QED BY <2>1, <3>2 DEF WriteCronJob
    <2>2. CASE StartJob \/ EndJob
        BY <2>2 DEF StartJob, EndJob
    <2>3. CASE StartReconcile \/ WriteConfigMap \/ SyncTask \/ EditTask \/ UNCHANGED vars
        BY <2>3 DEF StartReconcile, WriteConfigMap, SyncTask, EditTask, vars
    <2> QED BY <2>1, <2>2, <2>3 DEF Next
<1>3. /\ (cronJob # None => InForce(cronJob))'
      /\ (job # None => InForce(job))'
    BY <1>2, StillInForce
<1> QED BY <1>1, <1>3 DEF PodInv

LEMMA InvHolds ==
    Spec => []PodInv
<1>1. Init => PodInv
    BY PodAssumption DEF Init, PodInv, ValuesOK
<1> QED BY <1>1, PodStep, PTL DEF Spec

(* Whatever the users write, the ConfigMap is that of one specification as *)
(* a whole, and CronJob and Jobs have the pod of one, never one put        *)
(* together of two, although edits, panics of a builder and refused pods   *)
(* come in between.                                                        *)
THEOREM PodTypeCorrect ==
    Spec => []TypeOK
<1>1. PodInv => TypeOK
    BY DEF PodInv, ValuesOK, InForce, TypeOK
<1> QED BY <1>1, InvHolds, PTL

(* Which specifications are ever written, in either controller, whatever   *)
(* the users write: what they can be told in their own words is all that   *)
(* the builders and the API server's rules, as modelled, come to.          *)
THEOREM AcceptedExactly ==
    Spec => []WrittenExactly
<1>1. ASSUME spec \in Specs PROVE WrittenExactly
    <2>1. CASE controller = "internal"
        BY <1>1, <2>1, InternalAccepted DEF WrittenExactly, Writable, Builds, PodOf, Fits
    <2>2. CASE controller # "internal"
        BY <1>1, <2>2, OlderAccepted DEF WrittenExactly, Writable, Builds, PodOf, Fits
    <2> QED BY <2>1, <2>2
<1>2. PodInv => spec \in Specs
    BY DEF PodInv, ValuesOK
<1> QED BY <1>1, <1>2, InvHolds, PTL

(* A specification with two paths in one claim never runs, in either       *)
(* controller: neither the CronJob nor a Job ever has the pod that is      *)
(* built of it, however long it is declared (the run PodClaims shows what  *)
(* is in force instead).                                                   *)
THEOREM RepeatedClaimNeverRuns ==
    ASSUME NEW s \in Specs, ~ClaimsOnce(s)
    PROVE  Spec => [](\A pod \in {cronJob, job} \ {None} : pod # PodOf(s))
<1>1. /\ OwnVolumes \cup StorageVolumes(s) \subseteq FixedVolumes
      /\ Older!OwnVolumes(s) \subseteq FixedVolumes
    BY DEF FixedVolumes, StorageVolumes, Older!OwnVolumes, Older!FixedVolumes
<1>2. ~IsInjective(PodOf(s).volumes)
    <2>1. /\ ~IsInjective(buildVolumes(s))
          /\ ~IsInjective(Older!buildVolumes(s))
        BY <1>1, BuiltAlike, VolumesAccepted
    <2>2. /\ InternalPod(s).volumes = buildVolumes(s)
          /\ Older!PodOf(s).volumes = Older!buildVolumes(s)
        BY DEF InternalPod, Older!PodOf
    <2> QED BY <2>1, <2>2 DEF PodOf
<1>3. ~ServerAccepts(PodOf(s))
    BY <1>2 DEF ServerAccepts
<1>4. PodInv => \A pod \in {cronJob, job} \ {None} : pod # PodOf(s)
    BY <1>3 DEF PodInv, InForce
<1> QED BY <1>4, InvHolds, PTL
=============================================================================
