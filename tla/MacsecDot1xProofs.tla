--------------------------- MODULE MacsecDot1xProofs --------------------------
(***************************************************************************)
(* Proofs about MacsecDot1x for any period, buffer, polling and number of  *)
(* outages.  The theorems about alarms and about the rotation need the     *)
(* waits to be longer than what they wait for; hypotheses PollingIsLong,   *)
(* PeriodIsLong, BufferIsLong and WaitIsLong say by how much, and the      *)
(* values of the code satisfy them unless the switches are slow.           *)
(***************************************************************************)
EXTENDS MacsecDot1x, SequenceTheorems, TLAPS

-------------------------------------------------------------------------------
(* Where the script is: the places of its checks in Plan.                  *)

Length == IF verify THEN 27 ELSE 18
CknPlaces == {5, 9} \cup IF verify THEN {18, 19} ELSE {}

Checks == {"config", "status", "port", "interface", "ckn", "compare", "ping", "count", "wait",
           "recount", "static", "static_ping"}
Pairs == Checks \X {AUTHENTICATOR, SUPPLICANT, "master", "slave"}

\* Before and after the wait for a reauthentication.
Front == SwitchChecks(AUTHENTICATOR) \o SwitchChecks(SUPPLICANT) \o LinkChecks
Middle == IF verify THEN ReauthChecks ELSE << >>

LEMMA JoinAt ==
    ASSUME NEW S, NEW s \in Seq(S), NEW t \in Seq(S)
    PROVE  /\ s \o t \in Seq(S) /\ Len(s \o t) = Len(s) + Len(t) /\ Len(s) \in Nat /\ Len(t) \in Nat
           /\ \A i \in 1 .. Len(s) : (s \o t)[i] = s[i]
           /\ \A i \in 1 .. Len(t) : (s \o t)[Len(s) + i] = t[i]
<1> DEFINE u == s \o t
<1>1. /\ u \in Seq(S) /\ Len(u) = Len(s) + Len(t)
      /\ \A i \in 1 .. Len(s) + Len(t) : u[i] = IF i <= Len(s) THEN s[i] ELSE t[i - Len(s)]
  BY ConcatProperties, Zenon
<1>2. Len(s) \in Nat /\ Len(t) \in Nat
  BY LenProperties
<1> HIDE DEF u
<1>3. \A i \in 1 .. Len(s) : u[i] = s[i]
  BY <1>1, <1>2
<1>4. ASSUME NEW i \in 1 .. Len(t)
      PROVE  u[Len(s) + i] = t[i]
  <2>1. Len(s) + i \in 1 .. Len(s) + Len(t) /\ ~(Len(s) + i <= Len(s)) /\ (Len(s) + i) - Len(s) = i
    BY <1>2
  <2>2. u[Len(s) + i] = t[(Len(s) + i) - Len(s)]
    BY <1>1, <2>1, Zenon
  <2>. QED
    BY <2>1, <2>2, Zenon
<1>. QED
  BY <1>1, <1>2, <1>3, <1>4 DEF u

LEMMA PartsAre ==
    /\ Front \in Seq(Pairs) /\ Len(Front) = 12
    /\ Front[1][1] = "config" /\ Front[2][1] = "status" /\ Front[3][1] = "port"
    /\ Front[4][1] = "interface" /\ Front[5] = <<"ckn", AUTHENTICATOR>>
    /\ Front[6][1] = "config" /\ Front[7][1] = "status" /\ Front[8][1] = "interface"
    /\ Front[9] = <<"ckn", SUPPLICANT>> /\ Front[10][1] = "compare"
    /\ Front[11][1] = "ping" /\ Front[12][1] = "ping"
    /\ ReauthChecks \in Seq(Pairs) /\ Len(ReauthChecks) = 9
    /\ ReauthChecks[1][1] = "count" /\ ReauthChecks[2][1] = "wait" /\ ReauthChecks[3][1] = "status"
    /\ ReauthChecks[4][1] = "port" /\ ReauthChecks[5][1] = "status"
    /\ ReauthChecks[6] = <<"ckn", AUTHENTICATOR>> /\ ReauthChecks[7] = <<"ckn", SUPPLICANT>>
    /\ ReauthChecks[8][1] = "compare" /\ ReauthChecks[9][1] = "recount"
    /\ StaticChecks \in Seq(Pairs) /\ Len(StaticChecks) = 6
    /\ \A i \in 1 .. 6 : StaticChecks[i][1] \in {"config", "static", "static_ping"}
<1>1. Front \in Seq(Pairs)
  BY DEF Front, SwitchChecks, LinkChecks, Pairs, Checks, AUTHENTICATOR, SUPPLICANT
<1>2. /\ Len(Front) = 12
      /\ Front[1][1] = "config" /\ Front[2][1] = "status" /\ Front[3][1] = "port"
      /\ Front[4][1] = "interface" /\ Front[5] = <<"ckn", AUTHENTICATOR>>
      /\ Front[6][1] = "config" /\ Front[7][1] = "status" /\ Front[8][1] = "interface"
      /\ Front[9] = <<"ckn", SUPPLICANT>> /\ Front[10][1] = "compare"
      /\ Front[11][1] = "ping" /\ Front[12][1] = "ping"
  BY DEF Front, SwitchChecks, LinkChecks, AUTHENTICATOR, SUPPLICANT
<1>3. ReauthChecks \in Seq(Pairs)
  BY DEF ReauthChecks, Pairs, Checks, AUTHENTICATOR, SUPPLICANT
<1>4. /\ Len(ReauthChecks) = 9
      /\ ReauthChecks[1][1] = "count" /\ ReauthChecks[2][1] = "wait" /\ ReauthChecks[3][1] = "status"
      /\ ReauthChecks[4][1] = "port" /\ ReauthChecks[5][1] = "status"
      /\ ReauthChecks[6] = <<"ckn", AUTHENTICATOR>> /\ ReauthChecks[7] = <<"ckn", SUPPLICANT>>
      /\ ReauthChecks[8][1] = "compare" /\ ReauthChecks[9][1] = "recount"
  BY DEF ReauthChecks, AUTHENTICATOR, SUPPLICANT
<1>5. StaticChecks \in Seq(Pairs)
  BY DEF StaticChecks, Pairs, Checks
<1>6. /\ Len(StaticChecks) = 6
      /\ \A i \in 1 .. 6 : StaticChecks[i][1] \in {"config", "static", "static_ping"}
  BY DEF StaticChecks
<1>. QED
  BY <1>1, <1>2, <1>3, <1>4, <1>5, <1>6

LEMMA JoinThree ==
    ASSUME NEW S, NEW r \in Seq(S), NEW s \in Seq(S), NEW t \in Seq(S), NEW w, w = (r \o s) \o t
    PROVE  /\ Len(w) = Len(r) + Len(s) + Len(t)
           /\ \A i \in 1 .. Len(r) : w[i] = r[i]
           /\ \A i \in 1 .. Len(s) : w[Len(r) + i] = s[i]
           /\ \A i \in 1 .. Len(t) : w[Len(r) + Len(s) + i] = t[i]
<1>0. ASSUME NEW x \in Seq(S), NEW y \in Seq(S)
      PROVE  /\ x \o y \in Seq(S) /\ Len(x \o y) = Len(x) + Len(y) /\ Len(x) \in Nat /\ Len(y) \in Nat
             /\ \A i \in 1 .. Len(x) : (x \o y)[i] = x[i]
             /\ \A i \in 1 .. Len(y) : (x \o y)[Len(x) + i] = y[i]
  BY JoinAt
<1> DEFINE v == r \o s
<1>1. /\ v \in Seq(S) /\ Len(v) = Len(r) + Len(s) /\ Len(r) \in Nat /\ Len(s) \in Nat
      /\ \A i \in 1 .. Len(r) : v[i] = r[i]
      /\ \A i \in 1 .. Len(s) : v[Len(r) + i] = s[i]
  BY <1>0, Zenon
<1> HIDE DEF v
<1>2. w = v \o t
  BY DEF v
<1>3. /\ v \o t \in Seq(S) /\ Len(v \o t) = Len(v) + Len(t) /\ Len(v) \in Nat /\ Len(t) \in Nat
      /\ \A i \in 1 .. Len(v) : (v \o t)[i] = v[i]
      /\ \A i \in 1 .. Len(t) : (v \o t)[Len(v) + i] = t[i]
  BY <1>0, <1>1, Zenon
<1>4. /\ Len(w) = Len(v) + Len(t) /\ Len(v) \in Nat /\ Len(t) \in Nat
      /\ \A i \in 1 .. Len(v) : w[i] = v[i]
      /\ \A i \in 1 .. Len(t) : w[Len(v) + i] = t[i]
  BY <1>2, <1>3, Zenon
<1>5. \A i \in 1 .. Len(r) : w[i] = r[i]
  BY <1>1, <1>4
<1>6. \A i \in 1 .. Len(s) : w[Len(r) + i] = s[i]
  BY <1>1, <1>4
<1>7. \A i \in 1 .. Len(t) : w[Len(r) + Len(s) + i] = t[i]
  BY <1>1, <1>4
<1>. QED
  BY <1>1, <1>4, <1>5, <1>6, <1>7

\* The checks of the link come first, with the wait or without.
LEMMA PlanIs ==
    ASSUME verify \in BOOLEAN
    PROVE  /\ Len(Plan) = Length
           /\ \A i \in 1 .. 12 : Plan[i] = Front[i]
           /\ verify => \A i \in 1 .. 9 : Plan[12 + i] = ReauthChecks[i]
           /\ \A i \in 1 .. 6 : Plan[Length - 6 + i] = StaticChecks[i]
<1> DEFINE n == IF verify THEN 9 ELSE 0
<1>1. Middle \in Seq(Pairs) /\ Len(Middle) = n
  BY PartsAre, EmptySeq DEF Middle
<1>2. Front \in Seq(Pairs) /\ Len(Front) = 12 /\ StaticChecks \in Seq(Pairs) /\ Len(StaticChecks) = 6
  BY PartsAre
<1>3. Plan = (Front \o Middle) \o StaticChecks
  BY DEF Plan, Front, Middle
<1>0. ASSUME NEW r \in Seq(Pairs), NEW s \in Seq(Pairs), NEW t \in Seq(Pairs), NEW w, w = (r \o s) \o t
      PROVE  /\ Len(w) = Len(r) + Len(s) + Len(t)
             /\ \A i \in 1 .. Len(r) : w[i] = r[i]
             /\ \A i \in 1 .. Len(s) : w[Len(r) + i] = s[i]
             /\ \A i \in 1 .. Len(t) : w[Len(r) + Len(s) + i] = t[i]
  BY <1>0, JoinThree
<1> HIDE DEF Plan, n
<1>4. /\ Len(Plan) = Len(Front) + Len(Middle) + Len(StaticChecks)
      /\ \A i \in 1 .. Len(Front) : Plan[i] = Front[i]
      /\ \A i \in 1 .. Len(Middle) : Plan[Len(Front) + i] = Middle[i]
      /\ \A i \in 1 .. Len(StaticChecks) : Plan[Len(Front) + Len(Middle) + i] = StaticChecks[i]
  <2> DEFINE f == Front
             m == Middle
             z == StaticChecks
             p == Plan
  <2>1. f \in Seq(Pairs) /\ m \in Seq(Pairs) /\ z \in Seq(Pairs) /\ p = (f \o m) \o z
    BY <1>1, <1>2, <1>3
  <2> HIDE DEF f, m, z, p
  <2>2. /\ Len(p) = Len(f) + Len(m) + Len(z)
        /\ \A i \in 1 .. Len(f) : p[i] = f[i]
        /\ \A i \in 1 .. Len(m) : p[Len(f) + i] = m[i]
        /\ \A i \in 1 .. Len(z) : p[Len(f) + Len(m) + i] = z[i]
    BY <1>0, <2>1
  <2>. QED
    BY <2>2 DEF f, m, z, p
<1>5. /\ Len(Plan) = 12 + n + 6
      /\ \A i \in 1 .. 12 : Plan[i] = Front[i]
      /\ \A i \in 1 .. n : Plan[12 + i] = Middle[i]
      /\ \A i \in 1 .. 6 : Plan[12 + n + i] = StaticChecks[i]
  <2> DEFINE f == Front
             m == Middle
             z == StaticChecks
  <2>1. Len(f) = 12 /\ Len(m) = n /\ Len(z) = 6 /\ n \in Nat
    BY <1>1, <1>2 DEF n
  <2>2. /\ Len(Plan) = Len(f) + Len(m) + Len(z)
        /\ \A i \in 1 .. Len(f) : Plan[i] = f[i]
        /\ \A i \in 1 .. Len(m) : Plan[Len(f) + i] = m[i]
        /\ \A i \in 1 .. Len(z) : Plan[Len(f) + Len(m) + i] = z[i]
    BY <1>4
  <2> HIDE DEF f, m, z
  <2>3. /\ Len(Plan) = 12 + n + 6
        /\ \A i \in 1 .. 12 : Plan[i] = f[i]
        /\ \A i \in 1 .. n : Plan[12 + i] = m[i]
        /\ \A i \in 1 .. 6 : Plan[12 + n + i] = z[i]
    BY <2>1, <2>2
  <2>. QED
    BY <2>3 DEF f, m, z
<1>6. CASE verify
  <2>1. n = 9 /\ Length = 27 /\ Middle = ReauthChecks
    BY <1>6 DEF n, Length, Middle
  <2>. QED
    BY <1>5, <2>1
<1>7. CASE ~verify
  <2>1. n = 0 /\ Length = 18
    BY <1>7 DEF n, Length
  <2>. QED
    BY <1>5, <1>7, <2>1
<1>. QED
  BY <1>6, <1>7

\* The places of the checks that the properties are about.
Places ==
    /\ Len(Plan) = Length
    /\ At("ckn") => at \in CknPlaces /\ Switch \in Ends
                    /\ (Switch = AUTHENTICATOR <=> at \in {5, 18})
    /\ At("compare") => at = 10 \/ (verify /\ at = 20)
    /\ At("count") => verify /\ at = 13
    /\ At("wait") => verify /\ at = 14
    /\ At("recount") => verify /\ at = 21
    /\ Running /\ sleep = 0 /\ verify /\ at = 13 => At("count")
    /\ Running /\ sleep = 0 /\ verify /\ at = 14 => At("wait")
    /\ Running /\ sleep = 0 /\ verify /\ at = 15 => At("status")
    /\ Running /\ sleep = 0 /\ at \in CknPlaces => At("ckn")
    /\ Running /\ at \in (1 .. 12) \cup (IF verify THEN 13 .. 21 ELSE {}) <=> Observed /\ at \in Nat \ {0}

\* The check of each step of the script, at whichever place the wait puts it.
LEMMA StepsAre ==
    ASSUME verify \in BOOLEAN
    PROVE  /\ Len(Plan) = Length /\ Len(StaticChecks) = 6
           /\ Plan[1][1] = "config" /\ Plan[2][1] = "status" /\ Plan[3][1] = "port"
           /\ Plan[4][1] = "interface" /\ Plan[5][1] = "ckn" /\ Plan[5][2] = AUTHENTICATOR
           /\ Plan[6][1] = "config" /\ Plan[7][1] = "status" /\ Plan[8][1] = "interface"
           /\ Plan[9][1] = "ckn" /\ Plan[9][2] = SUPPLICANT /\ Plan[10][1] = "compare"
           /\ Plan[11][1] = "ping" /\ Plan[12][1] = "ping"
           /\ verify => /\ Plan[13][1] = "count" /\ Plan[14][1] = "wait" /\ Plan[15][1] = "status"
                        /\ Plan[16][1] = "port" /\ Plan[17][1] = "status"
                        /\ Plan[18][1] = "ckn" /\ Plan[18][2] = AUTHENTICATOR /\ Plan[19][1] = "ckn" /\ Plan[19][2] = SUPPLICANT
                        /\ Plan[20][1] = "compare" /\ Plan[21][1] = "recount"
           /\ \A i \in 1 .. 6 : Plan[Length - 6 + i][1] \in {"config", "static", "static_ping"}
<1> HIDE DEF Plan, StaticChecks
<1>1. \A i \in 1 .. 12 : Plan[i] = Front[i]
  BY PlanIs
<1>2. verify => \A i \in 1 .. 9 : Plan[12 + i] = ReauthChecks[i]
  BY PlanIs
<1>3. ASSUME verify
      PROVE  /\ Plan[13] = ReauthChecks[1] /\ Plan[14] = ReauthChecks[2] /\ Plan[15] = ReauthChecks[3]
             /\ Plan[16] = ReauthChecks[4] /\ Plan[17] = ReauthChecks[5] /\ Plan[18] = ReauthChecks[6]
             /\ Plan[19] = ReauthChecks[7] /\ Plan[20] = ReauthChecks[8] /\ Plan[21] = ReauthChecks[9]
  <2>1. \A i \in 1 .. 9 : Plan[12 + i] = ReauthChecks[i]
    BY <1>2, <1>3
  <2>2. /\ Plan[12 + 1] = ReauthChecks[1] /\ Plan[12 + 2] = ReauthChecks[2] /\ Plan[12 + 3] = ReauthChecks[3]
        /\ Plan[12 + 4] = ReauthChecks[4] /\ Plan[12 + 5] = ReauthChecks[5] /\ Plan[12 + 6] = ReauthChecks[6]
        /\ Plan[12 + 7] = ReauthChecks[7] /\ Plan[12 + 8] = ReauthChecks[8] /\ Plan[12 + 9] = ReauthChecks[9]
    BY <2>1
  <2>. QED
    BY <2>2
<1>4. \A i \in 1 .. 6 : Plan[Length - 6 + i][1] \in {"config", "static", "static_ping"}
  BY PlanIs, PartsAre
<1>5. /\ Plan[1] = Front[1] /\ Plan[2] = Front[2] /\ Plan[3] = Front[3] /\ Plan[4] = Front[4]
      /\ Plan[5] = Front[5] /\ Plan[6] = Front[6] /\ Plan[7] = Front[7] /\ Plan[8] = Front[8]
      /\ Plan[9] = Front[9] /\ Plan[10] = Front[10] /\ Plan[11] = Front[11] /\ Plan[12] = Front[12]
  BY <1>1
<1>6. /\ Front[5][1] = "ckn" /\ Front[5][2] = AUTHENTICATOR
      /\ Front[9][1] = "ckn" /\ Front[9][2] = SUPPLICANT
      /\ ReauthChecks[6][1] = "ckn" /\ ReauthChecks[6][2] = AUTHENTICATOR
      /\ ReauthChecks[7][1] = "ckn" /\ ReauthChecks[7][2] = SUPPLICANT
  BY PartsAre
<1>7. /\ Plan[1][1] = "config" /\ Plan[2][1] = "status" /\ Plan[3][1] = "port"
      /\ Plan[4][1] = "interface" /\ Plan[5][1] = "ckn" /\ Plan[5][2] = AUTHENTICATOR
      /\ Plan[6][1] = "config" /\ Plan[7][1] = "status" /\ Plan[8][1] = "interface"
      /\ Plan[9][1] = "ckn" /\ Plan[9][2] = SUPPLICANT /\ Plan[10][1] = "compare"
      /\ Plan[11][1] = "ping" /\ Plan[12][1] = "ping"
  BY <1>5, <1>6, PartsAre
<1>8. ASSUME verify
      PROVE  /\ Plan[13][1] = "count" /\ Plan[14][1] = "wait" /\ Plan[15][1] = "status"
             /\ Plan[16][1] = "port" /\ Plan[17][1] = "status"
             /\ Plan[18][1] = "ckn" /\ Plan[18][2] = AUTHENTICATOR
             /\ Plan[19][1] = "ckn" /\ Plan[19][2] = SUPPLICANT
             /\ Plan[20][1] = "compare" /\ Plan[21][1] = "recount"
  <2>1. /\ ReauthChecks[1][1] = "count" /\ ReauthChecks[2][1] = "wait" /\ ReauthChecks[3][1] = "status"
        /\ ReauthChecks[4][1] = "port" /\ ReauthChecks[5][1] = "status"
        /\ ReauthChecks[8][1] = "compare" /\ ReauthChecks[9][1] = "recount"
    BY PartsAre
  <2>. QED
    BY <1>3, <1>6, <1>8, <2>1, Zenon
<1>. QED
  BY <1>4, <1>7, <1>8, PlanIs, PartsAre

LEMMA PlacesAre ==
    ASSUME verify \in BOOLEAN, at \in 1 .. Length + 1
    PROVE  Places
<1> HIDE DEF Plan
<1> DEFINE c == Plan[at][1]
<1>0. Len(Plan) = Length /\ Len(StaticChecks) = 6
  BY PlanIs, PartsAre
<1>1. \/ at \in 1 .. 12
      \/ verify /\ at \in 13 .. 21
      \/ at \in Length - 5 .. Length
      \/ at = Length + 1
  BY DEF Length
<1>2. at \in Length - 5 .. Length => c \in {"config", "static", "static_ping"}
  <2>1. at \in Length - 5 .. Length => at - (Length - 6) \in 1 .. 6 /\ Length - 6 + (at - (Length - 6)) = at
    BY DEF Length
  <2>. QED
    BY <2>1, StepsAre
<1>3. /\ At("ckn") => at \in CknPlaces
      /\ At("compare") => at = 10 \/ (verify /\ at = 20)
      /\ At("count") => verify /\ at = 13
      /\ At("wait") => verify /\ at = 14
      /\ At("recount") => verify /\ at = 21
  <2>1. CASE at \in 1 .. 12
    <3>1. at \notin {5, 9, 10} => c \notin {"ckn", "compare", "count", "wait", "recount"}
      <4>1. at \in {1, 2, 3, 4, 6, 7, 8, 11, 12} \/ at \in {5, 9, 10}
        BY <2>1
      <4>. QED
        BY <4>1, StepsAre
    <3>2. (at \in {5, 9} => c = "ckn") /\ (at = 10 => c = "compare")
      BY StepsAre
    <3>. QED
      BY <3>1, <3>2 DEF At, CknPlaces
  <2>2. CASE verify /\ at \in 13 .. 21
    <3>1. at \in {15, 16, 17} => c \notin {"ckn", "compare", "count", "wait", "recount"}
      BY <2>2, StepsAre
    <3>2. /\ (at \in {18, 19} => c = "ckn") /\ (at = 20 => c = "compare")
          /\ (at = 13 => c = "count") /\ (at = 14 => c = "wait") /\ (at = 21 => c = "recount")
      BY <2>2, StepsAre
    <3>3. at \in {13, 14, 15, 16, 17, 18, 19, 20, 21}
      BY <2>2
    <3>. QED
      BY <2>2, <3>1, <3>2, <3>3 DEF At, CknPlaces
  <2>3. CASE at \in Length - 5 .. Length
    BY <2>3, <1>2 DEF At
  <2>4. CASE at = Length + 1
    <3>1. ~(at <= Len(Plan)) /\ Len(Plan) = Length
      BY <1>0, <2>4 DEF Length
    <3>. QED
      BY <3>1 DEF At
  <2>. QED
    BY <1>1, <2>1, <2>2, <2>3, <2>4
<1>4. at \in CknPlaces => /\ Switch \in Ends /\ c = "ckn" /\ at <= Len(Plan)
                          /\ (Switch = AUTHENTICATOR <=> at \in {5, 18})
  <2>1. (at \in {5, 9} => c = "ckn") /\ (at = 5 => Switch = AUTHENTICATOR) /\ (at = 9 => Switch = SUPPLICANT)
    BY StepsAre DEF Switch
  <2>2. ASSUME verify
        PROVE  (at \in {18, 19} => c = "ckn") /\ (at = 18 => Switch = AUTHENTICATOR) /\ (at = 19 => Switch = SUPPLICANT)
    BY <2>2, StepsAre DEF Switch
  <2>3. AUTHENTICATOR # SUPPLICANT /\ AUTHENTICATOR \in Ends /\ SUPPLICANT \in Ends
    BY DEF AUTHENTICATOR, SUPPLICANT, Ends
  <2>4. CASE verify
    <3>1. at \in CknPlaces => at \in {5, 9, 18, 19} /\ at <= Len(Plan)
      BY <1>0, <2>4 DEF CknPlaces, Length
    <3>. QED
      BY <2>1, <2>2, <2>3, <2>4, <3>1
  <2>5. CASE ~verify
    <3>1. at \in CknPlaces => at \in {5, 9} /\ at <= Len(Plan)
      BY <1>0, <2>5 DEF CknPlaces, Length
    <3>. QED
      BY <2>1, <2>3, <2>5, <3>1
  <2>. QED
    BY <2>4, <2>5
<1>5. /\ Running /\ sleep = 0 /\ verify /\ at = 13 => At("count")
      /\ Running /\ sleep = 0 /\ verify /\ at = 14 => At("wait")
      /\ Running /\ sleep = 0 /\ verify /\ at = 15 => At("status")
      /\ Running /\ sleep = 0 /\ at \in CknPlaces => At("ckn")
  <2>1. ASSUME verify
        PROVE  Len(Plan) = 27 /\ Plan[13][1] = "count" /\ Plan[14][1] = "wait" /\ Plan[15][1] = "status"
    BY <2>1, StepsAre DEF Length
  <2>. QED
    BY <1>4, <2>1 DEF At
<1>6. Running /\ at \in (1 .. 12) \cup (IF verify THEN 13 .. 21 ELSE {}) <=> Observed /\ at \in Nat \ {0}
  <2>1. at \in Nat \ {0} /\ Len(Plan) - Len(StaticChecks) = IF verify THEN 21 ELSE 12
    BY <1>0 DEF Length
  <2>2. at \in (1 .. 12) \cup (IF verify THEN 13 .. 21 ELSE {}) <=> at <= IF verify THEN 21 ELSE 12
    BY <2>1
  <2>. QED
    BY <2>1, <2>2 DEF Observed
<1>. QED
  BY <1>3, <1>4, <1>5, <1>6, StepsAre DEF Places

-------------------------------------------------------------------------------
(* The inductive invariant.                                                *)

Dones == {"no", "ok", "error", "config", "status", "port", "interface", "ckn",
          "compare", "ping", "recount", "static", "static_ping"}

Typed ==
    /\ session \in Nat /\ eap \in BOOLEAN /\ timer \in 0 .. ReauthPeriod
    /\ age \in 0 .. (EapTicks + MkaTicks)
    /\ radius \in BOOLEAN /\ outages \in 0 .. MaxOutages /\ authorized \in BOOLEAN
    /\ mka \in [Ends -> [Generations -> States]] /\ verify \in BOOLEAN
    /\ at \in 1 .. (Length + 1) /\ done \in Dones
    /\ sleep \in 0 .. (ReauthPeriod + ReauthBuffer) \cup 0 .. PollInterval
    /\ call \in 0 .. CallTicks /\ attempt \in 0 .. (PollAttempts - 1)
    /\ got \in [Ends -> Nat] /\ counted \in Nat /\ baseline \in Nat
    /\ moved \in BOOLEAN /\ failed \in BOOLEAN

\* A closed port has no participants.  A reauthentication starts, and ends,
\* within its bounds; while the participants change, the timer has run no
\* longer than they have.
LinkInv ==
    /\ ~authorized => failed /\ \A e \in Ends : mka[e] = Gone
    /\ eap => Converged /\ age <= EapTicks
    /\ ~eap /\ ~Converged => age <= MkaTicks /\ ReauthPeriod <= timer + age
    /\ session = 0 => \A e \in Ends : mka[e].old = "absent"
    /\ \A e \in Ends : got[e] <= session

Between(i, j) == Running /\ i <= at /\ at <= j
BetweenV(i, j) == verify /\ Between(i, j)

Quiet == \A e \in Ends : mka[e] \in {Settled, Gone}

\* As long as no CKN has changed since the authenticator's was read, the
\* supplicant has the same.
MovedInv ==
    /\ ~moved /\ (Between(6, 10) \/ BetweenV(19, 20)) => got[AUTHENTICATOR] = session /\ Quiet
    /\ ~moved /\ (Between(10, 10) \/ BetweenV(20, 20)) => Agrees
    /\ done = "compare" => moved

Polling == Running /\ ~failed /\ at \in CknPlaces /\ 0 < attempt

\* After n failed looks the participants have been changing for n pauses, and
\* the next reauthentication is still far away.
Patient ==
    /\ ~eap /\ sleep <= PollInterval /\ (0 < sleep => call = 0)
    /\ ReauthPeriod + sleep <= timer + PollInterval + call + MkaTicks
    /\ Converged \/ attempt * PollInterval <= age + sleep

PollInv == (Polling => Patient) /\ (done = "ckn" => failed)

\* The end of the next exchange is at most this far away.
Due == IF eap THEN EapTicks - age ELSE timer + EapTicks

\* The sleep of the reauthentication check outlasts the next exchange.
Awaited == 0 < sleep /\ Due + ReauthBuffer <= sleep + EapTicks

\* Before the second count there is a login that the first had not counted.
CountInv ==
    /\ BetweenV(14, 21) /\ ~failed => counted <= session + 1
    /\ BetweenV(15, 21) /\ ~failed => counted <= session \/ (at = 15 /\ Awaited)
    /\ done = "recount" => failed

\* No participant that has peers still has the CKN of the baseline.
Rotated ==
    /\ baseline < session
    /\ baseline + 1 < session \/ \A e \in Ends : mka[e].old \notin {"live", "transmits"}

\* The exchange is over, and the sleep outlasts the change of participants.
Rotating ==
    /\ ~eap /\ ~Converged /\ baseline < session
    /\ 0 < sleep /\ ReauthBuffer <= sleep + EapTicks + age

\* The sleep does not end before the CKNs have rotated, if the port is open.
Rotates == Rotated \/ ~authorized \/ Awaited \/ Rotating

\* From the sleep to the reads, and from the reads to the end.
RotationInv ==
    /\ BetweenV(14, 15) => baseline <= session
    /\ BetweenV(15, 15) => Rotates
    /\ BetweenV(16, 21) => Rotated
    /\ BetweenV(19, 28) => baseline < got[AUTHENTICATOR]
    /\ BetweenV(20, 28) => baseline < got[SUPPLICANT]
    /\ RotationObserved

-------------------------------------------------------------------------------
(* What a step does, whichever check it is of.                             *)

Swap == \E e \in Ends : Create(e) \/ Join(e) \/ Install(e) \/ Retire(e)

\* A check ends the process.
Stops ==
    /\ Running /\ done' \in Dones \ {"no", "ok"} /\ UNCHANGED <<world, moved>>
    /\ at' = 1 /\ sleep' = 0 /\ call' = 0 /\ attempt' = 0
    /\ got' = [e \in Ends |-> 0] /\ counted' = 0 /\ baseline' = 0
    /\ failed' \in {failed, TRUE}
    /\ done' = "ckn" => at \in CknPlaces /\ sleep = 0 /\ LivePeers(Switch) = {} /\ Switch \in Ends
                        /\ ~(attempt + 1 < PollAttempts) /\ failed' = failed
    /\ done' = "compare" => (at = 10 \/ (verify /\ at = 20)) /\ ~Agrees
    /\ done' = "recount" => failed' \/ (verify /\ at = 21 /\ ~(Logins > counted) /\ failed' = failed)

\* A polling loop turns.
Retries ==
    /\ Running /\ sleep = 0 /\ attempt + 1 < PollAttempts
    /\ at \in CknPlaces => LivePeers(Switch) = {} /\ Switch \in Ends
    /\ attempt' = attempt + 1 /\ sleep' = PollInterval /\ call' = 0
    /\ UNCHANGED <<world, at, done, reads, hist>>

Goes(pause) ==
    /\ Running /\ sleep = 0 /\ at <= Length /\ at' = at + 1
    /\ sleep' = pause /\ call' = 0 /\ attempt' = 0
    /\ UNCHANGED <<world, done>>

\* A check that reads nothing passes.
Passes ==
    /\ Goes(0) /\ UNCHANGED <<reads, hist>>
    /\ at \notin CknPlaces /\ (verify => at \notin {13, 14})
    /\ verify /\ at = 15 => authorized

Reads ==
    /\ Goes(0) /\ UNCHANGED <<counted, baseline, failed>>
    /\ at \in CknPlaces /\ LivePeers(Switch) # {} /\ Switch \in Ends
    /\ Switch = AUTHENTICATOR <=> at \in {5, 18}
    /\ \E c \in Ckns(Switch) : got' = [got EXCEPT ![Switch] = c]
    /\ moved' = IF Switch = AUTHENTICATOR THEN ~Converged ELSE moved

Counts ==
    /\ Goes(0) /\ UNCHANGED <<got, moved>> /\ verify /\ at = 13
    /\ baseline' = got[AUTHENTICATOR]
    /\ (counted' = Logins /\ failed' = failed) \/ (counted' = 0 /\ failed' = TRUE)

Waits ==
    /\ Goes(ReauthPeriod + ReauthBuffer) /\ UNCHANGED <<reads, hist>> /\ verify /\ at = 14

StepKinds ==
    \/ UNCHANGED vars
    \/ Tick
    \/ Observed /\ (Reauthenticate \/ LoginOk \/ LoginFails \/ Swap)
    \/ Radius
    \/ Stops \/ Retries \/ Passes \/ Reads \/ Counts \/ Waits \/ Complete

LEMMA CheckAt ==
    ASSUME Typed, NEW c, At(c)
    PROVE  /\ Running /\ sleep = 0 /\ at <= Length
           /\ c = "ckn" => at \in CknPlaces /\ Switch \in Ends /\ (Switch = AUTHENTICATOR <=> at \in {5, 18})
           /\ c = "compare" => at = 10 \/ (verify /\ at = 20)
           /\ c = "count" => verify /\ at = 13
           /\ c = "wait" => verify /\ at = 14
           /\ c = "recount" => verify /\ at = 21
           /\ at \in CknPlaces => c = "ckn"
           /\ verify /\ at = 13 => c = "count"
           /\ verify /\ at = 14 => c = "wait"
           /\ verify /\ at = 15 => c = "status"
<1> HIDE DEF Plan, Switch
<1>1. Places
  BY PlacesAre DEF Typed
<1>2. Running /\ sleep = 0 /\ at <= Len(Plan) /\ c = Plan[at][1]
  BY DEF At
<1>3. /\ c = "ckn" => At("ckn")
      /\ c = "compare" => At("compare")
      /\ c = "count" => At("count")
      /\ c = "wait" => At("wait")
      /\ c = "recount" => At("recount")
  OBVIOUS
<1>4. /\ At("ckn") => c = "ckn"
      /\ At("count") => c = "count"
      /\ At("wait") => c = "wait"
      /\ At("status") => c = "status"
  BY <1>2 DEF At
<1>5. Len(Plan) = Length
  BY <1>1, Zenon DEF Places
<1>6. at <= Length
  BY <1>2, <1>5, Zenon
<1>7. /\ At("ckn") => at \in CknPlaces /\ Switch \in Ends /\ (Switch = AUTHENTICATOR <=> at \in {5, 18})
      /\ At("compare") => at = 10 \/ (verify /\ at = 20)
      /\ At("count") => verify /\ at = 13
      /\ At("wait") => verify /\ at = 14
      /\ At("recount") => verify /\ at = 21
      /\ verify /\ at = 13 => At("count")
      /\ verify /\ at = 14 => At("wait")
      /\ verify /\ at = 15 => At("status")
      /\ at \in CknPlaces => At("ckn")
  BY <1>1, <1>2, Zenon DEF Places
<1>. QED
  BY <1>2, <1>3, <1>4, <1>6, <1>7, Zenon

\* A look at the switch lets the script pass or ends it.
LEMMA LookIs ==
    ASSUME Typed,
           NEW c \in {"config", "status", "port", "interface", "ping", "compare", "recount", "static_ping"},
           NEW STATE good, LookAt(c, good),
           c = "status" => (good => authorized),
           c = "compare" => (~good => ~Agrees),
           c = "recount" => (~good => ~(Logins > counted))
    PROVE  Passes \/ Stops
<1> HIDE DEF Plan, Switch
<1>1. At(c)
  BY DEF LookAt
<1>2. /\ Running /\ sleep = 0 /\ at <= Length
      /\ c = "compare" => at = 10 \/ (verify /\ at = 20)
      /\ c = "recount" => verify /\ at = 21
      /\ at \in CknPlaces => c = "ckn"
      /\ verify /\ at = 13 => c = "count"
      /\ verify /\ at = 14 => c = "wait"
      /\ verify /\ at = 15 => c = "status"
  BY <1>1, CheckAt
<1>3. CASE good /\ Advance(0) /\ UNCHANGED <<reads, moved>>
  <2>1. Goes(0) /\ UNCHANGED <<reads, hist>>
    BY <1>2, <1>3, Zenon DEF Advance, Step, Goes, hist
  <2>2. at \notin CknPlaces /\ (verify => at \notin {13, 14}) /\ (verify /\ at = 15 => authorized)
    BY <1>2, <1>3
  <2>. QED
    BY <2>1, <2>2 DEF Passes
<1>4. CASE ~good /\ Fail(c)
  <2>1. /\ UNCHANGED <<world, moved>> /\ done' = c /\ failed' = failed
        /\ at' = 1 /\ sleep' = 0 /\ call' = 0 /\ attempt' = 0
        /\ got' = [e \in Ends |-> 0] /\ counted' = 0 /\ baseline' = 0
    BY <1>4, Zenon DEF Fail, Exit, hist
  <2>2. /\ c \in Dones \ {"no", "ok"} /\ c # "ckn" /\ failed' \in {failed, TRUE}
        /\ c = "compare" => (at = 10 \/ (verify /\ at = 20)) /\ ~Agrees
        /\ c = "recount" => failed' \/ (verify /\ at = 21 /\ ~(Logins > counted) /\ failed' = failed)
    BY <1>2, <1>4, <2>1 DEF Dones
  <2>. QED
    BY <1>2, <2>1, <2>2, Zenon DEF Stops
<1>. QED
  BY <1>3, <1>4 DEF LookAt

LEMMA NextIs ==
    ASSUME Typed, [Next]_vars
    PROVE  StepKinds
<1> HIDE DEF Plan, Switch
<1>1. CASE UNCHANGED vars
  BY <1>1 DEF StepKinds
<1>2. CASE Tick \/ Link \/ Radius
  BY <1>2 DEF StepKinds, Link, Swap
<1>3. CASE CheckConfig
  BY <1>3, LookIs DEF CheckConfig, StepKinds
<1>4. CASE CheckDot1x
  BY <1>4, LookIs DEF CheckDot1x, StepKinds
<1>5. CASE CheckPort
  BY <1>5, LookIs DEF CheckPort, StepKinds
<1>6. CASE CheckInterface
  <2>1. LookAt("interface", Protected(Switch))
    BY <1>6 DEF CheckInterface
  <2> HIDE DEF Protected
  <2>. QED
    BY <2>1, LookIs DEF StepKinds
<1>7. CASE ReadCkn
  <2>1. At("ckn")
    BY <1>7 DEF ReadCkn
  <2>2. /\ Running /\ sleep = 0 /\ at <= Length /\ at \in CknPlaces /\ Switch \in Ends
        /\ Switch = AUTHENTICATOR <=> at \in {5, 18}
    BY <2>1, CheckAt
  <2>3. CASE LivePeers(Switch) # {}
    <3>1. /\ \E c \in Ckns(Switch) : got' = [got EXCEPT ![Switch] = c]
          /\ moved' = IF Switch = AUTHENTICATOR THEN ~Converged ELSE moved
          /\ Advance(0) /\ UNCHANGED <<counted, baseline>>
      BY <1>7, <2>3, Zenon DEF ReadCkn
    <3>2. Goes(0) /\ UNCHANGED <<counted, baseline, failed>>
      BY <2>2, <3>1, Zenon DEF Goes, Advance, Step
    <3>. QED
      BY <2>2, <2>3, <3>1, <3>2, Zenon DEF Reads, StepKinds
  <2>4. CASE ~(LivePeers(Switch) # {}) /\ attempt + 1 < PollAttempts
    <3>1. /\ attempt' = attempt + 1 /\ sleep' = PollInterval /\ call' = 0
          /\ UNCHANGED <<world, at, done, reads, hist>>
      BY <1>7, <2>4, Zenon DEF ReadCkn, TryAgain, Attempts
    <3>. QED
      BY <2>2, <2>4, <3>1, Zenon DEF Retries, StepKinds
  <2>5. CASE ~(LivePeers(Switch) # {}) /\ ~(attempt + 1 < PollAttempts)
    <3>1. Fail("ckn")
      BY <1>7, <2>5, Zenon DEF ReadCkn, TryAgain, Attempts
    <3>2. /\ UNCHANGED <<world, moved>> /\ done' = "ckn" /\ failed' = failed
          /\ at' = 1 /\ sleep' = 0 /\ call' = 0 /\ attempt' = 0
          /\ got' = [e \in Ends |-> 0] /\ counted' = 0 /\ baseline' = 0
      BY <3>1, Zenon DEF Fail, Exit, hist
    <3>3. /\ done' \in Dones \ {"no", "ok"} /\ done' # "compare" /\ done' # "recount"
          /\ failed' \in {failed, TRUE}
      BY <3>2 DEF Dones
    <3>. QED
      BY <2>2, <2>5, <3>2, <3>3, Zenon DEF Stops, StepKinds
  <2>. QED
    BY <2>3, <2>4, <2>5, Zenon
<1>8. CASE Compare
  BY <1>8, LookIs DEF Compare, StepKinds
<1>9. CASE CheckPing
  <2>1. LookAt("ping", Carries)
    BY <1>9 DEF CheckPing
  <2> HIDE DEF Carries
  <2>. QED
    BY <2>1, LookIs DEF StepKinds
<1>10. CASE CountLogins
  <2>1. At("count")
    BY <1>10 DEF CountLogins
  <2>2. Running /\ sleep = 0 /\ at <= Length /\ verify /\ at = 13
    BY <2>1, CheckAt
  <2>3. /\ baseline' = got[AUTHENTICATOR] /\ Step(0) /\ UNCHANGED <<got, moved>>
        /\ (counted' = Logins /\ failed' = failed) \/ (counted' = 0 /\ failed' = TRUE)
    BY <1>10, Zenon DEF CountLogins
  <2>. QED
    BY <2>2, <2>3, Zenon DEF Counts, Goes, Step, StepKinds
<1>11. CASE WaitForReauth
  <2>1. At("wait") /\ Advance(ReauthPeriod + ReauthBuffer) /\ UNCHANGED <<reads, moved>>
    BY <1>11 DEF WaitForReauth
  <2>2. Running /\ sleep = 0 /\ at <= Length /\ verify /\ at = 14
    BY <2>1, CheckAt
  <2>. QED
    BY <2>1, <2>2, Zenon DEF Waits, Goes, Advance, Step, StepKinds, hist
<1>12. CASE Recount
  <2>1. LookAt("recount", Logins > counted)
    BY <1>12 DEF Recount
  <2>. QED
    BY <2>1, LookIs DEF StepKinds
<1>13. CASE RecountFails
  <2>1. At("recount")
    BY <1>13 DEF RecountFails
  <2>2. Running
    BY <2>1 DEF At
  <2>3. /\ UNCHANGED <<world, moved>> /\ done' = "recount" /\ failed' = TRUE
        /\ at' = 1 /\ sleep' = 0 /\ call' = 0 /\ attempt' = 0
        /\ got' = [e \in Ends |-> 0] /\ counted' = 0 /\ baseline' = 0
    BY <1>13, Zenon DEF RecountFails, Exit
  <2>4. /\ done' \in Dones \ {"no", "ok"} /\ done' # "compare" /\ done' # "ckn"
        /\ failed' \in {failed, TRUE} /\ failed'
    BY <2>3 DEF Dones
  <2>. QED
    BY <2>2, <2>3, <2>4, Zenon DEF Stops, StepKinds
<1>14. CASE CheckStatic
  <2>1. At("static")
    BY <1>14 DEF CheckStatic
  <2>2. /\ Running /\ sleep = 0 /\ at <= Length /\ at \notin CknPlaces
        /\ verify => at \notin {13, 14, 15}
    BY <2>1, CheckAt
  <2>3. CASE Advance(0) /\ UNCHANGED <<reads, moved>>
    <3>1. Goes(0) /\ UNCHANGED <<reads, hist>>
      BY <2>2, <2>3, Zenon DEF Goes, Advance, Step, hist
    <3>. QED
      BY <2>2, <3>1 DEF Passes, StepKinds
  <2>4. CASE TryAgain("static") /\ attempt + 1 < PollAttempts
    <3>1. /\ attempt' = attempt + 1 /\ sleep' = PollInterval /\ call' = 0
          /\ UNCHANGED <<world, at, done, reads, hist>>
      BY <2>4, Zenon DEF TryAgain, Attempts
    <3>. QED
      BY <2>2, <2>4, <3>1, Zenon DEF Retries, StepKinds
  <2>5. CASE TryAgain("static") /\ ~(attempt + 1 < PollAttempts)
    <3>1. Fail("static")
      BY <2>5, Zenon DEF TryAgain, Attempts
    <3>2. /\ UNCHANGED <<world, moved>> /\ done' = "static" /\ failed' = failed
          /\ at' = 1 /\ sleep' = 0 /\ call' = 0 /\ attempt' = 0
          /\ got' = [e \in Ends |-> 0] /\ counted' = 0 /\ baseline' = 0
      BY <3>1, Zenon DEF Fail, Exit, hist
    <3>3. /\ done' \in Dones \ {"no", "ok"} /\ done' # "compare" /\ done' # "recount" /\ done' # "ckn"
          /\ failed' \in {failed, TRUE}
      BY <3>2 DEF Dones
    <3>. QED
      BY <2>2, <3>2, <3>3, Zenon DEF Stops, StepKinds
  <2>. QED
    BY <1>14, <2>3, <2>4, <2>5, Zenon DEF CheckStatic
<1>15. CASE CheckStaticPing
  <2>1. PICK up \in BOOLEAN : LookAt("static_ping", up)
    BY <1>15 DEF CheckStaticPing
  <2>. QED
    BY <2>1, LookIs DEF StepKinds
<1>16. CASE Complete
  BY <1>16 DEF StepKinds
<1>17. CASE CommandFails
  <2>1. Running /\ Fail("error")
    BY <1>17 DEF CommandFails
  <2>2. /\ UNCHANGED <<world, moved>> /\ done' = "error" /\ failed' = failed
        /\ at' = 1 /\ sleep' = 0 /\ call' = 0 /\ attempt' = 0
        /\ got' = [e \in Ends |-> 0] /\ counted' = 0 /\ baseline' = 0
    BY <2>1, Zenon DEF Fail, Exit, hist
  <2>3. /\ done' \in Dones \ {"no", "ok"} /\ done' # "compare" /\ done' # "recount" /\ done' # "ckn"
        /\ failed' \in {failed, TRUE}
    BY <2>2 DEF Dones
  <2>. QED
    BY <2>1, <2>2, <2>3, Zenon DEF Stops, StepKinds
<1>. QED
  BY <1>1, <1>2, <1>3, <1>4, <1>5, <1>6, <1>7, <1>8, <1>9, <1>10, <1>11, <1>12, <1>13, <1>14,
     <1>15, <1>16, <1>17, Zenon DEF Next, Script

-------------------------------------------------------------------------------
(* The link.                                                               *)

NoOldPeers == \A e \in Ends : mka[e].old \notin {"live", "transmits"}

\* Participants change only between exchanges, and a SAK that is replaced does
\* not come back.
LEMMA SwapIs ==
    ASSUME Typed, LinkInv, Swap
    PROVE  /\ ~eap /\ authorized /\ ~Converged /\ moved'
           /\ UNCHANGED <<session, eap, timer, age, authorized, server, verify, script, failed>>
           /\ mka' \in [Ends -> [Generations -> States]]
           /\ (\A e \in Ends : mka[e].old = "absent") => \A e \in Ends : mka'[e].old = "absent"
           /\ NoOldPeers => NoOldPeers'
<1>1. PICK e \in Ends : Create(e) \/ Join(e) \/ Install(e) \/ Retire(e)
  BY DEF Swap
<1> HIDE DEF Ends
<1>2. \A f \in Ends : mka[f] \in [Generations -> States]
  BY DEF Typed
<1>3. mka[e].new # "absent" /\ mka[e] # Settled => authorized /\ ~Converged
  BY DEF LinkInv, Converged, Gone
<1>4. mka[e].old # "absent" => authorized /\ ~Converged
  BY DEF LinkInv, Converged, Gone, Settled
<1>5. /\ ~eap /\ authorized /\ ~Converged
  <2>1. ~Converged => ~eap
    BY DEF LinkInv
  <2>2. CASE Create(e)
    <3>1. mka[e] # Settled
      BY <2>2 DEF Create, Settled
    <3>. QED
      BY <2>2, <3>1 DEF Create, Converged
  <2>3. CASE Join(e)
    BY <1>3, <2>1, <2>3 DEF Join, Settled
  <2>4. CASE Install(e)
    BY <1>3, <2>1, <2>4 DEF Install, Settled
  <2>5. CASE Retire(e)
    BY <1>4, <2>5 DEF Retire
  <2>. QED
    BY <1>1, <2>2, <2>3, <2>4, <2>5
<1>6. moved' /\ UNCHANGED <<session, eap, timer, age, authorized, server, verify, script, failed>>
  BY <1>1 DEF Create, Join, Install, Retire, Becomes
<1>7. PICK p \in Generations, s \in States :
          \/ mka' = [mka EXCEPT ![e][p] = s] /\ (p = "old" => s = "absent")
          \/ mka' = [mka EXCEPT ![e].new = "transmits",
                                ![e].old = IF @ = "transmits" THEN "live" ELSE @]
  BY <1>1 DEF Create, Join, Install, Retire, Becomes, Generations, States
<1>8. mka' \in [Ends -> [Generations -> States]]
  BY <1>7 DEF Typed, Generations, States
<1>9. \A f \in Ends : f # e => mka'[f] = mka[f]
  BY <1>7 DEF Typed
<1>10. mka'[e].old = mka[e].old \/ mka'[e].old = "absent" \/ (mka[e].old = "transmits" /\ mka'[e].old = "live")
  BY <1>2, <1>7 DEF Typed, Generations
<1>. QED
  BY <1>5, <1>6, <1>8, <1>9, <1>10 DEF NoOldPeers

LEMMA LoginIs ==
    ASSUME Typed, LinkInv, LoginOk
    PROVE  /\ eap /\ ~eap' /\ age' = 0 /\ timer' = ReauthPeriod /\ session' = session + 1
           /\ authorized' /\ moved' /\ ~Converged'
           /\ UNCHANGED <<server, verify, script, failed>>
           /\ mka' \in [Ends -> [Generations -> States]]
           /\ ~authorized => NoOldPeers'
<1> HIDE DEF Ends
<1>1. mka' = [e \in Ends |-> [old |-> mka[e].new, new |-> "absent"]]
  BY DEF LoginOk
<1>2. \A e \in Ends : mka[e].new \in States
  BY DEF Typed, Generations
<1>3. mka' \in [Ends -> [Generations -> States]]
  BY <1>1, <1>2 DEF Generations, States
<1>4. \A e \in Ends : mka'[e].old = mka[e].new /\ mka'[e] # Settled
  BY <1>1 DEF Settled
<1>5. \E e : e \in Ends
  BY DEF Ends
<1>6. ~Converged'
  BY <1>4, <1>5 DEF Converged, LoginOk
<1>7. ~authorized => \A e \in Ends : mka[e].new = "absent"
  BY DEF LinkInv, Gone
<1>. QED
  BY <1>3, <1>4, <1>6, <1>7 DEF LoginOk, NoOldPeers

LEMMA FailureIs ==
    ASSUME LoginFails
    PROVE  /\ eap /\ ~eap' /\ age' = 0 /\ timer' = ReauthPeriod /\ ~authorized' /\ failed'
           /\ UNCHANGED <<session, server, verify, script, moved>>
           /\ mka' \in [Ends -> [Generations -> States]]
           /\ (\A e \in Ends : mka'[e] = Gone) /\ Quiet' /\ Converged' /\ NoOldPeers'
<1> HIDE DEF Ends
<1>1. mka' = [e \in Ends |-> Gone] /\ ~authorized'
  BY DEF LoginFails
<1>2. Gone \in [Generations -> States] /\ Gone.old = "absent"
  BY DEF Gone, Generations, States
<1>3. mka' \in [Ends -> [Generations -> States]] /\ \A e \in Ends : mka'[e] = Gone
  BY <1>1, <1>2
<1>. QED
  BY <1>1, <1>2, <1>3 DEF LoginFails, Quiet, Converged, NoOldPeers

-------------------------------------------------------------------------------
(* Types and the link, whatever the waits.                                 *)

LEMMA Numbers ==
    /\ ReauthPeriod \in Nat /\ 0 < ReauthPeriod /\ ReauthBuffer \in Nat
    /\ PollInterval \in Nat /\ 0 < PollInterval /\ PollAttempts \in Nat /\ 0 < PollAttempts
    /\ EapTicks \in Nat /\ 0 < EapTicks /\ MkaTicks \in Nat /\ 0 < MkaTicks
    /\ CallTicks \in Nat /\ MaxOutages \in Nat /\ EapTicks + MkaTicks < ReauthPeriod
BY Dot1xAssumption DEF Dot1xAssumption

LEMMA TickIs ==
    ASSUME Typed, Tick
    PROVE  /\ Running /\ UNCHANGED <<session, eap, authorized, mka, server, verify, at, done, attempt, reads, hist>>
           /\ IF sleep = 0 THEN sleep' = 0 /\ call' = call + 1 /\ call < CallTicks
                           ELSE sleep' = sleep - 1 /\ call' = 0
           /\ IF Observed
              THEN /\ IF eap THEN age < EapTicks ELSE 0 < timer
                   /\ ~eap /\ ~Converged => age < MkaTicks
                   /\ timer' = IF 0 < timer THEN timer - 1 ELSE 0
                   /\ age' = IF eap \/ ~Converged THEN age + 1 ELSE 0
              ELSE timer' = timer /\ age' = age
<1> HIDE DEF Observed, Converged
<1>1. /\ Running /\ UNCHANGED <<session, eap, authorized, mka, server, verify, at, done, attempt, reads, hist>>
      /\ sleep = 0 => call < CallTicks
      /\ sleep' = Less(sleep) /\ call' = IF sleep = 0 THEN call + 1 ELSE 0
      /\ IF Observed THEN LinkTick ELSE UNCHANGED <<timer, age>>
  BY DEF Tick
<1>2. sleep \in Nat
  BY Numbers DEF Typed
<1>3. IF sleep = 0 THEN sleep' = 0 /\ call' = call + 1 /\ call < CallTicks
                   ELSE sleep' = sleep - 1 /\ call' = 0
  BY <1>1, <1>2 DEF Less
<1>4. IF Observed
      THEN /\ IF eap THEN age < EapTicks ELSE 0 < timer
           /\ ~eap /\ ~Converged => age < MkaTicks
           /\ timer' = IF 0 < timer THEN timer - 1 ELSE 0
           /\ age' = IF eap \/ ~Converged THEN age + 1 ELSE 0
      ELSE timer' = timer /\ age' = age
  BY <1>1 DEF LinkTick, Less, Typed
<1>. QED
  BY <1>1, <1>3, <1>4, Zenon

LEMMA ReauthIs ==
    ASSUME Reauthenticate
    PROVE  /\ ~eap /\ timer = 0 /\ Converged /\ eap' /\ age' = 0
           /\ UNCHANGED <<session, timer, authorized, mka, server, verify, script, hist>>
           /\ Converged' /\ (NoOldPeers => NoOldPeers')
BY DEF Reauthenticate, Converged, NoOldPeers

\* The link stands still under the script.
LEMMA WorldIs ==
    ASSUME UNCHANGED world
    PROVE  /\ UNCHANGED <<session, eap, timer, age, authorized, mka, radius, outages, verify>>
           /\ Length' = Length /\ CknPlaces' = CknPlaces
           /\ Converged' = Converged /\ Quiet' = Quiet /\ NoOldPeers' = NoOldPeers
           /\ Due' = Due
BY DEF world, link, server, Length, CknPlaces, Converged, Quiet, NoOldPeers, Due

LEMMA CknsAre ==
    ASSUME Typed, LinkInv, NEW e \in Ends, NEW c \in Ckns(e), LivePeers(e) # {}
    PROVE  /\ c \in Nat /\ c <= session /\ session <= c + 1
           /\ NoOldPeers => c = session
           /\ authorized
<1>1. mka[e] \in [Generations -> States] /\ session \in Nat
  BY DEF Typed
<1>2. PICK p \in Generations : mka[e][p] \in {"live", "transmits"} /\ c = IF p = "new" THEN session ELSE session - 1
  BY DEF Ckns, LivePeers
<1>3. p = "old" => mka[e].old \in {"live", "transmits"} /\ session # 0
  BY <1>2 DEF LinkInv
<1>4. p = "old" => ~NoOldPeers
  BY <1>3 DEF NoOldPeers
<1>5. mka[e] # Gone
  BY <1>2 DEF Gone, Generations
<1>6. p \in {"old", "new"}
  BY DEF Generations
<1>. QED
  BY <1>1, <1>2, <1>3, <1>4, <1>5, <1>6 DEF LinkInv

LEMMA TypedStep ==
    ASSUME Typed, LinkInv, StepKinds
    PROVE  Typed'
<1> HIDE DEF Ends
<1> USE Numbers
<1>1. CASE UNCHANGED vars
  BY <1>1, Zenon DEF Typed, vars, link, server, script, hist, Length
<1>2. CASE Tick
  <2>1. /\ UNCHANGED <<session, eap, authorized, mka, radius, outages, verify, at, done, attempt,
                       got, counted, baseline, moved, failed, Length>>
        /\ IF sleep = 0 THEN sleep' = 0 /\ call' = call + 1 /\ call < CallTicks
                        ELSE sleep' = sleep - 1 /\ call' = 0
    <3>1. /\ UNCHANGED <<session, eap, authorized, mka, server, verify, at, done, attempt, reads, hist>>
          /\ IF sleep = 0 THEN sleep' = 0 /\ call' = call + 1 /\ call < CallTicks
                          ELSE sleep' = sleep - 1 /\ call' = 0
      BY <1>2, TickIs
    <3>. QED
      BY <3>1, Zenon DEF server, reads, hist, Length
  <2>2. timer' \in 0 .. ReauthPeriod
    BY <1>2, TickIs DEF Typed
  <2>3. age' \in 0 .. (EapTicks + MkaTicks)
    BY <1>2, TickIs DEF Typed
  <2>4. sleep' \in 0 .. (ReauthPeriod + ReauthBuffer) \cup 0 .. PollInterval /\ call' \in 0 .. CallTicks
    BY <2>1 DEF Typed
  <2>. QED
    BY <2>1, <2>2, <2>3, <2>4 DEF Typed
<1>3. CASE Reauthenticate
  <2>1. /\ eap' = TRUE /\ age' = 0
        /\ UNCHANGED <<session, timer, authorized, mka, radius, outages, verify, at, done, sleep, call,
                       attempt, got, counted, baseline, moved, failed, Length>>
    BY <1>3, Zenon DEF Reauthenticate, server, script, hist, Length
  <2>. QED
    BY <2>1 DEF Typed
<1>4. CASE LoginOk
  <2>1. /\ UNCHANGED <<radius, outages, verify, at, done, sleep, call, attempt, got, counted, baseline, failed, Length>>
        /\ eap' = FALSE /\ age' = 0 /\ timer' = ReauthPeriod /\ session' = session + 1
        /\ authorized' = TRUE /\ moved' = TRUE
    BY <1>4, Zenon DEF LoginOk, server, script, Length
  <2>2. mka' \in [Ends -> [Generations -> States]]
    BY <1>4, LoginIs
  <2>3. session' \in Nat /\ age' \in 0 .. (EapTicks + MkaTicks) /\ timer' \in 0 .. ReauthPeriod
    BY <2>1 DEF Typed
  <2>. QED
    BY <2>1, <2>2, <2>3, Zenon DEF Typed
<1>5. CASE LoginFails
  <2>1. /\ UNCHANGED <<session, radius, outages, verify, at, done, sleep, call, attempt, got, counted, baseline,
                       moved, Length>>
        /\ eap' = FALSE /\ age' = 0 /\ timer' = ReauthPeriod /\ authorized' = FALSE /\ failed' = TRUE
    BY <1>5, Zenon DEF LoginFails, server, script, Length
  <2>2. mka' \in [Ends -> [Generations -> States]]
    BY <1>5, FailureIs
  <2>3. age' \in 0 .. (EapTicks + MkaTicks) /\ timer' \in 0 .. ReauthPeriod
    BY <2>1 DEF Typed
  <2>. QED
    BY <2>1, <2>2, <2>3, Zenon DEF Typed
<1>6. CASE Swap
  <2>1. /\ UNCHANGED <<session, eap, timer, age, authorized, radius, outages, verify, at, done, sleep, call, attempt,
                       got, counted, baseline, failed, Length>>
        /\ moved' \in BOOLEAN
    <3>1. UNCHANGED <<session, eap, timer, age, authorized, server, verify, script, failed>>
      BY <1>6, SwapIs
    <3>2. moved' = TRUE
      BY <1>6, Zenon DEF Swap, Create, Join, Install, Retire, Becomes
    <3>. QED
      BY <3>1, <3>2, Zenon DEF server, script, Length
  <2>2. mka' \in [Ends -> [Generations -> States]]
    BY <1>6, SwapIs
  <2>. QED
    BY <2>1, <2>2 DEF Typed
<1>7. CASE Radius
  <2>1. /\ UNCHANGED <<session, eap, timer, age, authorized, mka, verify, at, done, sleep, call, attempt,
                       got, counted, baseline, moved, failed, Length>>
        /\ \/ radius' = FALSE /\ outages < MaxOutages /\ outages' = outages + 1
           \/ radius' = TRUE /\ outages' = outages
    <3>1. CASE RadiusStops
      BY <3>1, Zenon DEF RadiusStops, link, script, hist, Length
    <3>2. CASE RadiusReturns
      BY <3>2, Zenon DEF RadiusReturns, link, script, hist, Length
    <3>. QED
      BY <1>7, <3>1, <3>2, Zenon DEF Radius
  <2>2. radius' \in BOOLEAN
    BY <2>1, Zenon
  <2>3. outages' \in 0 .. MaxOutages
    BY <2>1 DEF Typed
  <2>. QED
    BY <2>1, <2>2, <2>3, Zenon DEF Typed
<1>8. CASE Stops
  <2>1. /\ UNCHANGED <<session, eap, timer, age, authorized, mka, radius, outages, verify, moved, Length>>
        /\ done' \in Dones /\ failed' \in {failed, TRUE}
        /\ at' = 1 /\ sleep' = 0 /\ call' = 0 /\ attempt' = 0
        /\ got' = [e \in Ends |-> 0] /\ counted' = 0 /\ baseline' = 0
    <3>1. UNCHANGED world /\ UNCHANGED moved /\ done' \in Dones \ {"no", "ok"}
      BY <1>8, Zenon DEF Stops
    <3>. QED
      BY <1>8, <3>1, WorldIs DEF Stops
  <2>2. 1 \in 1 .. (Length + 1)
    BY DEF Length
  <2>3. failed' \in BOOLEAN
    BY <2>1, Zenon DEF Typed
  <2>4. got' \in [Ends -> Nat]
    BY <2>1
  <2>5. at' \in 1 .. (Length' + 1)
    BY <2>1, <2>2, Zenon
  <2>. QED
    BY <2>1, <2>3, <2>4, <2>5 DEF Typed
<1>9. CASE Retries
  <2>1. /\ UNCHANGED <<session, eap, timer, age, authorized, mka, radius, outages, verify, moved, failed, Length,
                       at, done, got, counted, baseline>>
        /\ attempt' = attempt + 1 /\ attempt + 1 < PollAttempts /\ sleep' = PollInterval /\ call' = 0
    <3>1. UNCHANGED <<world, at, done, reads, hist>>
      BY <1>9 DEF Retries
    <3>2. attempt' = attempt + 1 /\ attempt + 1 < PollAttempts /\ sleep' = PollInterval /\ call' = 0
      BY <1>9 DEF Retries
    <3>. QED
      BY <3>1, <3>2, Zenon DEF world, link, server, reads, hist, Length
  <2>. QED
    BY <2>1 DEF Typed
<1>10. CASE Passes \/ Reads \/ Counts \/ Waits
  <2>1. PICK p \in {0, ReauthPeriod + ReauthBuffer} : Goes(p)
    BY <1>10 DEF Passes, Reads, Counts, Waits
  <2>2. /\ UNCHANGED <<session, eap, timer, age, authorized, mka, radius, outages, verify, Length, done>>
        /\ at <= Length /\ at' = at + 1 /\ sleep' = p /\ call' = 0 /\ attempt' = 0
    BY <2>1, Zenon DEF Goes, world, link, server, Length
  <2>3. /\ got' \in [Ends -> Nat]
    <3>1. CASE Reads
      <4>1. PICK c \in Ckns(Switch) : got' = [got EXCEPT ![Switch] = c]
        BY <3>1, Zenon DEF Reads
      <4>2. Switch \in Ends /\ LivePeers(Switch) # {}
        BY <3>1, Zenon DEF Reads
      <4> HIDE DEF Switch
      <4>3. c \in Nat
        BY <4>1, <4>2, CknsAre
      <4>. QED
        BY <4>1, <4>2, <4>3 DEF Typed
    <3>2. CASE Passes \/ Counts \/ Waits
      BY <3>2, Zenon DEF Passes, Counts, Waits, reads, Typed
    <3>. QED
      BY <1>10, <3>1, <3>2
  <2>4. counted' \in Nat /\ baseline' \in Nat
    <3>1. CASE Passes \/ Reads \/ Waits
      BY <3>1, Zenon DEF Passes, Reads, Waits, reads, Typed
    <3>2. CASE Counts
      BY <3>2 DEF Counts, Typed, Logins, Ends
    <3>. QED
      BY <1>10, <3>1, <3>2
  <2>5. moved' \in BOOLEAN /\ failed' \in BOOLEAN
    <3>1. CASE Passes \/ Waits \/ Counts
      BY <3>1, Zenon DEF Passes, Waits, Counts, hist, Typed
    <3>2. CASE Reads
      <4>1. moved' = (IF Switch = AUTHENTICATOR THEN ~Converged ELSE moved) /\ failed' = failed
        BY <3>2, Zenon DEF Reads
      <4>. QED
        BY <4>1, Zenon DEF Typed, Converged
    <3>. QED
      BY <1>10, <3>1, <3>2
  <2>6. at' \in 1 .. (Length' + 1) /\ sleep' \in 0 .. (ReauthPeriod + ReauthBuffer) /\ 0 \in 0 .. (PollAttempts - 1)
        /\ 0 \in 0 .. CallTicks
    BY <2>2 DEF Typed, Length
  <2>. QED
    BY <2>2, <2>3, <2>4, <2>5, <2>6 DEF Typed
<1>11. CASE Complete
  <2>1. /\ UNCHANGED <<session, eap, timer, age, authorized, mka, radius, outages, verify, moved, failed, Length,
                       at, sleep, attempt, got, counted, baseline>>
        /\ done' = "ok" /\ call' = 0
    BY <1>11, Zenon DEF Complete, world, link, server, reads, hist, Length
  <2>. QED
    BY <2>1 DEF Typed, Dones
<1>. QED
  BY <1>1, <1>2, <1>3, <1>4, <1>5, <1>6, <1>7, <1>8, <1>9, <1>10, <1>11, Zenon DEF StepKinds

LEMMA LinkStep ==
    ASSUME Typed, LinkInv, StepKinds
    PROVE  LinkInv'
<1> HIDE DEF Ends
<1> USE Numbers
<1>1. CASE UNCHANGED vars
  BY <1>1, Zenon DEF LinkInv, Converged, vars, link, server, script, hist
<1>2. CASE Tick
  <2>1. /\ UNCHANGED <<session, eap, authorized, mka, got, failed, Converged>>
    <3>1. UNCHANGED <<session, eap, authorized, mka, server, verify, at, done, attempt, reads, hist>>
      BY <1>2, TickIs
    <3>. QED
      BY <3>1, Zenon DEF Converged, reads, hist
  <2>2. eap => age' <= EapTicks
    <3> HIDE DEF Observed
    <3>1. ASSUME Observed, eap
          PROVE  age < EapTicks /\ age' = age + 1
      <4> HIDE DEF Converged
      <4>. QED
        BY <1>2, <3>1, TickIs
    <3>2. CASE Observed
      BY <3>1, <3>2 DEF Typed
    <3>3. CASE ~Observed
      BY <1>2, <3>3, TickIs DEF LinkInv
    <3>. QED
      BY <3>2, <3>3
  <2>3. ~eap /\ ~Converged => age' <= MkaTicks /\ ReauthPeriod <= timer' + age'
    <3> HIDE DEF Observed
    <3>1. CASE Observed
      BY <1>2, <3>1, TickIs DEF LinkInv, Typed
    <3>2. CASE ~Observed
      BY <1>2, <3>2, TickIs DEF LinkInv
    <3>. QED
      BY <3>1, <3>2
  <2>. QED
    BY <2>1, <2>2, <2>3, Zenon DEF LinkInv
<1>3. CASE Reauthenticate
  <2>1. /\ eap' /\ age' = 0 /\ Converged' /\ UNCHANGED <<session, timer, authorized, mka, got, failed>>
    BY <1>3, ReauthIs DEF script, hist
  <2>2. age' <= EapTicks
    BY <2>1
  <2>. QED
    BY <2>1, <2>2, Zenon DEF LinkInv
<1>4. CASE LoginOk
  <2>1. /\ ~eap' /\ age' = 0 /\ timer' = ReauthPeriod /\ session' = session + 1 /\ authorized' /\ got' = got
    BY <1>4, LoginIs DEF script
  <2>2. age' <= MkaTicks /\ ReauthPeriod <= timer' + age' /\ session' # 0
    BY <2>1 DEF Typed
  <2>3. \A e \in Ends : got'[e] <= session'
    BY <2>1 DEF LinkInv, Typed
  <2>. QED
    BY <2>1, <2>2, <2>3, Zenon DEF LinkInv
<1>5. CASE LoginFails
  <2>1. /\ ~eap' /\ failed' /\ Converged' /\ UNCHANGED <<session, got>> /\ \A e \in Ends : mka'[e] = Gone
    BY <1>5, FailureIs DEF script
  <2>2. \A e \in Ends : mka'[e].old = "absent"
    BY <2>1 DEF Gone
  <2>. QED
    BY <2>1, <2>2, Zenon DEF LinkInv
<1>6. CASE Swap
  <2>1. /\ ~eap /\ authorized /\ ~Converged /\ UNCHANGED <<session, eap, timer, age, authorized, got, failed>>
        /\ (\A e \in Ends : mka[e].old = "absent") => \A e \in Ends : mka'[e].old = "absent"
    BY <1>6, SwapIs DEF script
  <2>. QED
    BY <2>1, Zenon DEF LinkInv
<1>7. CASE Radius
  <2>1. UNCHANGED <<session, eap, timer, age, authorized, mka, got, failed, Converged>>
    <3>1. UNCHANGED <<link, script, hist>>
      BY <1>7 DEF Radius, RadiusStops, RadiusReturns
    <3>. QED
      BY <3>1, Zenon DEF link, script, hist, Converged
  <2>. QED
    BY <2>1, Zenon DEF LinkInv
<1>8. CASE UNCHANGED world /\ (failed => failed') /\ \A e \in Ends : got'[e] <= session
  <2>1. UNCHANGED <<session, eap, timer, age, authorized, mka, Converged>>
    BY <1>8, WorldIs
  <2>. QED
    BY <1>8, <2>1, Zenon DEF LinkInv
<1>9. \A e \in Ends : got[e] <= session /\ 0 <= session
  BY DEF LinkInv, Typed
<1>10. CASE Stops
  <2>1. UNCHANGED world /\ failed' \in {failed, TRUE} /\ got' = [e \in Ends |-> 0]
    BY <1>10, Zenon DEF Stops
  <2>2. \A e \in Ends : got'[e] = 0
    BY <2>1
  <2>3. \A e \in Ends : got'[e] <= session
    BY <1>9, <2>2, Zenon
  <2>4. failed => failed'
    BY <2>1, Zenon
  <2>. QED
    BY <1>8, <2>1, <2>3, <2>4, Zenon
<1>11. CASE Retries \/ Passes \/ Waits
  <2>1. UNCHANGED <<world, reads, hist>>
    BY <1>11, Zenon DEF Retries, Passes, Waits, Goes
  <2>2. UNCHANGED <<got, failed>>
    BY <2>1, Zenon DEF reads, hist
  <2>3. failed => failed'
    BY <2>2, Zenon
  <2>4. \A e \in Ends : got'[e] <= session
    BY <1>9, <2>2, Zenon
  <2>. QED
    BY <1>8, <2>1, <2>3, <2>4, Zenon
<1>12. CASE Reads
  <2>1. UNCHANGED world /\ failed' = failed /\ LivePeers(Switch) # {} /\ Switch \in Ends
    BY <1>12, Zenon DEF Reads, Goes
  <2>2. PICK c \in Ckns(Switch) : got' = [got EXCEPT ![Switch] = c]
    BY <1>12, Zenon DEF Reads
  <2> HIDE DEF Switch
  <2>3. c <= session
    BY <2>1, <2>2, CknsAre
  <2>4. \A e \in Ends : got'[e] = IF e = Switch THEN c ELSE got[e]
    BY <2>1, <2>2 DEF Typed
  <2>5. \A e \in Ends : got'[e] <= session
    BY <1>9, <2>3, <2>4, Zenon
  <2>6. failed => failed'
    BY <2>1, Zenon
  <2>. QED
    BY <1>8, <2>1, <2>5, <2>6, Zenon
<1>13. CASE Counts
  <2>1. UNCHANGED world /\ got' = got /\ (failed' = failed \/ failed' = TRUE)
    BY <1>13 DEF Counts, Goes
  <2>2. \A e \in Ends : got'[e] <= session
    BY <1>9, <2>1, Zenon
  <2>3. failed => failed'
    BY <2>1, Zenon
  <2>. QED
    BY <1>8, <2>1, <2>2, <2>3, Zenon
<1>14. CASE Complete
  <2>1. UNCHANGED world /\ got' = got /\ (failed => failed')
    BY <1>14, Zenon DEF Complete, reads, hist
  <2>2. \A e \in Ends : got'[e] <= session
    BY <1>9, <2>1, Zenon
  <2>. QED
    BY <1>8, <2>1, <2>2, Zenon
<1>. QED
  BY <1>1, <1>2, <1>3, <1>4, <1>5, <1>6, <1>7, <1>10, <1>11, <1>12, <1>13, <1>14, Zenon DEF StepKinds

LEMMA BaseInit ==
    ASSUME Init
    PROVE  Typed /\ LinkInv
<1> HIDE DEF Ends
<1> USE Numbers
<1>1. /\ session = 0 /\ eap = FALSE /\ timer \in 0 .. ReauthPeriod /\ age = 0
      /\ radius = TRUE /\ outages = 0 /\ authorized = TRUE
      /\ mka = [e \in Ends |-> Settled]
      /\ verify \in BOOLEAN
      /\ at = 1 /\ done = "no" /\ sleep = 0 /\ call = 0 /\ attempt = 0
      /\ got = [e \in Ends |-> 0] /\ counted = 0 /\ baseline = 0
      /\ moved = FALSE /\ failed = FALSE
  BY DEF Init
<1>2. Settled \in [Generations -> States] /\ Settled.old = "absent"
  BY DEF Settled, Generations, States
<1>3. mka \in [Ends -> [Generations -> States]] /\ \A e \in Ends : mka[e] = Settled
  BY <1>1, <1>2
<1>4. got \in [Ends -> Nat] /\ \A e \in Ends : got[e] <= session
  BY <1>1
<1>5. /\ session \in Nat /\ age \in 0 .. (EapTicks + MkaTicks) /\ outages \in 0 .. MaxOutages
      /\ at \in 1 .. (Length + 1) /\ done \in Dones
      /\ sleep \in 0 .. (ReauthPeriod + ReauthBuffer) \cup 0 .. PollInterval
      /\ call \in 0 .. CallTicks /\ attempt \in 0 .. (PollAttempts - 1)
      /\ counted \in Nat /\ baseline \in Nat
  BY <1>1 DEF Length, Dones
<1>6. Typed
  BY <1>1, <1>3, <1>4, <1>5, Zenon DEF Typed
<1>7. Converged
  BY <1>3 DEF Converged
<1>. QED
  BY <1>1, <1>2, <1>3, <1>4, <1>6, <1>7, Zenon DEF LinkInv

Based == Typed /\ LinkInv

\* Everything that the program and the link do keeps the types and the bounds
\* of the link.
LEMMA BaseAlways == Spec => []Based
<1>1. Init => Based
  BY BaseInit DEF Based
<1>2. Based /\ [Next]_vars => Based'
  BY NextIs, TypedStep, LinkStep DEF Based
<1>. QED
  BY <1>1, <1>2, PTL DEF Spec

\* Every variable keeps its type: the place in the script stays within Plan,
\* and the attempts stay below the bound of check_mka_participants().
THEOREM Dot1xTypes == Spec => []TypeOK
<1>1. Based => TypeOK
  <2>1. Typed => Len(Plan) = Length
    BY PlanIs DEF Typed
  <2>. QED
    BY <2>1, Zenon DEF Based, Typed, TypeOK, Dones
<1>. QED
  BY <1>1, BaseAlways, PTL

-------------------------------------------------------------------------------
(* The peers disagree only while a CKN changes.                            *)

LEMMA EndsAre ==
    /\ AUTHENTICATOR \in Ends /\ SUPPLICANT \in Ends /\ AUTHENTICATOR # SUPPLICANT
    /\ \A e \in Ends : e = AUTHENTICATOR \/ e = SUPPLICANT
BY DEF Ends, AUTHENTICATOR, SUPPLICANT

LEMMA GoesIs ==
    ASSUME Typed, NEW p, Goes(p)
    PROVE  /\ Running /\ Running' /\ sleep = 0 /\ at' = at + 1 /\ sleep' = p /\ call' = 0 /\ attempt' = 0
           /\ done = "no" /\ done' = "no" /\ at \in Nat
           /\ UNCHANGED <<session, eap, timer, age, authorized, mka, verify>>
           /\ Length' = Length /\ CknPlaces' = CknPlaces
           /\ Converged' = Converged /\ Quiet' = Quiet /\ NoOldPeers' = NoOldPeers /\ Due' = Due
<1>1. UNCHANGED world
  BY DEF Goes
<1>2. Running /\ sleep = 0 /\ at' = at + 1 /\ sleep' = p /\ call' = 0 /\ attempt' = 0 /\ done' = done
  BY Zenon DEF Goes
<1>3. done = "no" /\ done' = "no" /\ Running'
  BY <1>2, Zenon DEF Running
<1>4. at \in Nat
  BY DEF Typed
<1>. QED
  BY <1>1, <1>2, <1>3, <1>4, WorldIs, Zenon

LEMMA QuietIs ==
    ASSUME Quiet
    PROVE  NoOldPeers
BY DEF Quiet, NoOldPeers, Settled, Gone

\* A step that moves neither the script nor a CKN.
LEMMA MovedFrame ==
    ASSUME MovedInv, UNCHANGED <<session, got, at, done, verify>>, moved => moved',
           moved' \/ (Quiet => Quiet')
    PROVE  MovedInv'
BY Zenon DEF MovedInv, Between, BetweenV, Running, Agrees

LEMMA MovedStep ==
    ASSUME Typed, LinkInv, MovedInv, StepKinds
    PROVE  MovedInv'
<1> HIDE DEF Ends, AUTHENTICATOR, SUPPLICANT, Switch
<1>1. CASE UNCHANGED vars
  BY <1>1, MovedFrame, Zenon DEF Quiet, vars, link, script, hist
<1>2. CASE Tick
  <2>1. UNCHANGED <<session, eap, authorized, mka, server, verify, at, done, attempt, reads, hist>>
    BY <1>2, TickIs
  <2>. QED
    BY <2>1, MovedFrame, Zenon DEF Quiet, reads, hist
<1>3. CASE Reauthenticate
  BY <1>3, MovedFrame, Zenon DEF Reauthenticate, Quiet, script, hist
<1>4. CASE LoginOk \/ Swap
  <2>1. moved'
    BY <1>4, LoginIs, SwapIs
  <2>. QED
    BY <2>1, Zenon DEF MovedInv
<1>5. CASE LoginFails
  <2>1. UNCHANGED <<session, server, verify, script, moved>> /\ Quiet'
    BY <1>5, FailureIs
  <2>. QED
    BY <2>1, MovedFrame, Zenon DEF script
<1>6. CASE Radius
  <2>1. UNCHANGED <<link, verify, script, hist>>
    BY <1>6 DEF Radius, RadiusStops, RadiusReturns
  <2>. QED
    BY <2>1, MovedFrame, Zenon DEF Quiet, link, script, hist
<1>7. CASE Stops
  <2>1. ~Running' /\ moved' = moved /\ Running
    BY <1>7 DEF Stops, Running
  <2>2. done' = "compare" => (at = 10 \/ (verify /\ at = 20)) /\ ~Agrees
    BY <1>7, Zenon DEF Stops
  <2>3. (at = 10 => Between(10, 10)) /\ (verify /\ at = 20 => BetweenV(20, 20))
    BY <2>1 DEF Between, BetweenV
  <2>4. done' = "compare" => moved
    BY <2>2, <2>3, Zenon DEF MovedInv
  <2>. QED
    BY <2>1, <2>4, Zenon DEF MovedInv, Between, BetweenV
<1>8. CASE Retries
  <2>1. UNCHANGED <<world, at, done, reads, hist>>
    BY <1>8 DEF Retries
  <2>. QED
    <3>1. UNCHANGED <<session, verify>> /\ Quiet' = Quiet
      BY <2>1, WorldIs
    <3>. QED
      BY <2>1, <3>1, MovedFrame, Zenon DEF reads, hist
<1>9. CASE Passes
  <2>1. Goes(0) /\ at \notin CknPlaces /\ UNCHANGED <<reads, hist>>
    BY <1>9, Zenon DEF Passes
  <2>2. UNCHANGED <<got, moved>>
    BY <2>1, Zenon DEF reads, hist
  <2>3. /\ Between(6, 10)' => Between(6, 10) /\ at' # 10
        /\ BetweenV(19, 20)' => BetweenV(19, 20) /\ at' # 20
        /\ Between(10, 10)' => at' = 10 /\ Between(6, 10)'
        /\ BetweenV(20, 20)' => at' = 20 /\ BetweenV(19, 20)'
    BY <2>1, GoesIs DEF Between, BetweenV, CknPlaces
  <2>4. session' = session /\ Quiet' = Quiet /\ done' = "no"
    BY <2>1, GoesIs
  <2>5. done' # "compare"
    BY <2>4
  <2>. QED
    BY <2>2, <2>3, <2>4, <2>5, Zenon DEF MovedInv
<1>10. CASE Reads
  <2>1. /\ Goes(0) /\ at \in CknPlaces /\ LivePeers(Switch) # {} /\ Switch \in Ends
        /\ Switch = AUTHENTICATOR <=> at \in {5, 18}
        /\ moved' = IF Switch = AUTHENTICATOR THEN ~Converged ELSE moved
    BY <1>10, Zenon DEF Reads
  <2>2. PICK c \in Ckns(Switch) : got' = [got EXCEPT ![Switch] = c]
    BY <1>10, Zenon DEF Reads
  <2>3. (NoOldPeers => c = session) /\ authorized
    BY <2>1, <2>2, CknsAre
  <2>4. got'[Switch] = c /\ (Switch # AUTHENTICATOR => Switch = SUPPLICANT /\ got'[AUTHENTICATOR] = got[AUTHENTICATOR])
    BY <2>1, <2>2, EndsAre DEF Typed
  <2>5. session' = session /\ Quiet' = Quiet /\ done' = "no" /\ at' = at + 1 /\ Running /\ Running' /\ at \in Nat
        /\ verify' = verify
    BY <2>1, GoesIs
  <2>6. done' # "compare"
    BY <2>5
  <2>7. CASE at \in {5, 18}
    <3>1. Switch = AUTHENTICATOR
      BY <2>1, <2>7
    <3>2. ~moved' => Converged
      BY <2>1, <3>1, Zenon
    <3>3. ~moved' => Quiet
      BY <2>3, <3>2 DEF Converged, Quiet
    <3>4. ~moved' => got'[AUTHENTICATOR] = session' /\ Quiet'
      BY <2>3, <2>4, <2>5, <3>1, <3>3, QuietIs
    <3>5. ~Between(10, 10)' /\ ~BetweenV(20, 20)'
      BY <2>5, <2>7 DEF Between, BetweenV
    <3>. QED
      BY <2>6, <3>4, <3>5, Zenon DEF MovedInv
  <2>8. CASE at \notin {5, 18}
    <3>1. Switch = SUPPLICANT /\ got'[AUTHENTICATOR] = got[AUTHENTICATOR] /\ moved' = moved
      BY <2>1, <2>4, <2>8
    <3>2. Between(6, 10) \/ BetweenV(19, 20)
      BY <2>1, <2>5, <2>8 DEF Between, BetweenV, CknPlaces
    <3>3. ~moved' => got[AUTHENTICATOR] = session /\ Quiet
      BY <3>1, <3>2, Zenon DEF MovedInv
    <3>4. ~moved' => got'[SUPPLICANT] = session
      BY <2>3, <2>4, <3>1, <3>3, QuietIs
    <3>5. ~moved' => got'[AUTHENTICATOR] = session' /\ Quiet' /\ Agrees'
      BY <2>5, <3>1, <3>3, <3>4 DEF Agrees
    <3>. QED
      BY <2>6, <3>5, Zenon DEF MovedInv
  <2>. QED
    BY <2>7, <2>8
<1>11. CASE Counts \/ Waits
  <2>1. PICK p : Goes(p) /\ verify /\ at \in {13, 14}
    BY <1>11 DEF Counts, Waits
  <2>2. done' = "no" /\ at' = at + 1
    BY <2>1, GoesIs
  <2>3. ~Between(6, 10)' /\ ~BetweenV(19, 20)' /\ ~Between(10, 10)' /\ ~BetweenV(20, 20)' /\ done' # "compare"
    BY <2>1, <2>2 DEF Between, BetweenV
  <2>. QED
    BY <2>3, Zenon DEF MovedInv
<1>12. CASE Complete
  <2>1. ~Running' /\ done' # "compare"
    BY <1>12 DEF Complete, Running
  <2>. QED
    BY <2>1, Zenon DEF MovedInv, Between, BetweenV
<1>. QED
  BY <1>1, <1>2, <1>3, <1>4, <1>5, <1>6, <1>7, <1>8, <1>9, <1>10, <1>11, <1>12, Zenon DEF StepKinds

-------------------------------------------------------------------------------
(* The polling outlasts every change of participants.                      *)

\* The polls of one loop take longer than the participants' change, which is
\* over, with a poll and a call, well before the next reauthentication.
PollingIsLong == MkaTicks < (PollAttempts - 1) * PollInterval
PeriodIsLong == PollInterval + CallTicks + MkaTicks < ReauthPeriod

\* Without peers an end has not converged, unless an exchange failed.
LEMMA NoPeers ==
    ASSUME Typed, LinkInv, NEW e \in Ends, LivePeers(e) = {}, ~failed
    PROVE  ~Converged /\ ~eap /\ age <= MkaTicks /\ ReauthPeriod <= timer + age
<1> HIDE DEF Ends
<1>1. mka[e] # Settled
  <2>1. SUFFICES ASSUME mka[e] = Settled PROVE FALSE
    OBVIOUS
  <2>2. "new" \in LivePeers(e)
    BY <2>1 DEF LivePeers, Settled, Generations
  <2>. QED
    BY <2>2
<1>2. authorized
  BY DEF LinkInv
<1>3. ~Converged
  BY <1>1, <1>2 DEF Converged
<1>4. ~eap
  BY <1>3, Zenon DEF LinkInv
<1>. QED
  BY <1>3, <1>4, Zenon DEF LinkInv

LEMMA PollTick ==
    ASSUME Typed, Polling, Patient, Observed, Tick
    PROVE  Patient'
<1> HIDE DEF Observed, Converged
<1> USE Numbers
<1>1. /\ ~eap /\ ~eap' /\ attempt' = attempt /\ timer' = timer - 1
      /\ ~Converged => age' = age + 1
  BY TickIs DEF Patient
<1>2. Converged' = Converged
  <2>1. UNCHANGED <<session, eap, authorized, mka, server, verify, at, done, attempt, reads, hist>>
    BY TickIs
  <2>. QED
    BY <2>1, Zenon DEF Converged
<1>3. IF sleep = 0 THEN sleep' = 0 /\ call' = call + 1 ELSE sleep' = sleep - 1 /\ call' = 0
  BY TickIs
<1>4. sleep \in Nat /\ call \in Nat /\ timer \in Nat /\ age \in Nat
  BY DEF Typed
<1>5. /\ sleep <= PollInterval /\ (0 < sleep => call = 0)
      /\ ReauthPeriod + sleep <= timer + PollInterval + call + MkaTicks
  BY DEF Patient
<1>6. /\ sleep' <= PollInterval /\ (0 < sleep' => call' = 0)
      /\ ReauthPeriod + sleep' <= timer' + PollInterval + call' + MkaTicks
  BY <1>1, <1>3, <1>4, <1>5
<1> DEFINE waited == attempt * PollInterval
<1>7. waited \in Nat /\ waited' = waited
  BY <1>1 DEF Typed
<1>8. Converged \/ waited <= age + sleep
  BY DEF Patient
<1> HIDE DEF waited
<1>9. ~Converged => waited <= age' + sleep'
  BY <1>1, <1>3, <1>4, <1>7, <1>8
<1>. QED
  BY <1>1, <1>2, <1>6, <1>7, <1>9 DEF Patient, waited

LEMMA PollStep ==
    ASSUME Typed, LinkInv, PollInv, StepKinds, PollingIsLong, PeriodIsLong
    PROVE  PollInv'
<1> HIDE DEF Ends, Switch
<1> USE Numbers
<1>1. CASE UNCHANGED vars
  BY <1>1, Zenon DEF PollInv, Polling, Patient, Running, CknPlaces, Converged, vars, link, script, hist
<1>2. CASE Tick
  <2>1. UNCHANGED <<session, eap, authorized, mka, server, verify, at, done, attempt, reads, hist>>
    BY <1>2, TickIs
  <2>2. Polling' => Polling
    BY <2>1, Zenon DEF Polling, Running, CknPlaces, hist
  <2>3. Polling => Observed
    <3>1. Places
      BY PlacesAre DEF Typed
    <3>2. Polling => Running /\ at \in (1 .. 12) \cup (IF verify THEN 13 .. 21 ELSE {})
      BY DEF Polling, CknPlaces
    <3>. QED
      BY <3>1, <3>2, Zenon DEF Places
  <2>4. Polling' => Patient'
    BY <1>2, <2>2, <2>3, PollTick, Zenon DEF PollInv
  <2>. QED
    BY <2>1, <2>4, Zenon DEF PollInv, hist
<1>3. CASE Reauthenticate
  <2>1. timer = 0 /\ UNCHANGED <<server, verify, script, hist>>
    BY <1>3, ReauthIs
  <2>2. Polling' => Polling
    BY <2>1, Zenon DEF Polling, Running, CknPlaces, script, hist
  <2>3. ~Polling
    BY <2>1 DEF PollInv, Patient, PeriodIsLong, Typed
  <2>. QED
    BY <2>1, <2>2, <2>3, Zenon DEF PollInv, script, hist
<1>4. CASE LoginOk
  <2>1. eap /\ UNCHANGED <<server, verify, script, failed>>
    BY <1>4, LoginIs
  <2>2. Polling' => Polling
    BY <2>1, Zenon DEF Polling, Running, CknPlaces, script
  <2>. QED
    BY <2>1, <2>2, Zenon DEF PollInv, Patient, script
<1>5. CASE LoginFails
  <2>1. failed'
    BY <1>5, FailureIs
  <2>. QED
    BY <2>1, Zenon DEF PollInv, Polling
<1>6. CASE Swap
  <2>1. ~Converged /\ UNCHANGED <<session, eap, timer, age, authorized, server, verify, script, failed>>
    BY <1>6, SwapIs
  <2>. QED
    BY <2>1, Zenon DEF PollInv, Polling, Patient, Running, CknPlaces, script
<1>7. CASE Radius
  <2>1. UNCHANGED <<link, verify, script, hist>>
    BY <1>7 DEF Radius, RadiusStops, RadiusReturns
  <2>. QED
    BY <2>1, Zenon DEF PollInv, Polling, Patient, Running, CknPlaces, Converged, link, script, hist
<1>8. CASE Stops
  <2>1. ~Running' /\ Running
    BY <1>8 DEF Stops, Running
  <2>2. done' = "ckn" => at \in CknPlaces /\ sleep = 0 /\ LivePeers(Switch) = {} /\ Switch \in Ends
                         /\ ~(attempt + 1 < PollAttempts) /\ failed' = failed
    BY <1>8, Zenon DEF Stops
  <2>3. ASSUME done' = "ckn", ~failed
        PROVE  FALSE
    <3>1. ~Converged /\ age <= MkaTicks
      BY <2>2, <2>3, NoPeers
    <3>2. attempt = PollAttempts - 1
      BY <2>2, <2>3 DEF Typed
    <3>3. attempt * PollInterval = (PollAttempts - 1) * PollInterval
      BY <3>2, Zenon
    <3>4. CASE attempt = 0
      <4>1. PollAttempts = 1
        BY <3>2, <3>4
      <4>. QED
        BY <4>1 DEF PollingIsLong
    <3>5. CASE 0 < attempt
      <4>1. Patient
        BY <2>1, <2>2, <2>3, <3>5, Zenon DEF PollInv, Polling
      <4>2. (PollAttempts - 1) * PollInterval <= age + sleep /\ sleep = 0
        BY <2>2, <2>3, <3>1, <3>3, <4>1 DEF Patient
      <4> DEFINE all == (PollAttempts - 1) * PollInterval
      <4>3. all \in Nat /\ MkaTicks < all /\ all <= age + sleep
        BY <3>2, <4>2 DEF PollingIsLong, Typed
      <4> HIDE DEF all
      <4>. QED
        BY <3>1, <4>2, <4>3 DEF Typed
    <3>. QED
      BY <3>4, <3>5 DEF Typed
  <2>. QED
    BY <2>1, <2>2, <2>3, Zenon DEF PollInv, Polling
<1>9. CASE Retries
  <2>1. UNCHANGED <<world, at, done, reads, hist>> /\ Running /\ sleep = 0
    BY <1>9 DEF Retries
  <2>2. /\ at \in CknPlaces => LivePeers(Switch) = {} /\ Switch \in Ends
        /\ attempt' = attempt + 1 /\ sleep' = PollInterval /\ call' = 0
    BY <1>9, Zenon DEF Retries
  <2>3. /\ UNCHANGED <<eap, timer, age, failed>> /\ Converged' = Converged /\ CknPlaces' = CknPlaces
    <3>1. UNCHANGED <<eap, timer, age>> /\ Converged' = Converged /\ CknPlaces' = CknPlaces
      BY <2>1, WorldIs
    <3>. QED
      BY <2>1, <3>1, Zenon DEF hist
  <2>4. ASSUME Polling'
        PROVE  Patient'
    <3>1. at \in CknPlaces /\ ~failed
      BY <2>1, <2>3, <2>4, Zenon DEF Polling
    <3>2. ~Converged /\ ~eap /\ age <= MkaTicks /\ ReauthPeriod <= timer + age
      BY <2>2, <3>1, NoPeers
    <3>3. attempt * PollInterval <= age
      <4>1. CASE attempt = 0
        BY <4>1 DEF Typed
      <4>2. CASE 0 < attempt
        <5>1. attempt * PollInterval <= age + sleep
          BY <2>1, <3>1, <3>2, <4>2, Zenon DEF PollInv, Polling, Patient
        <5> DEFINE waited == attempt * PollInterval
        <5>2. waited \in Nat /\ waited <= age + 0
          BY <2>1, <5>1 DEF Typed
        <5> HIDE DEF waited
        <5>3. waited <= age
          BY <5>2 DEF Typed
        <5>. QED
          BY <5>3 DEF waited
      <4>. QED
        BY <4>1, <4>2 DEF Typed
    <3>4. attempt' * PollInterval <= age' + sleep'
      <4> DEFINE waited == attempt * PollInterval
      <4>1. waited \in Nat /\ (attempt + 1) * PollInterval = waited + PollInterval /\ waited <= age
        BY <3>3 DEF Typed
      <4> HIDE DEF waited
      <4>2. (attempt + 1) * PollInterval <= age + PollInterval
        BY <4>1 DEF Typed
      <4>. QED
        BY <2>2, <2>3, <4>2, Zenon
    <3>5. /\ ReauthPeriod + sleep' <= timer' + PollInterval + call' + MkaTicks
          /\ sleep' <= PollInterval
      BY <2>2, <2>3, <3>2 DEF Typed
    <3>. QED
      BY <2>2, <2>3, <3>2, <3>4, <3>5, Zenon DEF Patient
  <2>5. done' # "ckn"
    BY <2>1 DEF Running
  <2>. QED
    BY <2>4, <2>5, Zenon DEF PollInv
<1>10. CASE Passes \/ Reads \/ Counts \/ Waits
  <2>1. PICK p \in {0, ReauthPeriod + ReauthBuffer} : Goes(p)
    BY <1>10 DEF Passes, Reads, Counts, Waits
  <2>2. ~(0 < attempt') /\ done' # "ckn"
    BY <2>1, GoesIs
  <2>. QED
    BY <2>2, Zenon DEF PollInv, Polling
<1>11. CASE Complete
  <2>1. ~Running' /\ done' # "ckn"
    BY <1>11 DEF Complete, Running
  <2>. QED
    BY <2>1, Zenon DEF PollInv, Polling
<1>. QED
  BY <1>1, <1>2, <1>3, <1>4, <1>5, <1>6, <1>7, <1>8, <1>9, <1>10, <1>11, Zenon DEF StepKinds

-------------------------------------------------------------------------------
(* The wait contains a login.                                              *)

\* An exchange is shorter than the buffer of the wait.
BufferIsLong == EapTicks < ReauthBuffer

LEMMA WatchedIs ==
    ASSUME Typed, BetweenV(13, 21) \/ Between(1, 12)
    PROVE  Observed
<1>1. Places
  BY PlacesAre DEF Typed
<1>2. Running /\ at \in (1 .. 12) \cup (IF verify THEN 13 .. 21 ELSE {})
  BY DEF Between, BetweenV, Typed
<1>. QED
  BY <1>1, <1>2, Zenon DEF Places

LEMMA AwaitedTick ==
    ASSUME Typed, LinkInv, Awaited, Observed, Tick, BufferIsLong
    PROVE  Awaited'
<1> HIDE DEF Observed, Converged
<1> USE Numbers
<1>1. sleep' = sleep - 1 /\ 0 < sleep /\ eap' = eap
  BY TickIs DEF Awaited
<1>2. /\ eap => age < EapTicks /\ age' = age + 1
      /\ ~eap => 0 < timer /\ timer' = timer - 1
  BY TickIs
<1>3. sleep \in Nat /\ age \in Nat /\ timer \in Nat
  BY DEF Typed
<1>4. CASE eap
  <2>1. EapTicks - age + ReauthBuffer <= sleep + EapTicks
    BY <1>4 DEF Awaited, Due
  <2>2. 0 < sleep' /\ EapTicks - age' + ReauthBuffer <= sleep' + EapTicks
    BY <1>1, <1>2, <1>3, <1>4, <2>1 DEF BufferIsLong
  <2>. QED
    BY <1>1, <1>4, <2>2 DEF Awaited, Due
<1>5. CASE ~eap
  <2>1. timer + EapTicks + ReauthBuffer <= sleep + EapTicks
    BY <1>5 DEF Awaited, Due
  <2>2. 0 < sleep' /\ timer' + EapTicks + ReauthBuffer <= sleep' + EapTicks
    BY <1>1, <1>2, <1>3, <1>5, <2>1 DEF BufferIsLong
  <2>. QED
    BY <1>1, <1>5, <2>2 DEF Awaited, Due
<1>. QED
  BY <1>4, <1>5

LEMMA AwaitedStarts ==
    ASSUME Typed, Waits
    PROVE  Awaited'
<1> USE Numbers
<1>1. sleep' = ReauthPeriod + ReauthBuffer /\ Due' = Due
  BY GoesIs DEF Waits
<1>2. Due <= ReauthPeriod + EapTicks /\ Due \in Int
  BY DEF Due, Typed
<1>. QED
  BY <1>1, <1>2 DEF Awaited

LEMMA AwaitedReauth ==
    ASSUME Typed, Reauthenticate
    PROVE  Due' = Due /\ Awaited' = Awaited
<1>1. Due' = Due
  BY Numbers, ReauthIs DEF Due
<1>2. sleep' = sleep
  BY ReauthIs DEF script
<1>. QED
  BY <1>1, <1>2, Zenon DEF Awaited

LEMMA CountFrame ==
    ASSUME CountInv, UNCHANGED <<session, counted, at, done, verify, failed>>,
           Awaited => Awaited'
    PROVE  CountInv'
BY Zenon DEF CountInv, Between, BetweenV, Running

LEMMA CountStep ==
    ASSUME Typed, LinkInv, CountInv, StepKinds, BufferIsLong
    PROVE  CountInv'
<1> HIDE DEF Ends, Switch
<1> USE Numbers
<1>0. session \in Nat /\ counted \in Nat /\ at \in Nat
  BY DEF Typed
<1>1. CASE UNCHANGED vars
  BY <1>1, CountFrame, Zenon DEF Awaited, Due, vars, link, script, hist
<1>2. CASE Tick
  <2>1. UNCHANGED <<session, eap, authorized, mka, server, verify, at, done, attempt, reads, hist>>
    BY <1>2, TickIs
  <2>2. BetweenV(14, 21) => Observed
    BY WatchedIs, <1>0 DEF BetweenV, Between
  <2>3. CASE BetweenV(14, 21)
    BY <1>2, <2>1, <2>2, <2>3, AwaitedTick, CountFrame, Zenon DEF reads, hist
  <2>4. CASE ~BetweenV(14, 21)
    <3>1. ~BetweenV(14, 21)'
      BY <2>1, <2>4, Zenon DEF Between, BetweenV, Running
    <3>2. BetweenV(15, 21)' => BetweenV(14, 21)'
      BY <1>0, <2>1 DEF Between, BetweenV
    <3>. QED
      BY <2>1, <3>1, <3>2, Zenon DEF CountInv, hist
  <2>. QED
    BY <2>3, <2>4
<1>3. CASE Reauthenticate
  <2>1. UNCHANGED <<session, timer, authorized, mka, server, verify, script, hist>>
    BY <1>3, ReauthIs
  <2>. QED
    <3>1. Awaited => Awaited'
      BY <1>3, AwaitedReauth
    <3>. QED
      BY <2>1, <3>1, CountFrame, Zenon DEF script, hist
<1>4. CASE LoginOk
  <2>1. session' = session + 1 /\ UNCHANGED <<server, verify, script, failed>>
    BY <1>4, LoginIs
  <2>2. BetweenV(14, 21)' => BetweenV(14, 21)
    BY <2>1, Zenon DEF Between, BetweenV, Running, script
  <2>3. BetweenV(14, 21) /\ ~failed => counted' <= session' /\ counted' <= session' + 1
    BY <1>0, <2>1 DEF CountInv, script
  <2>4. BetweenV(15, 21)' => BetweenV(14, 21)'
    BY <1>0, <2>1 DEF Between, BetweenV, script
  <2>. QED
    BY <2>1, <2>2, <2>3, <2>4, Zenon DEF CountInv, script
<1>5. CASE LoginFails
  <2>1. failed'
    BY <1>5, FailureIs
  <2>. QED
    BY <2>1, Zenon DEF CountInv
<1>6. CASE Swap
  <2>1. UNCHANGED <<session, eap, timer, age, authorized, server, verify, script, failed>>
    BY <1>6, SwapIs
  <2>. QED
    BY <2>1, CountFrame, Zenon DEF Awaited, Due, script
<1>7. CASE Radius
  <2>1. UNCHANGED <<link, verify, script, hist>>
    BY <1>7 DEF Radius, RadiusStops, RadiusReturns
  <2>. QED
    BY <2>1, CountFrame, Zenon DEF Awaited, Due, link, script, hist
<1>8. CASE Stops
  <2>1. ~Running' /\ Running
    BY <1>8 DEF Stops, Running
  <2>2. /\ failed' = failed \/ failed' = TRUE
        /\ done' = "recount" => failed' \/ (verify /\ at = 21 /\ ~(Logins > counted) /\ failed' = failed)
    BY <1>8 DEF Stops
  <2>3. ASSUME verify, at = 21, ~(Logins > counted), ~failed
        PROVE  FALSE
    <3>1. BetweenV(15, 21)
      BY <2>1, <2>3 DEF Between, BetweenV
    <3>2. counted <= session
      BY <2>3, <3>1 DEF CountInv
    <3>. QED
      BY <1>0, <2>3, <3>2 DEF Logins
  <2>4. done' = "recount" => failed'
    <3>1. verify /\ at = 21 /\ ~(Logins > counted) => failed
      BY <2>3
    <3>2. CASE failed
      BY <2>2, <3>2, Zenon
    <3>3. CASE ~failed
      BY <2>2, <3>1, <3>3, Zenon
    <3>. QED
      BY <3>2, <3>3
  <2>. QED
    BY <2>1, <2>4, Zenon DEF CountInv, Between, BetweenV
<1>9. CASE Retries
  <2>1. UNCHANGED <<world, at, done, reads, hist>> /\ sleep = 0
    BY <1>9 DEF Retries
  <2>2. UNCHANGED <<session, verify>> /\ ~Awaited
    BY <2>1, WorldIs DEF Awaited
  <2>. QED
    BY <2>1, <2>2, CountFrame, Zenon DEF reads, hist
<1>10. CASE Passes \/ Reads
  <2>1. Goes(0) /\ UNCHANGED <<counted, failed>> /\ (verify => at \notin {13, 14})
    <3>1. CASE Passes
      BY <3>1, Zenon DEF Passes, reads, hist
    <3>2. CASE Reads
      <4>1. Goes(0) /\ UNCHANGED <<counted, baseline, failed>> /\ at \in CknPlaces
        BY <3>2, Zenon DEF Reads
      <4>2. at \notin {13, 14}
        BY <4>1 DEF CknPlaces
      <4>. QED
        BY <4>1, <4>2, Zenon
    <3>. QED
      BY <1>10, <3>1, <3>2
  <2>2. at' = at + 1 /\ session' = session /\ verify' = verify /\ sleep = 0 /\ Running /\ done' = "no"
    BY <2>1, GoesIs
  <2>3. BetweenV(14, 21)' => BetweenV(15, 21) /\ BetweenV(14, 21)
    BY <1>0, <2>1, <2>2 DEF Between, BetweenV
  <2>4. ~Awaited
    BY <2>2 DEF Awaited
  <2>5. BetweenV(15, 21)' => BetweenV(15, 21)
    BY <1>0, <2>1, <2>2 DEF Between, BetweenV
  <2>6. done' # "recount"
    BY <2>2
  <2>. QED
    BY <2>1, <2>2, <2>3, <2>4, <2>5, <2>6, Zenon DEF CountInv
<1>11. CASE Counts
  <2>1. Goes(0) /\ at = 13
    BY <1>11, Zenon DEF Counts
  <2>2. at' = 14 /\ session' = session /\ done' = "no"
    BY <2>1, GoesIs
  <2>3. failed' \/ counted' = session + 1
    BY <1>11 DEF Counts, Logins
  <2>4. ~BetweenV(15, 21)' /\ done' # "recount"
    BY <2>2 DEF Between, BetweenV
  <2>5. ~failed' => counted' <= session' + 1
    BY <1>0, <2>2, <2>3
  <2>. QED
    BY <2>4, <2>5, Zenon DEF CountInv
<1>12. CASE Waits
  <2>1. Goes(ReauthPeriod + ReauthBuffer) /\ UNCHANGED <<reads, hist>> /\ verify /\ at = 14
    BY <1>12, Zenon DEF Waits
  <2>2. at' = 15 /\ session' = session /\ done' = "no" /\ Running
    <3>1. PICK p : Goes(p)
      BY <2>1, Zenon
    <3>2. at' = at + 1 /\ session' = session /\ done' = "no" /\ Running
      BY <3>1, GoesIs
    <3>3. at = 14
      BY <2>1, Zenon
    <3>. QED
      BY <3>2, <3>3
  <2>3. BetweenV(14, 21) /\ done' # "recount"
    BY <2>1, <2>2 DEF Between, BetweenV
  <2>4. counted' = counted /\ failed' = failed
    BY <2>1, Zenon DEF reads, hist
  <2>. QED
    BY <1>12, <2>2, <2>3, <2>4, AwaitedStarts, Zenon DEF CountInv
<1>13. CASE Complete
  <2>1. ~Running' /\ done' # "recount"
    BY <1>13 DEF Complete, Running
  <2>. QED
    BY <2>1, Zenon DEF CountInv, Between, BetweenV
<1>. QED
  BY <1>1, <1>2, <1>3, <1>4, <1>5, <1>6, <1>7, <1>8, <1>9, <1>10, <1>11, <1>12, <1>13, Zenon DEF StepKinds

\* A missing login or missing peers are reported only after a failed exchange
\* or count, and peers that disagree only when a CKN was changing: the polling
\* is longer than a change of participants and ends before the next exchange,
\* and the buffer of the wait is longer than an exchange.
THEOREM AlarmsHaveACause ==
    ASSUME PollingIsLong, PeriodIsLong, BufferIsLong
    PROVE  Spec => []AlarmsAreReal
<1> DEFINE Alarms == Based /\ MovedInv /\ PollInv /\ CountInv
<1>1. Init => Alarms
  <2>1. ASSUME Init
        PROVE  MovedInv /\ PollInv /\ CountInv
    <3>1. at = 1 /\ done = "no" /\ attempt = 0
      BY <2>1 DEF Init
    <3>2. /\ ~Between(6, 10) /\ ~BetweenV(19, 20) /\ ~Between(10, 10) /\ ~BetweenV(20, 20)
          /\ ~BetweenV(14, 21) /\ ~BetweenV(15, 21) /\ ~Polling
      BY <3>1 DEF Between, BetweenV, Polling
    <3>3. done \notin {"ckn", "recount", "compare"}
      BY <3>1
    <3>. QED
      BY <3>2, <3>3, Zenon DEF MovedInv, PollInv, CountInv
  <2>. QED
    BY <2>1, BaseInit, Zenon DEF Based
<1>2. Alarms /\ [Next]_vars => Alarms'
  BY NextIs, TypedStep, LinkStep, MovedStep, PollStep, CountStep, Zenon DEF Based
<1>3. Alarms => AlarmsAreReal
  <2>1. done \in {"ckn", "recount"} <=> done = "ckn" \/ done = "recount"
    OBVIOUS
  <2>. QED
    BY <2>1, Zenon DEF MovedInv, PollInv, CountInv, AlarmsAreReal
<1>. QED
  BY <1>1, <1>2, <1>3, PTL DEF Spec

-------------------------------------------------------------------------------
(* The CKNs that are compared are newer than the baseline.                 *)

\* An exchange and the change of participants after it are, too.
WaitIsLong == EapTicks + MkaTicks < ReauthBuffer

LEMMA RotatingTick ==
    ASSUME Typed, LinkInv, Rotating, Observed, Tick, WaitIsLong
    PROVE  Rotating'
<1> HIDE DEF Observed, Converged
<1> USE Numbers
<1>1. ~eap /\ ~Converged /\ baseline < session /\ 0 < sleep /\ ReauthBuffer <= sleep + EapTicks + age
  BY DEF Rotating
<1>2. sleep' = sleep - 1 /\ age' = age + 1 /\ age < MkaTicks
  BY <1>1, TickIs
<1>3. UNCHANGED <<session, eap, baseline>> /\ Converged' = Converged
  <2>1. UNCHANGED <<session, eap, authorized, mka, server, verify, at, done, attempt, reads, hist>>
    BY TickIs
  <2>. QED
    BY <2>1, Zenon DEF Converged, reads
<1>4. sleep \in Nat /\ age \in Nat
  BY DEF Typed
<1>5. 0 < sleep' /\ ReauthBuffer <= sleep' + EapTicks + age'
  BY <1>1, <1>2, <1>4 DEF WaitIsLong
<1>. QED
  BY <1>1, <1>3, <1>5, Zenon DEF Rotating

LEMMA RotationFrame ==
    ASSUME RotationInv, UNCHANGED <<at, done, verify, got, baseline>>,
           baseline <= session => baseline <= session', Rotated => Rotated',
           BetweenV(15, 15) /\ Rotates => Rotates'
    PROVE  RotationInv'
BY Zenon DEF RotationInv, RotationObserved, Between, BetweenV, Running, Rotates

\* The next exchange makes the baseline the old session, or one before it.
LEMMA RotatesLogin ==
    ASSUME Typed, LinkInv, LoginOk, baseline <= session
    PROVE  /\ baseline <= session' /\ (Rotated => Rotated') /\ (Rotates => Rotates')
<1> HIDE DEF Converged
<1> USE Numbers
<1>1. /\ eap /\ ~eap' /\ age' = 0 /\ session' = session + 1 /\ ~Converged'
      /\ UNCHANGED <<server, verify, script, failed>>
      /\ ~authorized => NoOldPeers'
  BY LoginIs
<1>2. baseline' = baseline /\ sleep' = sleep
  BY <1>1 DEF script
<1>3. session \in Nat /\ baseline \in Nat /\ sleep \in Nat /\ age \in Nat
  BY DEF Typed
<1>4. baseline' < session'
  BY <1>1, <1>2, <1>3
<1>5. Rotated => Rotated'
  BY <1>1, <1>2, <1>3 DEF Rotated
<1>6. ~authorized => Rotated'
  BY <1>1, <1>4, Zenon DEF Rotated, NoOldPeers
<1>7. Awaited => Rotating'
  <2>1. age <= EapTicks
    BY <1>1 DEF LinkInv
  <2>2. ASSUME Awaited
        PROVE  0 < sleep' /\ ReauthBuffer <= sleep' + EapTicks + age'
    BY <1>1, <1>2, <1>3, <2>1, <2>2 DEF Awaited, Due
  <2>. QED
    BY <1>1, <1>4, <2>2, Zenon DEF Rotating
<1>8. ~Rotating
  BY <1>1, Zenon DEF Rotating
<1>. QED
  BY <1>1, <1>3, <1>5, <1>6, <1>7, <1>8 DEF Rotates

LEMMA RotatesSwap ==
    ASSUME Typed, LinkInv, Swap
    PROVE  (Rotated => Rotated') /\ (Rotates => Rotates')
<1> HIDE DEF Ends
<1>1. /\ ~eap /\ authorized /\ ~Converged /\ (NoOldPeers => NoOldPeers')
      /\ UNCHANGED <<session, eap, timer, age, authorized, server, verify, script, failed>>
  BY SwapIs
<1>2. UNCHANGED <<sleep, baseline>>
  BY <1>1 DEF script
<1>3. Rotated => Rotated'
  BY <1>1, <1>2, Zenon DEF Rotated, NoOldPeers
<1>4. Awaited => Awaited'
  BY <1>1, <1>2, Zenon DEF Awaited, Due
<1>5. Converged' => NoOldPeers'
  BY <1>1 DEF Converged, NoOldPeers, Settled
<1>6. Rotating /\ Converged' => Rotated'
  BY <1>1, <1>2, <1>5, Zenon DEF Rotating, Rotated, NoOldPeers
<1>7. Rotating /\ ~Converged' => Rotating'
  <2> HIDE DEF Converged
  <2>. QED
    BY <1>1, <1>2, Zenon DEF Rotating
<1>. QED
  BY <1>1, <1>3, <1>4, <1>6, <1>7, Zenon DEF Rotates

LEMMA RotationStep ==
    ASSUME Typed, LinkInv, RotationInv, StepKinds, WaitIsLong
    PROVE  RotationInv'
<1> HIDE DEF Ends, Switch, AUTHENTICATOR, SUPPLICANT
<1> USE Numbers
<1>0. session \in Nat /\ baseline \in Nat /\ at \in Nat /\ at <= Length + 1
  BY DEF Typed, Length
<1>a. BetweenV(15, 15) => baseline <= session
  BY <1>0 DEF RotationInv, Between, BetweenV
<1>b. BufferIsLong
  BY DEF WaitIsLong, BufferIsLong
<1>1. CASE UNCHANGED vars
  BY <1>1, RotationFrame, Zenon DEF Rotates, Rotated, Rotating, Awaited, Due, Converged, vars, link, script, hist
<1>2. CASE Tick
  <2>1. UNCHANGED <<session, eap, authorized, mka, server, verify, at, done, attempt, reads, hist>>
    BY <1>2, TickIs
  <2>2. BetweenV(15, 15) => Observed
    BY WatchedIs, <1>0 DEF BetweenV, Between
  <2>3. Rotated' = Rotated
    BY <2>1, Zenon DEF Rotated, reads
  <2>4. BetweenV(15, 15) /\ Rotates => Rotates'
    BY <1>2, <1>b, <2>1, <2>2, <2>3, AwaitedTick, RotatingTick, Zenon DEF Rotates
  <2>. QED
    BY <2>1, <2>3, <2>4, RotationFrame, Zenon DEF reads
<1>3. CASE Reauthenticate
  <2>1. Converged /\ UNCHANGED <<session, timer, authorized, mka, server, verify, script, hist>>
    BY <1>3, ReauthIs
  <2>2. Awaited => Awaited'
    BY <1>3, AwaitedReauth
  <2>3. Rotated' = Rotated /\ ~Rotating
    BY <2>1, Zenon DEF Rotated, Rotating, script
  <2>4. Rotates => Rotates'
    BY <2>1, <2>2, <2>3, Zenon DEF Rotates
  <2>. QED
    BY <2>1, <2>3, <2>4, RotationFrame, Zenon DEF script
<1>4. CASE LoginOk
  <2>1. session' = session + 1 /\ UNCHANGED <<server, verify, script, failed>>
    BY <1>4, LoginIs
  <2>2. Rotated => baseline <= session
    BY <1>0 DEF Rotated
  <2>3. baseline <= session => baseline <= session'
    BY <1>0, <2>1
  <2>4. Rotated => Rotated'
    BY <1>4, <2>2, RotatesLogin
  <2>5. BetweenV(15, 15) /\ Rotates => Rotates'
    BY <1>4, <1>a, RotatesLogin
  <2>. QED
    BY <2>1, <2>3, <2>4, <2>5, RotationFrame, Zenon DEF script
<1>5. CASE LoginFails
  <2>1. ~authorized' /\ NoOldPeers' /\ UNCHANGED <<session, server, verify, script, moved>>
    BY <1>5, FailureIs
  <2>2. Rotated => Rotated'
    BY <2>1, Zenon DEF Rotated, NoOldPeers, script
  <2>3. Rotates'
    BY <2>1, Zenon DEF Rotates
  <2>. QED
    BY <2>1, <2>2, <2>3, RotationFrame, Zenon DEF script
<1>6. CASE Swap
  <2>1. UNCHANGED <<session, eap, timer, age, authorized, server, verify, script, failed>>
    BY <1>6, SwapIs
  <2>2. (Rotated => Rotated') /\ (Rotates => Rotates')
    BY <1>6, RotatesSwap
  <2>. QED
    BY <2>1, <2>2, RotationFrame, Zenon DEF script
<1>7. CASE Radius
  <2>1. UNCHANGED <<link, verify, script, hist>>
    BY <1>7 DEF Radius, RadiusStops, RadiusReturns
  <2>. QED
    BY <2>1, RotationFrame, Zenon DEF Rotates, Rotated, Rotating, Awaited, Due, Converged, link, script, hist
<1>8. CASE Stops
  <2>1. ~Running' /\ done' # "ok"
    BY <1>8 DEF Stops, Running
  <2>. QED
    BY <2>1, Zenon DEF RotationInv, RotationObserved, Between, BetweenV
<1>9. CASE Retries
  <2>1. UNCHANGED <<world, at, done, reads, hist>> /\ sleep = 0
    BY <1>9 DEF Retries
  <2>2. UNCHANGED <<session, verify, authorized, mka>> /\ ~Awaited
    BY <2>1, WorldIs DEF Awaited
  <2>3. ~Rotating
    BY <2>1 DEF Rotating
  <2>4. Rotated' = Rotated
    BY <2>1, <2>2, Zenon DEF Rotated, reads
  <2>. QED
    BY <2>1, <2>2, <2>3, <2>4, RotationFrame, Zenon DEF Rotates, reads
<1>10. ASSUME NEW p, Goes(p), baseline' = baseline
       PROVE  /\ Rotated' = Rotated /\ at' = at + 1 /\ UNCHANGED <<session, verify, authorized>>
              /\ Running /\ done' # "ok"
  <2>1. at' = at + 1 /\ UNCHANGED <<session, verify, authorized, mka>> /\ Running /\ done' = "no"
    BY <1>10, GoesIs
  <2>2. Rotated' = Rotated
    BY <1>10, <2>1, Zenon DEF Rotated
  <2>. QED
    BY <2>1, <2>2
<1>11. CASE Passes
  <2>1. /\ Goes(0) /\ UNCHANGED <<got, baseline>> /\ at \notin CknPlaces /\ (verify => at \notin {13, 14})
        /\ verify /\ at = 15 => authorized
    BY <1>11, Zenon DEF Passes, reads
  <2>2. /\ Rotated' = Rotated /\ at' = at + 1 /\ UNCHANGED <<session, verify, authorized>>
        /\ Running /\ done' # "ok"
    BY <1>10, <2>1
  <2>3. sleep = 0
    BY <2>1, GoesIs
  <2>4. ~BetweenV(14, 15)' /\ ~BetweenV(15, 15)'
    BY <1>0, <2>1, <2>2 DEF Between, BetweenV
  <2>5. BetweenV(16, 21)' => BetweenV(16, 21) \/ (BetweenV(15, 15) /\ authorized)
    BY <1>0, <2>1, <2>2 DEF Between, BetweenV
  <2>6. ~Awaited /\ ~Rotating
    BY <2>3 DEF Awaited, Rotating
  <2>7. /\ BetweenV(19, 28)' => BetweenV(19, 28)
        /\ BetweenV(20, 28)' => BetweenV(20, 28)
    BY <1>0, <2>1, <2>2 DEF Between, BetweenV, CknPlaces
  <2>. QED
    BY <2>1, <2>2, <2>4, <2>5, <2>6, <2>7, Zenon DEF RotationInv, RotationObserved, Rotates
<1>12. CASE Reads
  <2>1. /\ Goes(0) /\ at \in CknPlaces /\ LivePeers(Switch) # {} /\ Switch \in Ends /\ baseline' = baseline
        /\ Switch = AUTHENTICATOR <=> at \in {5, 18}
    BY <1>12, Zenon DEF Reads
  <2>2. PICK c \in Ckns(Switch) : got' = [got EXCEPT ![Switch] = c]
    BY <1>12, Zenon DEF Reads
  <2>3. c \in Nat /\ session <= c + 1 /\ (NoOldPeers => c = session)
    BY <2>1, <2>2, CknsAre
  <2>4. got'[Switch] = c /\ (Switch # AUTHENTICATOR => Switch = SUPPLICANT /\ got'[AUTHENTICATOR] = got[AUTHENTICATOR])
    BY <2>1, <2>2, EndsAre DEF Typed
  <2>5. /\ Rotated' = Rotated /\ at' = at + 1 /\ UNCHANGED <<session, verify, authorized>>
        /\ Running /\ done' # "ok"
    BY <1>10, <2>1
  <2>6. Rotated => baseline < c
    BY <1>0, <2>3 DEF Rotated, NoOldPeers
  <2>7. ~BetweenV(14, 15)' /\ ~BetweenV(15, 15)' /\ (BetweenV(16, 21)' => BetweenV(16, 21))
    BY <1>0, <2>1, <2>5 DEF Between, BetweenV, CknPlaces
  <2>8. /\ BetweenV(19, 28)' => BetweenV(16, 21) /\ (Switch # AUTHENTICATOR => BetweenV(19, 28))
        /\ BetweenV(20, 28)' => BetweenV(16, 21) /\ Switch # AUTHENTICATOR
    BY <1>0, <2>1, <2>5 DEF Between, BetweenV, CknPlaces
  <2>9. BetweenV(19, 28)' => baseline' < got'[AUTHENTICATOR]
    <3>1. CASE Switch = AUTHENTICATOR
      BY <2>1, <2>4, <2>6, <2>8, <3>1 DEF RotationInv
    <3>2. CASE Switch # AUTHENTICATOR
      BY <2>1, <2>4, <2>8, <3>2 DEF RotationInv
    <3>. QED
      BY <3>1, <3>2
  <2>10. BetweenV(20, 28)' => baseline' < got'[SUPPLICANT]
    BY <2>1, <2>4, <2>6, <2>8 DEF RotationInv
  <2>. QED
    BY <2>5, <2>7, <2>9, <2>10, Zenon DEF RotationInv, RotationObserved
<1>13. CASE Counts
  <2>1. Goes(0) /\ at = 13 /\ baseline' = got[AUTHENTICATOR]
    BY <1>13, Zenon DEF Counts
  <2>2. at' = 14 /\ session' = session /\ done' = "no"
    BY <2>1, GoesIs
  <2>3. baseline' <= session'
    BY <2>1, <2>2, EndsAre DEF LinkInv
  <2>4. ~BetweenV(15, 15)' /\ ~BetweenV(16, 21)' /\ ~BetweenV(19, 28)' /\ ~BetweenV(20, 28)' /\ done' # "ok"
    BY <2>2 DEF Between, BetweenV
  <2>. QED
    BY <2>3, <2>4, Zenon DEF RotationInv, RotationObserved
<1>14. CASE Waits
  <2>1. at = 14 /\ verify /\ UNCHANGED <<reads, hist>>
    BY <1>14, Zenon DEF Waits
  <2>2. PICK p : Goes(p)
    BY <1>14, Zenon DEF Waits
  <2>3. at' = at + 1 /\ session' = session /\ done' = "no" /\ Running
    BY <2>2, GoesIs
  <2>4. BetweenV(14, 15)
    BY <2>1, <2>3 DEF Between, BetweenV
  <2>5. baseline' = baseline
    BY <2>1, Zenon DEF reads
  <2>6. baseline' <= session'
    BY <2>3, <2>4, <2>5, Zenon DEF RotationInv
  <2>7. ~BetweenV(16, 21)' /\ ~BetweenV(19, 28)' /\ ~BetweenV(20, 28)' /\ done' # "ok"
    BY <2>1, <2>3 DEF Between, BetweenV
  <2>8. Awaited'
    BY <1>14, AwaitedStarts
  <2>. QED
    BY <2>6, <2>7, <2>8, Zenon DEF RotationInv, RotationObserved, Rotates
<1>15. CASE Complete
  <2>1. ~Running' /\ Running /\ at > Len(Plan) /\ UNCHANGED <<world, reads>>
    BY <1>15, Zenon DEF Complete, Running
  <2>2. Len(Plan) = Length
    BY PlanIs DEF Typed
  <2> HIDE DEF Plan
  <2>3. verify => BetweenV(19, 28) /\ BetweenV(20, 28)
    BY <1>0, <2>1, <2>2 DEF Between, BetweenV, Length
  <2>4. verify => baseline < got[AUTHENTICATOR] /\ baseline < got[SUPPLICANT]
    BY <2>3, Zenon DEF RotationInv
  <2>5. verify' = verify /\ baseline' = baseline /\ got' = got
    BY <2>1, Zenon DEF world, reads
  <2>6. baseline \in Nat /\ \A e \in Ends : got[e] \in Nat
    BY DEF Typed
  <2>7. verify' => \A e \in Ends : got'[e] > baseline'
    BY <2>4, <2>5, <2>6, EndsAre
  <2>. QED
    BY <2>1, <2>7, Zenon DEF RotationInv, RotationObserved, Between, BetweenV
<1>. QED
  BY <1>1, <1>2, <1>3, <1>4, <1>5, <1>6, <1>7, <1>8, <1>9, <1>11, <1>12, <1>13, <1>14, <1>15, Zenon DEF StepKinds

\* A reauthentication check that passes has read, from both ends, the CKN of a
\* session newer than the baseline: the buffer of the wait is longer than an
\* exchange and the change of participants that follows it.
THEOREM PassedMeansRotated ==
    ASSUME WaitIsLong
    PROVE  Spec => []RotationObserved
<1> DEFINE Rotation == Based /\ RotationInv
<1>1. Init => Rotation
  <2>1. ASSUME Init
        PROVE  RotationInv
    <3>1. at = 1 /\ done = "no"
      BY <2>1 DEF Init
    <3>2. /\ ~BetweenV(14, 15) /\ ~BetweenV(15, 15) /\ ~BetweenV(16, 21) /\ ~BetweenV(19, 28)
          /\ ~BetweenV(20, 28) /\ done # "ok"
      BY <3>1 DEF Between, BetweenV
    <3>. QED
      BY <3>2, Zenon DEF RotationInv, RotationObserved
  <2>. QED
    BY <2>1, BaseInit, Zenon DEF Based
<1>2. Rotation /\ [Next]_vars => Rotation'
  BY NextIs, TypedStep, LinkStep, RotationStep, Zenon DEF Based
<1>3. Rotation => RotationObserved
  BY DEF RotationInv
<1>. QED
  BY <1>1, <1>2, <1>3, PTL DEF Spec

==============================================================================
