------------------------- MODULE DeviceRegistryProofs -------------------------
(* A device keeps its identity from scan to scan (DeviceRegistry): what a scan *)
(* leaves behind, whatever the configuration makes of it afterwards, and its   *)
(* steps.                                                                      *)
EXTENDS DeviceRegistry, TLAPS

\* A device is in one port, a port holds one device.
RegPorts ==
  /\ plugged \in [Device -> SUBSET UsbPort]
  /\ \A d \in Device : \A p, q \in plugged[d] : p = q
  /\ \A d, e \in Device : d # e => plugged[d] \cap plugged[e] = {}
  /\ wired \subseteq Online

\* What the last scan knows of a device.
Aliased(d) == Canonical(d) \in DOMAIN alias
KnownAs(d) == IF Aliased(d) THEN alias[Canonical(d)] ELSE Canonical(d)

\* A device that goes by another identity.
AliasHolds(d) ==
  /\ Canonical(d) \notin Referenced /\ alias[Canonical(d)] \in Referenced
  /\ Legacy(d) \in Referenced => alias[Canonical(d)] = Legacy(d)
  /\ \A e \in Online : alias[Canonical(d)] # Canonical(e)
  /\ \A e \in Online \ {d} :
       alias[Canonical(d)] = Legacy(e) => ~Aliased(e) /\ Canonical(e) \in Referenced
RegSettled ==
  /\ \A d \in Online : Canonical(d) \in present /\ registered[d] = {KnownAs(d)}
  /\ \A d \in Device \ Online : registered[d] = {}
  /\ \A d \in Online : IF Aliased(d) THEN AliasHolds(d)
                       ELSE Legacy(d) \in Referenced => Canonical(d) \in Referenced
  /\ \A c \in DOMAIN alias : \E d \in Online : c = Canonical(d)
\* No two devices go by the same alias.
RegAlias == \A c, e \in DOMAIN alias : alias[c] = alias[e] => c = e
\* A scan, whatever becomes of the edges.
Scanned == Scans /\ UNCHANGED <<plugged, routes, names>>
RegInv == RegPorts /\ RegAlias /\ (settled => RegSettled)

\* A device has its port, and an identity of its own.
LEMMA RegIdentities ==
  ASSUME RegPorts
  PROVE  /\ \A d \in Online : Legacy(d).port \in plugged[d] /\ Legacy(d) = [port |-> Legacy(d).port]
         /\ \A d, e \in Online : Legacy(d) = Legacy(e) => d = e
         /\ \A d, e \in Online : Canonical(d) = Canonical(e) => d = e
         /\ \A d, e \in Online : Canonical(d) = Legacy(e) => d = e /\ d \notin WithSerial
<1>1. ASSUME NEW d \in Online
      PROVE  Legacy(d).port \in plugged[d] /\ Legacy(d) = [port |-> Legacy(d).port]
  <2>1. \E p \in UsbPort : p \in plugged[d]
    BY DEF Online, RegPorts
  <2>. QED BY <2>1 DEF Legacy
<1>2. ASSUME NEW d \in Online, NEW e \in Online, Legacy(d) = Legacy(e) PROVE d = e
  <2>1. plugged[d] \cap plugged[e] # {} /\ d \in Device /\ e \in Device
    BY <1>1, <1>2 DEF Online
  <2>. QED BY <2>1 DEF RegPorts
<1>3. \A d, p : [serial |-> d] # [port |-> p]
  <2>1. \A d, p : "serial" \in DOMAIN [serial |-> d] /\ "serial" \notin DOMAIN [port |-> p]
    OBVIOUS
  <2>. QED BY <2>1
<1>4. \A d, e : [serial |-> d] = [serial |-> e] => d = e
  <2>1. \A d : [serial |-> d].serial = d
    OBVIOUS
  <2>. QED BY <2>1
<1>5. ASSUME NEW d \in Online, NEW e \in Online, Canonical(d) = Legacy(e)
      PROVE  d = e /\ d \notin WithSerial
  <2>1. Legacy(e) = [port |-> Legacy(e).port]
    BY <1>1
  <2>2. d \notin WithSerial
    BY <1>3, <1>5, <2>1 DEF Canonical
  <2>3. Canonical(d) = Legacy(d)
    BY <2>2 DEF Canonical
  <2>. QED BY <1>2, <1>5, <2>2, <2>3
<1>6. ASSUME NEW d \in Online, NEW e \in Online, Canonical(d) = Canonical(e) PROVE d = e
  <2>1. CASE e \in WithSerial /\ d \in WithSerial
    BY <1>4, <1>6, <2>1 DEF Canonical
  <2>2. CASE e \notin WithSerial
    <3>1. Canonical(e) = Legacy(e)
      BY <2>2 DEF Canonical
    <3>. QED BY <1>5, <1>6, <3>1
  <2>3. CASE d \notin WithSerial
    <3>1. Canonical(d) = Legacy(d)
      BY <2>3 DEF Canonical
    <3>. QED BY <1>5, <1>6, <3>1
  <2>. QED BY <2>1, <2>2, <2>3
<1>. QED BY <1>1, <1>2, <1>5, <1>6

\* The first two passes of the scan, device by device.
LEMMA RegEvidence ==
  ASSUME RegPorts, NEW d \in Online
  PROVE  /\ d \in Exact => Canonical(d) \notin DOMAIN Kept /\ Evident(d) = Canonical(d)
         /\ d \in ByPort => Canonical(d) \in DOMAIN Kept /\ Evident(d) = Legacy(d)
         /\ d \notin Exact \cup ByPort =>
              /\ Canonical(d) \in DOMAIN Kept <=> Aliased(d) /\ alias[Canonical(d)] \in Referenced \ Claimed
              /\ Evident(d) = IF Canonical(d) \in DOMAIN Kept THEN alias[Canonical(d)] ELSE Canonical(d)
         /\ Canonical(d) \in DOMAIN Kept => Kept[Canonical(d)] = Evident(d)
<1>. DEFINE here == {Canonical(e) : e \in Online}
            old == {c \in DOMAIN alias \cap here : alias[c] \in Referenced \ Claimed}
            ofExact == {Canonical(e) : e \in Exact}
            ofPort == {Canonical(e) : e \in ByPort}
            c == Canonical(d)
<1>1. Exact \subseteq Online /\ ByPort \subseteq Online /\ Exact \cap ByPort = {}
  BY DEF Exact, ByPort
<1>2. c \in ofExact <=> d \in Exact
  BY <1>1, RegIdentities
<1>3. c \in ofPort <=> d \in ByPort
  BY <1>1, RegIdentities
<1>4. c \in old <=> Aliased(d) /\ alias[c] \in Referenced \ Claimed
  BY DEF Aliased
<1>5. Kept = [x \in (old \ ofExact) \cup ofPort |->
                IF x \in ofPort THEN Legacy(CHOOSE e \in ByPort : Canonical(e) = x) ELSE alias[x]]
  BY DEF Kept
<1>6. DOMAIN Kept = (old \ ofExact) \cup ofPort
  <2>. HIDE DEF old, ofExact, ofPort
  <2>. QED BY <1>5
<1>7. c \in ofPort => Kept[c] = Legacy(d)
  <2>1. ASSUME d \in ByPort PROVE (CHOOSE e \in ByPort : Canonical(e) = c) = d
    BY <1>1, <2>1, RegIdentities
  <2>2. c \in ofPort => Kept[c] = Legacy(CHOOSE e \in ByPort : Canonical(e) = c)
    <3>. HIDE DEF old, ofExact, ofPort
    <3>. QED BY <1>5
  <2>. QED BY <1>3, <2>1, <2>2
<1>8. c \in DOMAIN Kept /\ c \notin ofPort => Kept[c] = alias[c]
  <2>. HIDE DEF old, ofExact, ofPort, c
  <2>. QED BY <1>5
<1>9. Evident(d) = IF c \in DOMAIN Kept THEN Kept[c] ELSE c
  BY DEF Evident
<1>. HIDE DEF old, ofExact, ofPort
<1>. QED BY <1>1, <1>2, <1>3, <1>4, <1>6, <1>7, <1>8, <1>9

\* The third pass: a newcomer takes an identity that is referenced and missing.
LEMMA RegRecognised ==
  ASSUME RegPorts, NEW d \in Recognised
  PROVE  /\ d \in Online /\ d \in Newcomers
         /\ IdentityOf(d) \in Missing /\ IdentityOf(d) = (CHOOSE id \in Missing : TRUE)
         /\ {Canonical(d), Legacy(d)} \cap Referenced = {} /\ Canonical(d) \notin DOMAIN Kept
<1>1. d \in Newcomers /\ Missing # {}
  BY DEF Recognised, Single
<1>. QED BY <1>1 DEF Newcomers, IdentityOf

\* What a scan leaves behind: who is aliased, and to what.
LEMMA RegAliases ==
  ASSUME RegPorts, Scanned, NEW d \in Online
  PROVE  /\ Canonical(d) \in DOMAIN alias' <=> Canonical(d) \in DOMAIN Kept \/ d \in Recognised
         /\ Canonical(d) \in DOMAIN alias' => alias'[Canonical(d)] = IdentityOf(d)
         /\ Canonical(d) \notin DOMAIN alias' => IdentityOf(d) = Canonical(d)
         /\ registered'[d] = {IdentityOf(d)} /\ Canonical(d) \in present'
<1>. DEFINE c == Canonical(d)
            ofRecognised == {Canonical(e) : e \in Recognised}
<1>1. alias' = [x \in DOMAIN Kept \cup ofRecognised |->
                  IF x \in DOMAIN Kept THEN Kept[x] ELSE CHOOSE id \in Missing : TRUE]
  BY DEF Scanned, Scans
<1>2. c \in ofRecognised <=> d \in Recognised
  BY RegIdentities, RegRecognised
<1>3. d \in Device /\ registered'[d] = {IdentityOf(d)} /\ c \in present'
  BY DEF Scanned, Scans, Online
<1>4. DOMAIN alias' = DOMAIN Kept \cup ofRecognised
  <2>. HIDE DEF ofRecognised
  <2>. QED BY <1>1
<1>5. c \in DOMAIN Kept => alias'[c] = Kept[c]
  <2>. HIDE DEF ofRecognised, c
  <2>. QED BY <1>1
<1>6. c \in ofRecognised /\ c \notin DOMAIN Kept => alias'[c] = CHOOSE id \in Missing : TRUE
  <2>. HIDE DEF ofRecognised, c
  <2>. QED BY <1>1
<1>7. d \in Recognised => c \notin DOMAIN Kept /\ IdentityOf(d) = CHOOSE id \in Missing : TRUE
  BY RegRecognised
<1>8. d \notin Recognised => IdentityOf(d) = Evident(d)
  BY DEF IdentityOf
<1>9. /\ c \in DOMAIN Kept => Kept[c] = Evident(d)
      /\ c \notin DOMAIN Kept => Evident(d) = c
  BY RegEvidence DEF Evident
<1>. HIDE DEF ofRecognised
<1>. QED BY <1>2, <1>3, <1>4, <1>5, <1>6, <1>7, <1>8, <1>9

\* A scan aliases devices that are here, no two of them to the same identity.
LEMMA RegInjective ==
  ASSUME RegPorts, RegAlias, Scanned
  PROVE  RegAlias' /\ \A c \in DOMAIN alias' : \E d \in Online : c = Canonical(d)
<1>. DEFINE here == {Canonical(e) : e \in Online}
            old == {c \in DOMAIN alias \cap here : alias[c] \in Referenced \ Claimed}
            ofExact == {Canonical(e) : e \in Exact}
            ofPort == {Canonical(e) : e \in ByPort}
            ofRecognised == {Canonical(e) : e \in Recognised}
<1>1. DOMAIN alias' = DOMAIN Kept \cup ofRecognised /\ DOMAIN Kept = (old \ ofExact) \cup ofPort
  BY DEF Scanned, Scans, Kept
<1>2. ByPort \subseteq Online /\ Recognised \subseteq Online
  BY RegRecognised DEF ByPort
<1>3. \A c \in DOMAIN alias' : \E d \in Online : c = Canonical(d)
  BY <1>1, <1>2
<1>4. ASSUME NEW d \in Online, NEW e \in Online, d \in Recognised, e \notin Recognised,
             Canonical(e) \in DOMAIN alias'
      PROVE  IdentityOf(d) # IdentityOf(e)
  <2>1. IdentityOf(d) \in Missing /\ IdentityOf(e) = Evident(e)
    BY <1>4, RegRecognised DEF IdentityOf
  <2>. QED BY <2>1 DEF Missing
<1>5. ASSUME NEW d \in Online, NEW e \in Online, d \in Recognised, e \in Recognised PROVE d = e
  BY <1>5 DEF Recognised, Single
<1>6. ASSUME NEW d \in Online, d \notin Recognised, Canonical(d) \in DOMAIN alias'
      PROVE  /\ d \notin Exact /\ IdentityOf(d) = Evident(d)
             /\ d \in ByPort => Evident(d) = Legacy(d)
             /\ d \notin ByPort => /\ Aliased(d) /\ Evident(d) = alias[Canonical(d)]
                                  /\ alias[Canonical(d)] \notin Claimed
  <2>1. Canonical(d) \in DOMAIN Kept /\ IdentityOf(d) = Evident(d)
    BY <1>6, RegAliases DEF IdentityOf
  <2>. QED BY <2>1, RegEvidence
<1>7. ASSUME NEW d \in Online, NEW e \in Online, d \notin Recognised, e \notin Recognised,
             Canonical(d) \in DOMAIN alias', Canonical(e) \in DOMAIN alias', IdentityOf(d) = IdentityOf(e)
      PROVE  Canonical(d) = Canonical(e)
  <2>1. CASE d \in ByPort /\ e \in ByPort
    BY <1>6, <1>7, <2>1, RegIdentities
  <2>2. CASE d \notin ByPort /\ e \notin ByPort
    BY <1>6, <1>7, <2>2 DEF RegAlias, Aliased
  <2>3. \A x \in ByPort : Legacy(x) \in Claimed
    BY DEF Claimed
  <2>. QED BY <1>6, <1>7, <2>1, <2>2, <2>3
<1>8. ASSUME NEW d \in Online, NEW e \in Online, Canonical(d) \in DOMAIN alias', Canonical(e) \in DOMAIN alias',
             alias'[Canonical(d)] = alias'[Canonical(e)]
      PROVE  Canonical(d) = Canonical(e)
  <2>1. IdentityOf(d) = IdentityOf(e)
    BY <1>8, RegAliases
  <2>. QED BY <1>4, <1>5, <1>7, <1>8, <2>1
<1>. QED BY <1>3, <1>8 DEF RegAlias

\* After a scan an aliased device goes by an identity that nobody else can claim.
LEMMA RegScans ==
  ASSUME RegPorts, RegAlias, Scanned
  PROVE  RegSettled'
<1>1. /\ UNCHANGED <<plugged, routes, names>> /\ Online' = Online /\ Referenced' = Referenced
      /\ \A d : Canonical(d)' = Canonical(d) /\ Legacy(d)' = Legacy(d)
  BY DEF Scanned, Online, Referenced, Canonical, Legacy
<1>2. ASSUME NEW d \in Online
      PROVE  Canonical(d) \in present' /\ registered'[d] = {KnownAs(d)'}
  BY <1>1, <1>2, RegAliases DEF KnownAs, Aliased
<1>3. ASSUME NEW d \in Online, Aliased(d)' PROVE AliasHolds(d)'
  <2>. DEFINE a == IdentityOf(d)
  <2>1. alias'[Canonical(d)] = a /\ (Canonical(d) \in DOMAIN Kept \/ d \in Recognised)
    BY <1>1, <1>3, RegAliases DEF Aliased
  <2>2. d \notin Exact /\ Canonical(d) \notin Referenced
    <3>1. d \notin Exact
      BY <2>1, RegEvidence, RegRecognised DEF Exact
    <3>. QED BY <3>1 DEF Exact
  <2>3. d \in ByPort => a = Legacy(d) /\ d \in WithSerial
    <3>1. d \in ByPort => d \notin Recognised /\ Evident(d) = Legacy(d)
      BY RegEvidence, RegRecognised
    <3>. QED BY <3>1 DEF IdentityOf, ByPort
  <2>4a. d \in ByPort => Legacy(d) \in Referenced
    BY DEF ByPort
  <2>4. d \notin ByPort =>
          /\ a \in Referenced
          /\ \A e \in Exact : a # Canonical(e)
          /\ \A e \in ByPort : a # Legacy(e)
    <3>1. CASE d \in Recognised
      <4>1. a \in Missing
        BY <3>1, RegRecognised
      <4>2. a \in Referenced /\ \A e \in Online : a # Evident(e)
        BY <4>1 DEF Missing
      <4>3. \A e \in Exact : e \in Online /\ Evident(e) = Canonical(e)
        BY RegEvidence DEF Exact
      <4>4. \A e \in ByPort : e \in Online /\ Evident(e) = Legacy(e)
        BY RegEvidence DEF ByPort
      <4>. QED BY <4>2, <4>3, <4>4
    <3>2. CASE d \notin Recognised /\ d \notin ByPort
      <4>1. a = Evident(d) /\ Canonical(d) \in DOMAIN Kept
        BY <2>1, <3>2 DEF IdentityOf
      <4>2. a = alias[Canonical(d)] /\ a \in Referenced \ Claimed
        BY <2>2, <3>2, <4>1, RegEvidence
      <4>. QED BY <4>2 DEF Claimed
    <3>. QED BY <3>1, <3>2
  <2>5. \A e \in Online : e \notin ByPort /\ Legacy(e) \in Referenced => e \in Exact
    BY DEF Exact, ByPort, Canonical
  <2>6. Legacy(d) \in Referenced => a = Legacy(d)
    BY <2>2, <2>3, <2>5
  <2>7. ASSUME NEW e \in Online PROVE a # Canonical(e)
    <3>1. d \in ByPort => Canonical(e) # Legacy(d)
      BY <2>3, RegIdentities
    <3>2. Canonical(e) \in Referenced => e \in Exact
      BY DEF Exact
    <3>. QED BY <2>3, <2>4, <3>1, <3>2
  <2>8. ASSUME NEW e \in Online, e # d, a = Legacy(e)
        PROVE  Canonical(e) \notin DOMAIN alias' /\ Canonical(e) \in Referenced
    <3>1. d \notin ByPort
      BY <2>3, <2>8, RegIdentities
    <3>2. e \in Exact
      BY <2>4, <2>5, <2>8, <3>1
    <3>3. Canonical(e) \in Referenced /\ Canonical(e) \notin DOMAIN Kept
      BY <3>2, RegEvidence DEF Exact
    <3>4. e \notin Recognised
      BY <3>3, RegRecognised
    <3>. QED BY <3>3, <3>4, RegAliases
  <2>. HIDE DEF a
  <2>9. a \in Referenced
    BY <2>3, <2>4, <2>4a
  <2>. QED BY <1>1, <2>1, <2>2, <2>6, <2>7, <2>8, <2>9 DEF AliasHolds, Aliased
<1>4. ASSUME NEW d \in Online, ~Aliased(d)', Legacy(d) \in Referenced
      PROVE  Canonical(d) \in Referenced
  <2>1. Canonical(d) \notin DOMAIN Kept
    BY <1>1, <1>4, RegAliases DEF Aliased
  <2>2. d \notin ByPort
    BY <2>1, RegEvidence
  <2>. QED BY <1>4, <2>2 DEF ByPort, Exact, Canonical
<1>5. \A d \in Device \ Online : registered'[d] = {}
  BY DEF Scanned, Scans
<1>. QED BY <1>1, <1>2, <1>3, <1>4, <1>5, RegInjective DEF RegSettled

\* The configuration may come to name the devices as they are known, if it drops none.
LEMMA RegNamed ==
  ASSUME RegPorts, RegSettled, UNCHANGED <<plugged, registered, alias, present>>,
         \A x \in Referenced' : x \in Referenced \/ \E e \in Online : x = KnownAs(e),
         \A e \in Online : KnownAs(e) \in Referenced => KnownAs(e) \in Referenced'
  PROVE  RegSettled'
<1>1. /\ Online' = Online
      /\ \A d : /\ Canonical(d)' = Canonical(d) /\ Legacy(d)' = Legacy(d)
                /\ KnownAs(d)' = KnownAs(d) /\ Aliased(d)' = Aliased(d)
  BY DEF Online, Canonical, Legacy, KnownAs, Aliased
<1>2. \A e \in Online : Aliased(e) => AliasHolds(e) /\ KnownAs(e) = alias[Canonical(e)]
  BY DEF RegSettled, KnownAs
<1>3. \A e \in Online : ~Aliased(e) => KnownAs(e) = Canonical(e)
  BY DEF KnownAs
<1>4. ASSUME NEW d \in Online, Aliased(d) PROVE AliasHolds(d)'
  <2>1. ASSUME NEW e \in Online, Canonical(d) = KnownAs(e) PROVE FALSE
    <3>1. CASE Aliased(e)
      BY <1>2, <2>1, <3>1 DEF AliasHolds
    <3>2. CASE ~Aliased(e)
      <4>1. d = e
        BY <1>3, <2>1, <3>2, RegIdentities
      <4>. QED BY <1>4, <3>2, <4>1
    <3>. QED BY <3>1, <3>2
  <2>2. ASSUME NEW e \in Online, Legacy(d) = KnownAs(e) PROVE alias[Canonical(d)] = Legacy(d)
    <3>1. CASE Aliased(e)
      BY <1>2, <1>4, <2>2, <3>1 DEF AliasHolds
    <3>2. CASE ~Aliased(e)
      <4>1. d = e
        BY <1>3, <2>2, <3>2, RegIdentities
      <4>. QED BY <1>4, <3>2, <4>1
    <3>. QED BY <3>1, <3>2
  <2>3. ASSUME NEW e \in Online \ {d}, alias[Canonical(d)] = Legacy(e)
        PROVE  ~Aliased(e) /\ Canonical(e) \in Referenced'
    BY <1>2, <1>3, <1>4, <2>3 DEF AliasHolds
  <2>4. alias[Canonical(d)] \in Referenced'
    BY <1>2, <1>4 DEF AliasHolds
  <2>. QED BY <1>1, <1>2, <1>4, <2>1, <2>2, <2>3, <2>4 DEF AliasHolds
<1>5. ASSUME NEW d \in Online, ~Aliased(d), Legacy(d) \in Referenced'
      PROVE  Canonical(d) \in Referenced'
  <2>1. CASE Legacy(d) \in Referenced
    BY <1>3, <1>5, <2>1 DEF RegSettled
  <2>2. CASE Legacy(d) \notin Referenced
    <3>1. PICK e \in Online : Legacy(d) = KnownAs(e)
      BY <1>5, <2>2
    <3>2. ~Aliased(e)
      BY <1>2, <2>2, <3>1 DEF AliasHolds
    <3>3. Canonical(e) = Legacy(d) /\ e = d
      BY <1>3, <3>1, <3>2, RegIdentities
    <3>. QED BY <1>5, <3>3
  <2>. QED BY <2>1, <2>2
<1>. QED BY <1>1, <1>4, <1>5 DEF RegSettled

\* Whom the registry knows: the devices that are here, each as it is known.
LEMMA RegKnown ==
  ASSUME RegPorts, RegSettled
  PROVE  \A x : x \in UNION {registered[d] : d \in Device} <=> \E d \in Online : x = KnownAs(d)
<1>1. \A d \in Device : IF d \in Online THEN registered[d] = {KnownAs(d)} ELSE registered[d] = {}
  BY DEF RegSettled
<1>. QED BY <1>1 DEF Online

\* A snapshot of the live state names every device as it is known.
LEMMA RegSnapshot ==
  ASSUME RegPorts, RegSettled, Autosave, settled'
  PROVE  RegSettled'
<1>1. /\ routes' \subseteq UNION {registered[d] : d \in Device} /\ custom \subseteq Referenced
      /\ names' = custom \cup UNION {registered[d] : d \in Device}
      /\ UNCHANGED <<plugged, registered, alias, present>>
  BY DEF Autosave, Snapshot, RegPorts, Online
<1>2. \A x \in Referenced' : x \in Referenced \/ \E e \in Online : x = KnownAs(e)
  BY <1>1, RegKnown DEF Referenced
<1>3. \A e \in Online : KnownAs(e) \in Referenced'
  BY <1>1, RegKnown DEF Referenced
<1>. QED BY <1>1, <1>2, <1>3, RegNamed

\* A rename that drops no device names one as it is known.
LEMMA RegRenames ==
  ASSUME RegPorts, RegSettled, NEW r \in Device, Rename(r), settled'
  PROVE  RegSettled'
<1>1. /\ custom' = custom \cup registered[r] /\ names' \subseteq custom' \cup names
      /\ custom \subseteq Referenced /\ Referenced \subseteq Referenced'
      /\ UNCHANGED <<plugged, registered, alias, present, routes>>
  BY DEF Rename
<1>2. \A x \in registered[r] : \E e \in Online : x = KnownAs(e)
  BY RegKnown
<1>3. \A x \in Referenced' : x \in Referenced \/ \E e \in Online : x = KnownAs(e)
  BY <1>1, <1>2 DEF Referenced
<1>. QED BY <1>1, <1>3, RegNamed

\* Save gives every device its own identity.
LEMMA RegSaves ==
  ASSUME RegPorts, RegAlias, RegSettled, Save
  PROVE  RegSettled' /\ \A d \in Online : registered'[d] = {Canonical(d)}
<1>1. /\ UNCHANGED <<plugged, present>> /\ Online' = Online
      /\ \A d : Canonical(d)' = Canonical(d) /\ ~Aliased(d)'
  <2>1. DOMAIN alias' = {}
    BY DEF Save
  <2>. QED BY <2>1 DEF Save, Online, Canonical, Legacy, Aliased
<1>2. registered' = Committed
  BY DEF Save
<1>3. ASSUME NEW d \in Online PROVE registered'[d] = {Canonical(d)}
  <2>. DEFINE own == {c \in DOMAIN alias : alias[c] \in registered[d]}
  <2>1. d \in Device /\ registered'[d] = IF own # {} THEN own ELSE registered[d]
    BY <1>2 DEF Committed, Online
  <2>2. registered[d] = {KnownAs(d)}
    BY DEF RegSettled
  <2>3. ASSUME NEW c \in own PROVE c = Canonical(d)
    <3>1. alias[c] = KnownAs(d) /\ c \in DOMAIN alias
      BY <2>2
    <3>2. PICK e \in Online : c = Canonical(e)
      BY <3>1 DEF RegSettled
    <3>3. Aliased(e) /\ AliasHolds(e)
      BY <3>1, <3>2 DEF RegSettled, Aliased
    <3>4. Aliased(d)
      BY <3>1, <3>2, <3>3 DEF AliasHolds, KnownAs
    <3>. QED BY <3>1, <3>4 DEF RegAlias, Aliased, KnownAs
  <2>. QED BY <2>1, <2>2, <2>3 DEF KnownAs, Aliased
<1>4. ASSUME NEW d \in Device \ Online PROVE registered'[d] = {}
  BY <1>2 DEF Committed, RegSettled
<1>5. \A d \in Online : Canonical(d) \in Referenced'
  <2>1. names' = CommittedNames \cup UNION {Committed[d] : d \in Device}
    BY DEF Save, Snapshot
  <2>. QED BY <1>2, <1>3, <2>1 DEF Referenced, Online
<1>6. DOMAIN alias' = {}
  BY DEF Save
<1>. QED BY <1>1, <1>3, <1>4, <1>5, <1>6 DEF RegSettled, KnownAs

\* What is settled depends on what is plugged in, known and referenced.
LEMMA RegSame ==
  ASSUME RegSettled, UNCHANGED <<plugged, registered, alias, present, routes, names>>
  PROVE  RegSettled'
<1>1. /\ Online' = Online /\ Referenced' = Referenced
      /\ \A d : /\ Canonical(d)' = Canonical(d) /\ Legacy(d)' = Legacy(d)
                /\ KnownAs(d)' = KnownAs(d) /\ Aliased(d)' = Aliased(d)
  BY DEF KnownAs, Aliased, Online, Canonical, Legacy, Referenced
<1>2. \A d : AliasHolds(d) => AliasHolds(d)'
  BY <1>1 DEF AliasHolds
<1>. QED BY <1>1, <1>2 DEF RegSettled

\* Every step keeps the registry in order.
LEMMA RegSteps ==
  ASSUME RegInv, RegistryNext
  PROVE  RegInv'
<1>1. RegPorts /\ RegAlias /\ (settled => RegSettled)
  BY DEF RegInv
<1>2. ASSUME NEW d \in Device, Plug(d) PROVE RegInv'
  <2>1. PICK p \in UsbPort \ UNION {plugged[e] : e \in Device} : plugged' = [plugged EXCEPT ![d] = {p}]
    BY <1>2 DEF Plug
  <2>2. plugged' \in [Device -> SUBSET UsbPort]
    BY <1>1, <2>1 DEF RegPorts
  <2>3. \A e \in Device : plugged'[e] = IF e = d THEN {p} ELSE plugged[e]
    BY <1>1, <2>1 DEF RegPorts
  <2>4. \A e \in Device : p \notin plugged[e]
    BY <2>1
  <2>5. wired' \subseteq Online'
    <3>1. \A e \in Online : e \in Online'
      BY <2>3 DEF Online
    <3>. QED BY <1>1, <1>2, <3>1 DEF RegPorts, Plug
  <2>6. \A e \in Device : \A x, y \in plugged'[e] : x = y
    BY <1>1, <2>3 DEF RegPorts
  <2>7. \A e, f \in Device : e # f => plugged'[e] \cap plugged'[f] = {}
    BY <1>1, <2>3, <2>4 DEF RegPorts
  <2>. QED BY <1>2, <2>2, <2>5, <2>6, <2>7 DEF RegInv, RegPorts, RegAlias, Plug
<1>3. ASSUME NEW d \in Device, Unplug(d) PROVE RegInv'
  <2>1. plugged' = [plugged EXCEPT ![d] = {}] /\ wired' = wired \ {d} /\ ~settled' /\ alias' = alias
    BY <1>3 DEF Unplug
  <2>2. plugged' \in [Device -> SUBSET UsbPort]
    BY <1>1, <2>1 DEF RegPorts
  <2>3. \A e \in Device : plugged'[e] = IF e = d THEN {} ELSE plugged[e]
    BY <1>1, <2>1 DEF RegPorts
  <2>4. wired' \subseteq Online'
    BY <1>1, <2>1, <2>3 DEF RegPorts, Online
  <2>5. \A e \in Device : \A x, y \in plugged'[e] : x = y
    BY <1>1, <2>3 DEF RegPorts
  <2>6. \A e, f \in Device : e # f => plugged'[e] \cap plugged'[f] = {}
    BY <1>1, <2>3 DEF RegPorts
  <2>. QED BY <2>1, <2>2, <2>4, <2>5, <2>6 DEF RegInv, RegPorts, RegAlias
<1>4. ASSUME UNCHANGED plugged, wired' \subseteq Online, RegAlias', settled' => RegSettled' PROVE RegInv'
  <2>1. Online' = Online
    BY <1>4 DEF Online
  <2>2. RegPorts'
    BY <1>1, <1>4, <2>1 DEF RegPorts
  <2>. QED BY <1>4, <2>2 DEF RegInv
<1>5. ASSUME UNCHANGED <<plugged, registered, alias, present, routes, names>>, RegSettled PROVE RegSettled'
  BY <1>5, RegSame
<1>6. CASE \E d \in Device : Connect(d) \/ Disconnect(d)
  BY <1>1, <1>4, <1>5, <1>6 DEF Connect, Disconnect, RegPorts, RegAlias
<1>7. CASE Refresh \/ Rescan
  <2>1. Scanned /\ wired' \subseteq Online
    BY <1>1, <1>7 DEF Refresh, Rescan, Scanned, RegPorts
  <2>2. UNCHANGED plugged /\ RegSettled' /\ RegAlias'
    BY <1>1, <2>1, RegScans, RegInjective DEF Scanned
  <2>. QED BY <1>4, <2>1, <2>2
<1>8. CASE Autosave \/ Save
  <2>1. UNCHANGED <<plugged, wired>>
    BY <1>8 DEF Autosave, Save
  <2>2. settled' => settled
    <3>1. CASE Autosave
      <4>1. settled' = (settled /\ custom \subseteq Referenced)
        BY <3>1 DEF Autosave
      <4>. QED BY <4>1
    <3>2. CASE Save
      BY <3>2 DEF Save
    <3>. QED BY <1>8, <3>1, <3>2
  <2>3. RegAlias'
    <3>1. CASE Autosave
      BY <1>1, <3>1 DEF Autosave, RegAlias
    <3>2. CASE Save
      <4>1. DOMAIN alias' = {}
        BY <3>2 DEF Save
      <4>. QED BY <4>1 DEF RegAlias
    <3>. QED BY <1>8, <3>1, <3>2
  <2>. QED BY <1>1, <1>4, <1>8, <2>1, <2>2, <2>3, RegSnapshot, RegSaves DEF RegPorts
<1>9. ASSUME NEW d \in Device, Rename(d) PROVE RegInv'
  <2>1. UNCHANGED <<plugged, wired, alias>>
    BY <1>9 DEF Rename
  <2>2. settled' = (settled /\ custom \subseteq Referenced /\ Referenced \subseteq Referenced')
    BY <1>9 DEF Rename
  <2>3. settled' => settled
    BY <2>2
  <2>. QED BY <1>1, <1>4, <1>9, <2>1, <2>3, RegRenames DEF RegPorts, RegAlias
<1>10. CASE (\E doc \in Document, import \in BOOLEAN : Load(doc, import)) \/ \E id \in Identity : Forget(id)
  BY <1>1, <1>4, <1>10 DEF Load, Forget, RegPorts, RegAlias
<1>. QED BY <1>2, <1>3, <1>6, <1>7, <1>8, <1>9, <1>10 DEF RegistryNext

\* It begins in order, with nothing settled.
LEMMA RegStarts ==
  ASSUME RegistryInit
  PROVE  RegInv
<1>1. DOMAIN alias = {} /\ RegPorts /\ ~settled
  BY DEF RegistryInit, RegPorts, Online
<1>. QED BY <1>1 DEF RegInv, RegAlias

\* A step that leaves the registry alone.
LEMMA RegStays ==
  ASSUME RegInv, UNCHANGED registryVars
  PROVE  RegInv'
<1>1. UNCHANGED <<plugged, registered, alias, present, routes, names, wired, settled>>
  BY DEF registryVars
<1>2. RegPorts => RegPorts'
  BY <1>1 DEF RegPorts, Online
<1>. QED BY <1>1, <1>2, RegSame DEF RegInv, RegAlias

\* Scanning again: no newcomers, and the evidence that there is.
LEMMA RegAgain ==
  ASSUME RegPorts, RegSettled, Scanned, NEW d \in Online
  PROVE  registered'[d] = {KnownAs(d)} /\ IdentityOf(d) = KnownAs(d)
<1>1. registered'[d] = {Evident(d)} /\ IdentityOf(d) = Evident(d)
  <2>1. d \notin Recognised
    BY RegRecognised DEF Newcomers, RegSettled
  <2>. QED BY <2>1, RegAliases DEF IdentityOf
<1>2. CASE ~Aliased(d)
  <2>1. d \notin ByPort
    BY <1>2 DEF ByPort, Exact, RegSettled
  <2>. QED BY <1>1, <1>2, <2>1, RegEvidence DEF KnownAs
<1>3. CASE Aliased(d)
  <2>1. AliasHolds(d) /\ KnownAs(d) = alias[Canonical(d)]
    BY <1>3 DEF RegSettled, KnownAs
  <2>2. d \notin Exact
    BY <2>1 DEF AliasHolds, Exact
  <2>3. CASE d \in ByPort
    <3>1. Legacy(d) \in Referenced /\ Evident(d) = Legacy(d)
      BY <2>3, RegEvidence DEF ByPort
    <3>. QED BY <1>1, <2>1, <3>1 DEF AliasHolds
  <2>4. CASE d \notin ByPort
    <3>1. ASSUME NEW e \in Exact PROVE KnownAs(d) # Canonical(e)
      BY <2>1 DEF AliasHolds, Exact
    <3>2. ASSUME NEW e \in ByPort, KnownAs(d) = Legacy(e) PROVE FALSE
      <4>1. e \in Online \ {d} /\ e \notin Exact
        BY <2>4 DEF ByPort
      <4>2. Canonical(e) \in Referenced
        BY <2>1, <3>2, <4>1 DEF AliasHolds
      <4>. QED BY <4>1, <4>2 DEF Exact
    <3>3. KnownAs(d) \notin Claimed
      BY <3>1, <3>2 DEF Claimed
    <3>4. alias[Canonical(d)] \in Referenced \ Claimed
      BY <2>1, <3>3 DEF AliasHolds
    <3>. QED BY <1>1, <1>3, <2>1, <2>2, <2>4, <3>4, RegEvidence
  <2>. QED BY <2>3, <2>4
<1>. QED BY <1>2, <1>3

\* While nothing is plugged or loaded a device stays known, and found by its routes.
LEMMA RegKeeps ==
  ASSUME RegInv, RegistryNext
  PROVE  IdentityStep
<1>. SUFFICES ASSUME settled, settled'
              PROVE  /\ \A d \in Online :
                           /\ (registered[d] \subseteq Referenced) => (registered'[d] \subseteq Referenced')
                           /\ (d \in wired \cap wired' /\ registered[d] \subseteq routes)
                                => (registered'[d] \subseteq routes')
                     /\ Rescan => wired \subseteq wired'
  BY DEF IdentityStep
<1>1. RegPorts /\ RegSettled
  BY DEF RegInv
<1>2. ASSUME NEW d \in Online
      PROVE  /\ (registered[d] \subseteq Referenced) => (registered'[d] \subseteq Referenced')
             /\ (d \in wired \cap wired' /\ registered[d] \subseteq routes)
                  => (registered'[d] \subseteq routes')
  <2>1. registered[d] = {KnownAs(d)} /\ d \in Device
    BY <1>1 DEF RegSettled, Online
  <2>2. CASE \E e \in Device : Connect(e) \/ Disconnect(e)
    BY <2>2 DEF Connect, Disconnect, Referenced
  <2>3. CASE Autosave
    BY <2>1, <2>3 DEF Autosave, Snapshot, Referenced
  <2>4. CASE Save
    <3>1. /\ routes' = UNION {registered'[e] : e \in wired}
          /\ names' = CommittedNames \cup UNION {registered'[e] : e \in Device}
      BY <2>4 DEF Save, Snapshot
    <3>. QED BY <2>1, <3>1 DEF Referenced
  <2>5. CASE \E e \in Device : Rename(e)
    BY <2>5 DEF Rename
  <2>6. CASE Refresh \/ Rescan
    <3>1. Scanned
      BY <2>6 DEF Refresh, Rescan, Scanned
    <3>2. registered'[d] = registered[d]
      BY <1>1, <2>1, <3>1, RegAgain
    <3>. QED BY <3>1, <3>2 DEF Scanned, Referenced
  <2>. QED BY <2>2, <2>3, <2>4, <2>5, <2>6 DEF RegistryNext, Plug, Unplug, Load, Forget
<1>3. ASSUME Rescan, NEW d \in wired PROVE d \in wired'
  <2>. DEFINE live == UNION {registered[e] : e \in wired}
  <2>1. Scanned
    BY <1>3 DEF Rescan, Scanned
  <2>2. d \in Online /\ d \in Device
    BY <1>1, <1>3 DEF RegPorts, Online
  <2>3. IdentityOf(d) \in registered[d]
    BY <1>1, <2>1, <2>2, RegAgain DEF RegSettled
  <2>4. IdentityOf(d) \in live
    BY <1>3, <2>3
  <2>5. {e \in Online : IdentityOf(e) \in live} \subseteq wired'
    BY <1>3 DEF Rescan
  <2>. QED BY <2>2, <2>4, <2>5
<1>. QED BY <1>2, <1>3
=============================================================================
