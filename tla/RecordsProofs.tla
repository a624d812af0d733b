---------------------------- MODULE RecordsProofs ----------------------------
(***************************************************************************)
(* What no deletion spoils and no reset leaves half done, in a database of *)
(* any size that obeys the foreign keys of the models.                     *)
(***************************************************************************)
EXTENDS AcademyProofs

(* Which models cascading and protecting keys lead from and to.            *)
CascadingModels ==
    {<<"OrderItem", "Order">>, <<"CourseCategory", "CourseCategory">>, <<"Section", "Course">>,
     <<"Lesson", "Section">>, <<"LessonAttachment", "Lesson">>, <<"LessonProgress", "User">>,
     <<"LessonProgress", "Lesson">>, <<"Enrollment", "User">>, <<"Enrollment", "Course">>,
     <<"InstructorProfile", "User">>, <<"IdentityVerification", "User">>}

ProtectingModels ==
    {<<"Order", "User">>, <<"OrderItem", "Course">>, <<"Payment", "Order">>,
     <<"Course", "CourseCategory">>}

AllModels ==
    {"Order", "OrderItem", "Payment", "CourseCategory", "Course", "Section", "Lesson",
     "LessonAttachment", "LessonProgress", "Enrollment", "InstructorProfile",
     "IdentityVerification", "User", "Coupon"}

LEMMA ModelsHaveKeys ==
    /\ DOMAIN keys = AllModels
    /\ keys["Order"] = OrderKeys /\ keys["OrderItem"] = OrderItemKeys
    /\ keys["Payment"] = PaymentKeys /\ keys["CourseCategory"] = CategoryKeys
    /\ keys["Course"] = CourseKeys /\ keys["Section"] = SectionKeys
    /\ keys["Lesson"] = LessonKeys /\ keys["LessonAttachment"] = AttachmentKeys
    /\ keys["LessonProgress"] = ProgressKeys /\ keys["Enrollment"] = EnrollmentKeys
    /\ keys["InstructorProfile"] = InstructorKeys
    /\ keys["IdentityVerification"] = IdentityKeys
    /\ keys["User"] = <<>> /\ keys["Coupon"] = <<>>
    BY DEF keys, AllModels

LEMMA KindsOfKeys ==
    ASSUME NEW class \in AllModels, NEW key \in DOMAIN keys[class]
    PROVE  /\ keys[class][key] = "CASCADE" => <<class, TargetOf[key]>> \in CascadingModels
           /\ keys[class][key] = "PROTECT" => <<class, TargetOf[key]>> \in ProtectingModels
<1> USE ModelsHaveKeys DEF TargetOf, CascadingModels, ProtectingModels
<1>1. CASE class = "Order"
    BY <1>1 DEF OrderKeys
<1>2. CASE class = "OrderItem"
    BY <1>2 DEF OrderItemKeys
<1>3. CASE class = "Payment"
    BY <1>3 DEF PaymentKeys
<1>4. CASE class = "CourseCategory"
    BY <1>4 DEF CategoryKeys
<1>5. CASE class = "Course"
    BY <1>5 DEF CourseKeys
<1>6. CASE class = "Section"
    BY <1>6 DEF SectionKeys
<1>7. CASE class = "Lesson"
    BY <1>7 DEF LessonKeys
<1>8. CASE class = "LessonAttachment"
    BY <1>8 DEF AttachmentKeys
<1>9. CASE class = "LessonProgress"
    BY <1>9 DEF ProgressKeys
<1>10. CASE class = "Enrollment"
    BY <1>10 DEF EnrollmentKeys
<1>11. CASE class = "InstructorProfile"
    BY <1>11 DEF InstructorKeys
<1>12. CASE class = "IdentityVerification"
    BY <1>12 DEF IdentityKeys
<1>13. CASE class \in {"User", "Coupon"}
    BY <1>13
<1>. QED
    BY <1>1, <1>2, <1>3, <1>4, <1>5, <1>6, <1>7, <1>8, <1>9, <1>10, <1>11, <1>12, <1>13 DEF AllModels

LEMMA RowsHaveModels ==
    ASSUME NEW r \in Row
    PROVE  ClassOf[r] \in AllModels
    BY RowsReferToRows, ModelsHaveKeys

LEMMA LinksOfKind ==
    ASSUME NEW kind, NEW link \in Links(kind)
    PROVE  \E r \in Row : \E key \in DOMAIN RefersTo[r] :
               /\ key \in DOMAIN keys[ClassOf[r]] /\ keys[ClassOf[r]][key] = kind
               /\ link = <<r, RefersTo[r][key]>>
               /\ RefersTo[r][key] \in Row /\ ClassOf[RefersTo[r][key]] = TargetOf[key]
<1>1. PICK r \in Row : link \in {<<r, RefersTo[r][key]>> :
              key \in {k \in DOMAIN RefersTo[r] : keys[ClassOf[r]][k] = kind}}
    BY DEF Links
<1>2. PICK key \in DOMAIN RefersTo[r] :
          keys[ClassOf[r]][key] = kind /\ link = <<r, RefersTo[r][key]>>
    BY <1>1
<1>3. key \in DOMAIN keys[ClassOf[r]]
    BY RowsReferToRows
<1>4. RefersTo[r][key] \in Row /\ ClassOf[RefersTo[r][key]] = TargetOf[key]
    BY <1>3, RowsReferToRows
<1>. QED
    BY <1>2, <1>3, <1>4

LEMMA CascadingLink ==
    ASSUME NEW link \in Cascading
    PROVE  /\ link[1] \in Row /\ link[2] \in Row /\ link = <<link[1], link[2]>>
           /\ <<ClassOf[link[1]], ClassOf[link[2]]>> \in CascadingModels
<1>1. link \in Links("CASCADE")
    BY DEF Cascading
<1>2. PICK r \in Row : \E key \in DOMAIN RefersTo[r] :
          /\ key \in DOMAIN keys[ClassOf[r]] /\ keys[ClassOf[r]][key] = "CASCADE"
          /\ link = <<r, RefersTo[r][key]>>
          /\ RefersTo[r][key] \in Row /\ ClassOf[RefersTo[r][key]] = TargetOf[key]
    BY <1>1, LinksOfKind
<1>3. PICK key \in DOMAIN RefersTo[r] :
          /\ key \in DOMAIN keys[ClassOf[r]] /\ keys[ClassOf[r]][key] = "CASCADE"
          /\ link = <<r, RefersTo[r][key]>>
          /\ RefersTo[r][key] \in Row /\ ClassOf[RefersTo[r][key]] = TargetOf[key]
    BY <1>2
<1>4. <<ClassOf[r], TargetOf[key]>> \in CascadingModels
    BY <1>3, RowsHaveModels, KindsOfKeys
<1>. QED
    BY <1>3, <1>4

LEMMA ProtectingLink ==
    ASSUME NEW link \in Protecting
    PROVE  /\ link[1] \in Row /\ link[2] \in Row /\ link = <<link[1], link[2]>>
           /\ <<ClassOf[link[1]], ClassOf[link[2]]>> \in ProtectingModels
<1>1. link \in Links("PROTECT")
    BY DEF Protecting
<1>2. PICK r \in Row : \E key \in DOMAIN RefersTo[r] :
          /\ key \in DOMAIN keys[ClassOf[r]] /\ keys[ClassOf[r]][key] = "PROTECT"
          /\ link = <<r, RefersTo[r][key]>>
          /\ RefersTo[r][key] \in Row /\ ClassOf[RefersTo[r][key]] = TargetOf[key]
    BY <1>1, LinksOfKind
<1>3. PICK key \in DOMAIN RefersTo[r] :
          /\ key \in DOMAIN keys[ClassOf[r]] /\ keys[ClassOf[r]][key] = "PROTECT"
          /\ link = <<r, RefersTo[r][key]>>
          /\ RefersTo[r][key] \in Row /\ ClassOf[RefersTo[r][key]] = TargetOf[key]
    BY <1>2
<1>4. <<ClassOf[r], TargetOf[key]>> \in ProtectingModels
    BY <1>3, RowsHaveModels, KindsOfKeys
<1>. QED
    BY <1>3, <1>4

(* A key that is not NULL is one of the links of its kind.                 *)
LEMMA KeyIsLink ==
    ASSUME NEW r \in Row, NEW key \in DOMAIN keys[ClassOf[r]], ~MayBeNull(ClassOf[r], key),
           NEW kind, keys[ClassOf[r]][key] = kind
    PROVE  /\ <<r, RefersTo[r][key]>> \in Links(kind)
           /\ RefersTo[r][key] \in Row /\ ClassOf[RefersTo[r][key]] = TargetOf[key]
<1>1. /\ key \in DOMAIN RefersTo[r]
      /\ RefersTo[r][key] \in Row /\ ClassOf[RefersTo[r][key]] = TargetOf[key]
    BY RowsReferToRows
<1>2. <<r, RefersTo[r][key]>> \in
          {<<r, RefersTo[r][k]>> : k \in {k \in DOMAIN RefersTo[r] : keys[ClassOf[r]][k] = kind}}
    BY <1>1
<1>. QED
    BY <1>1, <1>2 DEF Links

(* The keys that what was paid for hangs on.                               *)
LEMMA KeysOfTrail ==
    /\ \A r \in Row : ClassOf[r] = "Payment" =>
          /\ <<r, RefersTo[r].order>> \in Protecting
          /\ RefersTo[r].order \in Row /\ ClassOf[RefersTo[r].order] = "Order"
    /\ \A r \in Row : ClassOf[r] = "Order" =>
          <<r, RefersTo[r].user>> \in Protecting /\ RefersTo[r].user \in Row
    /\ \A r \in Row : ClassOf[r] = "OrderItem" =>
          /\ <<r, RefersTo[r].course>> \in Protecting
          /\ <<r, RefersTo[r].order>> \in Cascading
          /\ RefersTo[r].course \in Row /\ ClassOf[RefersTo[r].course] = "Course"
          /\ RefersTo[r].order \in Row /\ ClassOf[RefersTo[r].order] = "Order"
    /\ \A r \in Row : ClassOf[r] = "Course" =>
          /\ <<r, RefersTo[r].category>> \in Protecting /\ RefersTo[r].category \in Row
<1> USE ModelsHaveKeys, KeyIsLink DEF TargetOf, MayBeNull, Protecting, Cascading
<1>1. ASSUME NEW r \in Row, ClassOf[r] = "Payment"
      PROVE  /\ <<r, RefersTo[r].order>> \in Protecting
             /\ RefersTo[r].order \in Row /\ ClassOf[RefersTo[r].order] = "Order"
    <2>1. "order" \in DOMAIN keys[ClassOf[r]] /\ keys[ClassOf[r]]["order"] = "PROTECT"
        BY <1>1 DEF PaymentKeys
    <2>2. ~MayBeNull(ClassOf[r], "order")
        BY <1>1, <2>1
    <2>. QED
        BY <2>1, <2>2
<1>2. ASSUME NEW r \in Row, ClassOf[r] = "Order"
      PROVE  <<r, RefersTo[r].user>> \in Protecting /\ RefersTo[r].user \in Row
    <2>1. "user" \in DOMAIN keys[ClassOf[r]] /\ keys[ClassOf[r]]["user"] = "PROTECT"
        BY <1>2 DEF OrderKeys
    <2>2. ~MayBeNull(ClassOf[r], "user")
        BY <1>2, <2>1
    <2>. QED
        BY <2>1, <2>2
<1>3. ASSUME NEW r \in Row, ClassOf[r] = "OrderItem"
      PROVE  /\ <<r, RefersTo[r].course>> \in Protecting
             /\ <<r, RefersTo[r].order>> \in Cascading
             /\ RefersTo[r].course \in Row /\ ClassOf[RefersTo[r].course] = "Course"
             /\ RefersTo[r].order \in Row /\ ClassOf[RefersTo[r].order] = "Order"
    <2>1. /\ "course" \in DOMAIN keys[ClassOf[r]] /\ keys[ClassOf[r]]["course"] = "PROTECT"
          /\ "order" \in DOMAIN keys[ClassOf[r]] /\ keys[ClassOf[r]]["order"] = "CASCADE"
        BY <1>3 DEF OrderItemKeys
    <2>2. ~MayBeNull(ClassOf[r], "course") /\ ~MayBeNull(ClassOf[r], "order")
        BY <1>3, <2>1
    <2>. QED
        BY <2>1, <2>2
<1>4. ASSUME NEW r \in Row, ClassOf[r] = "Course"
      PROVE  <<r, RefersTo[r].category>> \in Protecting /\ RefersTo[r].category \in Row
    <2>1. "category" \in DOMAIN keys[ClassOf[r]] /\ keys[ClassOf[r]]["category"] = "PROTECT"
        BY <1>4 DEF CourseKeys
    <2>2. ~MayBeNull(ClassOf[r], "category")
        BY <1>4, <2>1
    <2>. QED
        BY <2>1, <2>2
<1>. QED
    BY <1>1, <1>2, <1>3, <1>4

-----------------------------------------------------------------------------
(* What a deletion takes along.                                            *)

Rows == Cardinality(Row)

(* Row q leads to row r by at most n cascading keys.                       *)
IsPath(p, m, q, r) ==
    /\ p \in [0..m -> Row] /\ p[0] = q /\ p[m] = r
    /\ \A i \in 0..(m - 1) : <<p[i], p[i + 1]>> \in Cascading

LeadsTo(n, q, r) == \E m \in 0..n : \E p : IsPath(p, m, q, r)

PathsUpTo(n) == {qr \in Row \X Row : LeadsTo(n, qr[1], qr[2])}

Longer(shorter) ==
    shorter \cup UNION {{<<link[1], r>> : r \in {r \in Row : <<link[2], r>> \in shorter}} :
                           link \in Cascading}

LEMMA LongerMeans ==
    ASSUME NEW shorter, NEW qr
    PROVE  qr \in Longer(shorter) <=>
               \/ qr \in shorter
               \/ \E link \in Cascading : \E r \in Row : qr = <<link[1], r>> /\ <<link[2], r>> \in shorter
<1> DEFINE Before(link) == {<<link[1], r>> : r \in {r \in Row : <<link[2], r>> \in shorter}}
           New == {Before(link) : link \in Cascading}
<1>1. Longer(shorter) = shorter \cup UNION New
    BY DEF Longer
<1>2. \A link : qr \in Before(link) <=>
                    \E r \in Row : qr = <<link[1], r>> /\ <<link[2], r>> \in shorter
    OBVIOUS
<1> HIDE DEF Before
<1>3. qr \in UNION New <=> \E link \in Cascading : qr \in Before(link)
    OBVIOUS
<1> HIDE DEF New
<1>. QED
    BY <1>1, <1>2, <1>3

LEMMA PathsOfNothing == PathsUpTo(0) = {<<r, r>> : r \in Row}
<1>1. ASSUME NEW q \in Row, NEW r \in Row, LeadsTo(0, q, r)  PROVE q = r
    <2>1. PICK m \in 0..0 : \E p : IsPath(p, m, q, r)
        BY <1>1 DEF LeadsTo
    <2>. QED
        BY <2>1 DEF IsPath
<1>2. ASSUME NEW r \in Row  PROVE LeadsTo(0, r, r)
    <2>1. IsPath([i \in 0..0 |-> r], 0, r, r)
        BY DEF IsPath
    <2>. QED
        BY <2>1 DEF LeadsTo
<1>. QED
    BY <1>1, <1>2 DEF PathsUpTo

LEMMA PathsGrow ==
    ASSUME NEW n \in Nat
    PROVE  PathsUpTo(n + 1) = Longer(PathsUpTo(n))
<1>1. ASSUME NEW q \in Row, NEW r \in Row, LeadsTo(n + 1, q, r)
      PROVE  \/ LeadsTo(n, q, r)
             \/ \E link \in Cascading : link[1] = q /\ link[2] \in Row /\ LeadsTo(n, link[2], r)
    <2>0. PICK m \in 0..(n + 1) : \E p : IsPath(p, m, q, r)
        BY <1>1 DEF LeadsTo
    <2>1. PICK p : IsPath(p, m, q, r)
        BY <2>0
    <2>2. CASE m = 0
        <3>1. m \in 0..n
            BY <2>2
        <3>. QED
            BY <2>1, <3>1 DEF LeadsTo
    <2>3. CASE m > 0
        <3> DEFINE k == m - 1
                   t == [i \in 0..k |-> p[i + 1]]
        <3>1. /\ k \in 0..n /\ k + 1 = m /\ 0 \in 0..k /\ k \in 0..k
              /\ \A i \in 0..k : i + 1 \in 0..m
              /\ \A i \in 0..(k - 1) : /\ i + 1 \in 0..(m - 1) /\ i \in 0..k /\ i + 1 \in 0..k
                                       /\ (i + 1) + 1 \in 0..m
            BY <2>3
        <3>2. p \in [0..m -> Row] /\ p[0] = q /\ p[m] = r
              /\ \A i \in 0..(m - 1) : <<p[i], p[i + 1]>> \in Cascading
            BY <2>1 DEF IsPath
        <3>3. <<p[0], p[0 + 1]>> \in Cascading
            <4>1. 0 \in 0..(m - 1)
                BY <2>3
            <4>. QED
                BY <3>2, <4>1
        <3>4. IsPath(t, k, p[1], r)
            <4>1. t \in [0..k -> Row]
                BY <3>1, <3>2
            <4>2. t[0] = p[1] /\ t[k] = r
                BY <3>1, <3>2
            <4>3. \A i \in 0..(k - 1) : <<t[i], t[i + 1]>> \in Cascading
                <5> TAKE i \in 0..(k - 1)
                <5>1. t[i] = p[i + 1] /\ t[i + 1] = p[(i + 1) + 1]
                    BY <3>1
                <5>. QED
                    BY <3>1, <3>2, <5>1
            <4>. QED
                BY <4>1, <4>2, <4>3 DEF IsPath
        <3>5. p[1] \in Row
            <4>1. 1 \in 0..m
                BY <2>3
            <4>. QED
                BY <3>2, <4>1
        <3>6. LeadsTo(n, p[1], r)
            BY <3>1, <3>4 DEF LeadsTo
        <3> HIDE DEF t, k
        <3>. QED
            BY <3>2, <3>3, <3>5, <3>6
    <2>. QED
        BY <2>2, <2>3
<1>2. ASSUME NEW q \in Row, NEW r \in Row, LeadsTo(n, q, r)
      PROVE  LeadsTo(n + 1, q, r)
    <2>1. \A m \in 0..n : m \in 0..(n + 1)
        OBVIOUS
    <2>. QED
        BY <1>2, <2>1 DEF LeadsTo
<1>3. ASSUME NEW q \in Row, NEW s \in Row, NEW r \in Row, <<q, s>> \in Cascading, LeadsTo(n, s, r)
      PROVE  LeadsTo(n + 1, q, r)
    <2>0. PICK m \in 0..n : \E p : IsPath(p, m, s, r)
        BY <1>3 DEF LeadsTo
    <2>1. PICK p : IsPath(p, m, s, r)
        BY <2>0
    <2> DEFINE k == m + 1
               t == [i \in 0..k |-> IF i = 0 THEN q ELSE p[i - 1]]
    <2>2. /\ k \in 0..(n + 1) /\ 0 \in 0..k /\ k \in 0..k /\ k # 0 /\ k - 1 = m
          /\ \A i \in 0..k : i # 0 => i - 1 \in 0..m
        OBVIOUS
    <2>3. p \in [0..m -> Row] /\ p[0] = s /\ p[m] = r
          /\ \A i \in 0..(m - 1) : <<p[i], p[i + 1]>> \in Cascading
        BY <2>1 DEF IsPath
    <2>4. t \in [0..k -> Row]
        BY <2>2, <2>3
    <2>5. t[0] = q /\ t[k] = r
        BY <2>2, <2>3
    <2>6. ASSUME NEW i \in 0..(k - 1)  PROVE <<t[i], t[i + 1]>> \in Cascading
        <3>1. i \in 0..k /\ i + 1 \in 0..k /\ i + 1 # 0 /\ (i + 1) - 1 = i
            OBVIOUS
        <3>2. t[i + 1] = p[i]
            BY <3>1
        <3>3. CASE i = 0
            BY <1>3, <2>3, <2>5, <3>2, <3>3
        <3>4. CASE i # 0
            <4>1. i - 1 \in 0..(m - 1) /\ (i - 1) + 1 = i
                BY <2>2, <3>4
            <4>2. t[i] = p[i - 1]
                BY <3>1, <3>4
            <4>. QED
                BY <2>3, <3>2, <4>1, <4>2
        <3>. QED
            BY <3>3, <3>4
    <2> HIDE DEF t
    <2>7. IsPath(t, k, q, r)
        BY <2>4, <2>5, <2>6 DEF IsPath
    <2> HIDE DEF k
    <2>. QED
        BY <2>2, <2>7 DEF LeadsTo
<1>4. ASSUME NEW q \in Row, NEW r \in Row
      PROVE  <<q, r>> \in PathsUpTo(n + 1) <=> <<q, r>> \in Longer(PathsUpTo(n))
    <2>1. <<q, r>> \in PathsUpTo(n + 1) <=> LeadsTo(n + 1, q, r)
        BY DEF PathsUpTo
    <2>2. \A s \in Row : <<s, r>> \in PathsUpTo(n) <=> LeadsTo(n, s, r)
        BY DEF PathsUpTo
    <2>3. <<q, r>> \in Longer(PathsUpTo(n)) <=>
              \/ LeadsTo(n, q, r)
              \/ \E link \in Cascading : link[1] = q /\ link[2] \in Row /\ LeadsTo(n, link[2], r)
        <3>1. <<q, r>> \in Longer(PathsUpTo(n)) <=>
                  \/ <<q, r>> \in PathsUpTo(n)
                  \/ \E link \in Cascading : \E s \in Row :
                        <<q, r>> = <<link[1], s>> /\ <<link[2], s>> \in PathsUpTo(n)
            BY LongerMeans
        <3>2. (\E link \in Cascading : \E s \in Row :
                   <<q, r>> = <<link[1], s>> /\ <<link[2], s>> \in PathsUpTo(n))
              <=> \E link \in Cascading : link[1] = q /\ link[2] \in Row /\ LeadsTo(n, link[2], r)
            BY <2>2, CascadingLink
        <3>. QED
            BY <2>2, <3>1, <3>2
    <2>4. ASSUME NEW link \in Cascading, link[1] = q, link[2] \in Row, LeadsTo(n, link[2], r)
          PROVE  LeadsTo(n + 1, q, r)
        <3>1. <<q, link[2]>> \in Cascading
            BY <2>4, CascadingLink
        <3>. QED
            BY <1>3, <2>4, <3>1
    <2>. QED
        BY <1>1, <1>2, <2>1, <2>3, <2>4
<1>5. /\ \A qr \in PathsUpTo(n + 1) : \E q, r \in Row : qr = <<q, r>>
      /\ \A qr \in Longer(PathsUpTo(n)) : \E q, r \in Row : qr = <<q, r>>
    <2>1. \A m : \A qr \in PathsUpTo(m) : \E q, r \in Row : qr = <<q, r>>
        BY DEF PathsUpTo
    <2>2. ASSUME NEW qr \in Longer(PathsUpTo(n))  PROVE \E q, r \in Row : qr = <<q, r>>
        <3>1. CASE qr \in PathsUpTo(n)
            BY <2>1, <3>1
        <3>2. CASE qr \notin PathsUpTo(n)
            <4>1. \E link \in Cascading : \E r \in Row :
                      qr = <<link[1], r>> /\ <<link[2], r>> \in PathsUpTo(n)
                BY <2>2, <3>2, LongerMeans
            <4>. QED
                BY <4>1, CascadingLink
        <3>. QED
            BY <3>1, <3>2
    <2>. QED
        BY <2>1, <2>2
<1>. QED
    BY <1>4, <1>5

LEMMA PathsAreMonotone ==
    ASSUME NEW m \in Nat, NEW n \in Nat, m <= n
    PROVE  PathsUpTo(m) \subseteq PathsUpTo(n)
<1>1. \A i \in 0..m : i \in 0..n
    OBVIOUS
<1>. QED
    BY <1>1 DEF PathsUpTo, LeadsTo

LEMMA RowsIsNat == Rows \in Nat
    BY RowsAreFinite, FS_CardinalityType DEF Rows

(* What the code gathers along the cascading keys is all that leads there: *)
(* the paths satisfy the equation of the search, so the search ends with   *)
(* them.                                                                   *)
LEMMA SearchFindsPaths == GoesWith = PathsUpTo(Rows)
<1> DEFINE Eqn(f) == f = [n \in 0..Rows |-> IF n = 0 THEN {<<r, r>> : r \in Row} ELSE Longer(f[n - 1])]
           along == CHOOSE f : Eqn(f)
           paths == [n \in 0..Rows |-> PathsUpTo(n)]
<1>1. GoesWith = along[Rows]
    BY DEF GoesWith, Longer, Rows
<1>2. Eqn(paths)
    <2>1. ASSUME NEW n \in 0..Rows, n # 0  PROVE PathsUpTo(n) = Longer(PathsUpTo(n - 1))
        <3>1. n - 1 \in Nat /\ (n - 1) + 1 = n
            BY <2>1, RowsIsNat
        <3>. QED
            BY <3>1, PathsGrow
    <2>2. \A n \in 0..Rows : n # 0 => n - 1 \in 0..Rows
        BY RowsIsNat
    <2>3. ASSUME NEW n \in 0..Rows
          PROVE  PathsUpTo(n) = IF n = 0 THEN {<<r, r>> : r \in Row} ELSE Longer(paths[n - 1])
        BY <2>1, <2>2, PathsOfNothing
    <2>. QED
        BY <2>3
<1>3. Eqn(along)
    <2> HIDE DEF Eqn
    <2>. QED
        BY <1>2, Zenon
<1>4. \A n \in 0..Rows : along[n] = IF n = 0 THEN {<<r, r>> : r \in Row} ELSE Longer(along[n - 1])
    <2> HIDE DEF along
    <2>. QED
        BY <1>3
<1> HIDE DEF along, paths, Eqn
<1> DEFINE Bad == {n \in 0..Rows : along[n] # PathsUpTo(n)}
<1>5. Bad = {}
    <2> SUFFICES ASSUME Bad # {} PROVE FALSE
        OBVIOUS
    <2>1. Bad \subseteq Nat
        BY RowsIsNat
    <2>2. PICK n \in Bad : \A k \in Bad : n <= k
        <3> HIDE DEF Bad
        <3>. QED
            BY <2>1, LeastNumber
    <2>3. n # 0
        BY <1>4, <2>2, PathsOfNothing, RowsIsNat
    <2>4. n - 1 \in 0..Rows /\ n - 1 \in Nat /\ (n - 1) + 1 = n /\ ~(n <= n - 1)
        BY <2>1, <2>3, RowsIsNat
    <2>5. along[n - 1] = PathsUpTo(n - 1)
        BY <2>2, <2>4
    <2>6. along[n] = Longer(PathsUpTo(n - 1))
        BY <1>4, <2>3, <2>5
    <2>. QED
        BY <2>4, <2>6, PathsGrow
<1>6. along[Rows] = PathsUpTo(Rows)
    BY <1>5, RowsIsNat
<1>. QED
    BY <1>1, <1>6

(* A row goes with itself.                                                 *)
LEMMA GoesWithItself ==
    ASSUME NEW r \in Row
    PROVE  <<r, r>> \in GoesWith
<1>1. <<r, r>> \in PathsUpTo(0)
    BY PathsOfNothing
<1>. QED
    BY <1>1, RowsIsNat, PathsAreMonotone, SearchFindsPaths

(* A row goes with what it refers to by a cascading key.                   *)
LEMMA GoesWithNext ==
    ASSUME NEW q, NEW r, <<q, r>> \in Cascading
    PROVE  <<q, r>> \in GoesWith
<1>1. q \in Row /\ r \in Row
    BY CascadingLink
<1>2. <<r, r>> \in PathsUpTo(0)
    BY <1>1, PathsOfNothing
<1>3. <<q, r>> \in Longer(PathsUpTo(0))
    <2>1. <<q, r>> = <<(<<q, r>>)[1], r>> /\ <<(<<q, r>>)[2], r>> \in PathsUpTo(0)
        BY <1>2
    <2>. QED
        BY <1>1, <2>1, LongerMeans
<1>4. <<q, r>> \in PathsUpTo(1)
    <2>1. PathsUpTo(0 + 1) = Longer(PathsUpTo(0))
        BY PathsGrow
    <2>. QED
        BY <1>3, <2>1
<1>5. Rows >= 1
    <2>1. Rows # 0
        BY <1>1, RowsAreFinite, FS_EmptySet DEF Rows
    <2>. QED
        BY <2>1, RowsIsNat
<1>. QED
    BY <1>4, <1>5, RowsIsNat, PathsAreMonotone, SearchFindsPaths

(* What goes with a row, but for the row itself, refers by a cascading key *)
(* to something that goes with it.                                         *)
LEMMA FirstKey ==
    ASSUME NEW q, NEW r, <<q, r>> \in GoesWith, q # r
    PROVE  \E link \in Cascading : link[1] = q /\ <<link[2], r>> \in GoesWith
<1> DEFINE S == {n \in 0..Rows : <<q, r>> \in PathsUpTo(n)}
<1>1. S \subseteq Nat /\ S # {}
    BY RowsIsNat, SearchFindsPaths
<1>2. PICK n \in S : \A k \in S : n <= k
    <2> HIDE DEF S
    <2>. QED
        BY <1>1, LeastNumber
<1>3. n \in 0..Rows /\ <<q, r>> \in PathsUpTo(n)
    BY <1>2
<1>4. n # 0
    BY <1>3, PathsOfNothing
<1>5. n - 1 \in 0..Rows /\ n - 1 \in Nat /\ (n - 1) + 1 = n /\ ~(n <= n - 1) /\ n - 1 <= Rows
    BY <1>3, <1>4, RowsIsNat
<1>6. <<q, r>> \notin PathsUpTo(n - 1)
    BY <1>2, <1>5
<1>7. PathsUpTo(n) = Longer(PathsUpTo(n - 1))
    BY <1>5, PathsGrow
<1>8. \E link \in Cascading : \E s \in Row :
          <<q, r>> = <<link[1], s>> /\ <<link[2], s>> \in PathsUpTo(n - 1)
    <2>1. <<q, r>> \in Longer(PathsUpTo(n - 1))
        BY <1>3, <1>7
    <2>. QED
        BY <1>6, <2>1, LongerMeans
<1>9. PathsUpTo(n - 1) \subseteq PathsUpTo(Rows)
    BY <1>5, RowsIsNat, PathsAreMonotone
<1>. QED
    BY <1>8, <1>9, SearchFindsPaths

(* What goes with a row is of the models whose keys lead there.            *)
LEMMA StaysWithin ==
    ASSUME NEW S, \A link \in Cascading : link[2] \in S => link[1] \in S,
           NEW q, NEW r \in S, <<q, r>> \in GoesWith
    PROVE  q \in S
<1> DEFINE Bad == {n \in 0..Rows : \E s : s \notin S /\ <<s, r>> \in PathsUpTo(n)}
<1> SUFFICES ASSUME q \notin S PROVE FALSE
    OBVIOUS
<1>1. Bad \subseteq Nat /\ Bad # {}
    BY RowsIsNat, SearchFindsPaths
<1>2. PICK n \in Bad : \A k \in Bad : n <= k
    <2> HIDE DEF Bad
    <2>. QED
        BY <1>1, LeastNumber
<1>3. PICK s : s \notin S /\ <<s, r>> \in PathsUpTo(n)
    BY <1>2
<1>4. n # 0
    BY <1>3, PathsOfNothing
<1>5. n - 1 \in 0..Rows /\ n - 1 \in Nat /\ (n - 1) + 1 = n /\ ~(n <= n - 1)
    BY <1>1, <1>2, <1>4, RowsIsNat
<1>6. \A t : <<t, r>> \in PathsUpTo(n - 1) => t \in S
    BY <1>2, <1>5
<1>7. \E link \in Cascading : \E t \in Row :
          <<s, r>> = <<link[1], t>> /\ <<link[2], t>> \in PathsUpTo(n - 1)
    <2>1. PathsUpTo(n) = Longer(PathsUpTo(n - 1))
        BY <1>5, PathsGrow
    <2>2. <<s, r>> \in Longer(PathsUpTo(n - 1)) /\ <<s, r>> \notin PathsUpTo(n - 1)
        BY <1>3, <1>6, <2>1
    <2>. QED
        BY <2>2, LongerMeans
<1>. QED
    BY <1>3, <1>6, <1>7

-----------------------------------------------------------------------------
(* Deletions.                                                              *)

LEMMA KeysLeadSomewhere ==
    ASSUME NEW db \in Databases, NEW q \in db, NEW r, <<q, r>> \in Cascading \cup Protecting
    PROVE  r \in db
<1>1. (<<q, r>>)[1] \in db => (<<q, r>>)[2] \in db
    BY DEF Databases
<1>. QED
    BY <1>1

(* A row in the way of its own deletion: another that is there protects it. *)
LEMMA InTheWay ==
    ASSUME NEW db \in Databases, NEW rows, NEW q \in db, NEW r \in Collected(db, rows),
           <<q, r>> \in Protecting
    PROVE  IsProtected(db, rows)
    BY DEF IsProtected

(* Only managers may delete anything, and none of these.                   *)
LEMMA NoneMayDelete ==
    ASSUME NEW class \in LearnersRecords
    PROVE  IsRegistered(class) /\ ~has_delete_permission(MemberOfAll, class)
<1>1. \A g \in DOMAIN GROUP_PERMISSIONS : class \notin GROUP_PERMISSIONS[g]["full"]
    BY DEF GROUP_PERMISSIONS, LearnersRecords
<1>2. \A level \in DOMAIN ActionsOf : "delete" \in ActionsOf[level] => level = "full"
    BY DEF ActionsOf
<1>3. ~HasPermission(MemberOfAll.groups, "delete", class)
    BY <1>1, <1>2 DEF HasPermission, MemberOfAll
<1>4. ~MemberOfAll.is_superuser
    BY DEF MemberOfAll
<1>. QED
    BY <1>3, <1>4 DEF has_delete_permission, IsRegistered, LearnersRecords

(* Each part of the trail of a payment is protected by another part, that  *)
(* has to be there because its keys lead somewhere; the payment itself is  *)
(* deleted by nobody; and an item has no page of its own, it goes with its *)
(* order alone.                                                            *)
LEMMA TrailIsProtected ==
    ASSUME NEW db \in Databases, NEW r \in db, NEW p \in db, ClassOf[p] = "Payment",
           CanDelete(Superuser, db, r), NEW t \in Trail(db, p), t \in Collected(db, {r})
    PROVE  FALSE
<1> DEFINE paid == RefersTo[p].order
           items == {i \in db : ClassOf[i] = "OrderItem" /\ RefersTo[i].order = paid}
<1>1. db \subseteq Row
    BY DEF Databases
<1>2. ~IsProtected(db, {r})
    BY DEF CanDelete
<1>3. /\ <<p, paid>> \in Protecting /\ paid \in Row /\ ClassOf[paid] = "Order" /\ paid \in db
    BY <1>1, KeysOfTrail, KeysLeadSomewhere
<1>4. paid \notin Collected(db, {r})
    BY <1>2, <1>3, InTheWay
<1>5. <<t, r>> \in GoesWith /\ t \in db
    BY DEF Collected
<1>6. CASE t = p
    <2>1. \A link \in Cascading : link[1] # p
        BY CascadingLink DEF CascadingModels
    <2>2. p = r
        BY <1>5, <1>6, <2>1, FirstKey
    <2>3. IsRegistered(ClassOf[p]) /\ p \in Collected(db, {r})
        BY <1>6 DEF IsRegistered
    <2>4. has_delete_permission(Superuser, ClassOf[p])
        BY <2>3 DEF CanDelete
    <2>. QED
        BY <2>4 DEF has_delete_permission
<1>7. CASE t = paid
    BY <1>4, <1>7
<1>8. CASE t = RefersTo[paid].user
    <2>1. <<paid, t>> \in Protecting
        BY <1>3, <1>8, KeysOfTrail
    <2>. QED
        BY <1>2, <1>3, <2>1, InTheWay
<1>9. CASE t \in items
    <2>1. t \in Row /\ ClassOf[t] = "OrderItem" /\ RefersTo[t].order = paid
        BY <1>1, <1>9
    <2>2. t # r
        BY <2>1 DEF CanDelete, IsRegistered
    <2>3. PICK link \in Cascading : link[1] = t /\ <<link[2], r>> \in GoesWith
        BY <1>5, <2>2, FirstKey
    <2>4. ClassOf[link[2]] = "Order"
        BY <2>1, <2>3, CascadingLink DEF CascadingModels
    <2>5. link[2] = paid
        <3>1. PICK q \in Row : \E key \in DOMAIN RefersTo[q] :
                  /\ key \in DOMAIN keys[ClassOf[q]] /\ keys[ClassOf[q]][key] = "CASCADE"
                  /\ link = <<q, RefersTo[q][key]>>
                  /\ RefersTo[q][key] \in Row /\ ClassOf[RefersTo[q][key]] = TargetOf[key]
            BY LinksOfKind DEF Cascading
        <3>2. PICK key \in DOMAIN RefersTo[q] :
                  /\ key \in DOMAIN keys[ClassOf[q]] /\ keys[ClassOf[q]][key] = "CASCADE"
                  /\ link = <<q, RefersTo[q][key]>>
            BY <3>1
        <3>3. q = t
            BY <2>3, <3>2
        <3>4. key = "order"
            BY <2>1, <3>2, <3>3, ModelsHaveKeys DEF OrderItemKeys
        <3>. QED
            BY <2>1, <3>2, <3>3, <3>4
    <2>. QED
        BY <1>3, <1>4, <2>3, <2>5 DEF Collected
<1>10. ASSUME NEW i \in items
       PROVE  /\ i \in Row /\ <<i, RefersTo[i].course>> \in Protecting
              /\ RefersTo[i].course \in db /\ RefersTo[i].course \in Row
              /\ ClassOf[RefersTo[i].course] = "Course"
    BY <1>1, KeysOfTrail, KeysLeadSomewhere
<1>11. CASE \E i \in items : t = RefersTo[i].course
    BY <1>2, <1>10, <1>11, InTheWay
<1>12. CASE \E i \in items : t = RefersTo[RefersTo[i].course].category
    <2>1. PICK i \in items : t = RefersTo[RefersTo[i].course].category
        BY <1>12
    <2>2. <<RefersTo[i].course, t>> \in Protecting
        BY <1>10, <2>1, KeysOfTrail
    <2>. QED
        BY <1>2, <1>10, <2>2, InTheWay
<1>13. \/ t \in {p, paid, RefersTo[paid].user} \/ t \in items
       \/ \E i \in items : t = RefersTo[i].course
       \/ \E i \in items : t = RefersTo[RefersTo[i].course].category
    BY DEF Trail
<1>. QED
    BY <1>6, <1>7, <1>8, <1>9, <1>11, <1>12, <1>13

LEMMA DeletionsKeep ==
    ASSUME NEW db \in Databases
    PROVE  DeletionsKeepRecords(db)
<1>1. ASSUME NEW r \in db, CanDelete(Superuser, db, r), NEW p \in db, ClassOf[p] = "Payment"
      PROVE  Trail(db, p) \cap Collected(db, {r}) = {}
    BY <1>1, TrailIsProtected
<1>2. ASSUME NEW r \in db, CanDelete(MemberOfAll, db, r), NEW q \in Collected(db, {r})
      PROVE  ClassOf[q] \notin LearnersRecords
    BY <1>2, NoneMayDelete DEF CanDelete
<1>. QED
    BY <1>1, <1>2 DEF DeletionsKeepRecords

(* Whatever else the database holds and whoever deletes a row of it in the *)
(* admin, what was paid for and what a learner has or has done is kept     *)
(* (on_delete of the models, PaymentAdmin, GROUP_PERMISSIONS).             *)
THEOREM RecordsStay == Spec => []RecordsAreKept
<1>1. Spoilt = {}
    BY DeletionsKeep DEF Spoilt
<1>2. RecordsAreKept
    BY <1>1 DEF RecordsAreKept
<1>. QED
    BY <1>2, PTL DEF Spec

-----------------------------------------------------------------------------
(* seed_demo --reset.                                                      *)

RowsOf(d, class) == {r \in d : ClassOf[r] = class}

(* The command at one model.                                               *)
AfterModel(before, class) ==
    IF before.failed \/ IsProtected(before.db, RowsOf(before.db, class))
    THEN [before EXCEPT !.failed = TRUE]
    ELSE [before EXCEPT !.db = @ \ Collected(@, RowsOf(before.db, class))]

(* The reset goes through the five models one after the other.             *)
LEMMA ResetGoesThrough ==
    ASSUME NEW db
    PROVE  reset(db) =
              AfterModel(AfterModel(AfterModel(AfterModel(AfterModel(
                  [db |-> db, failed |-> FALSE],
                  "Order"), "Coupon"), "Course"), "CourseCategory"), "InstructorProfile")
<1> DEFINE Eqn(f) ==
               f = [n \in 0..5 |-> IF n = 0 THEN [db |-> db, failed |-> FALSE]
                                            ELSE AfterModel(f[n - 1], ResetModels[n])]
           after == CHOOSE f : Eqn(f)
           G0 == [db |-> db, failed |-> FALSE]
           G1 == AfterModel(G0, "Order")
           G2 == AfterModel(G1, "Coupon")
           G3 == AfterModel(G2, "Course")
           G4 == AfterModel(G3, "CourseCategory")
           G5 == AfterModel(G4, "InstructorProfile")
           g == [n \in 0..5 |-> IF n = 0 THEN G0 ELSE IF n = 1 THEN G1 ELSE IF n = 2 THEN G2
                                ELSE IF n = 3 THEN G3 ELSE IF n = 4 THEN G4 ELSE G5]
<1>1. /\ Len(ResetModels) = 5
      /\ ResetModels[1] = "Order" /\ ResetModels[2] = "Coupon" /\ ResetModels[3] = "Course"
      /\ ResetModels[4] = "CourseCategory" /\ ResetModels[5] = "InstructorProfile"
    BY DEF ResetModels
<1>2. reset(db) = after[5]
    BY <1>1 DEF reset, AfterModel, RowsOf
<1>3. Eqn(g)
    <2> HIDE DEF G0, G1, G2, G3, G4, G5
    <2>1. /\ g[0] = G0 /\ g[1] = G1 /\ g[2] = G2 /\ g[3] = G3 /\ g[4] = G4 /\ g[5] = G5
        OBVIOUS
    <2>2. ASSUME NEW n \in 0..5
          PROVE  g[n] = IF n = 0 THEN G0 ELSE AfterModel(g[n - 1], ResetModels[n])
        <3> HIDE DEF g
        <3>1. n \in {0, 1, 2, 3, 4, 5}
            OBVIOUS
        <3>2. CASE n = 0
            BY <2>1, <3>2
        <3>3. CASE n = 1
            BY <1>1, <2>1, <3>3 DEF G1
        <3>4. CASE n = 2
            BY <1>1, <2>1, <3>4 DEF G2
        <3>5. CASE n = 3
            BY <1>1, <2>1, <3>5 DEF G3
        <3>6. CASE n = 4
            BY <1>1, <2>1, <3>6 DEF G4
        <3>7. CASE n = 5
            BY <1>1, <2>1, <3>7 DEF G5
        <3>. QED
            BY <3>1, <3>2, <3>3, <3>4, <3>5, <3>6, <3>7
    <2>3. DOMAIN g = 0..5 /\ g = [n \in 0..5 |-> g[n]]
        OBVIOUS
    <2> HIDE DEF g
    <2>4. g = [n \in 0..5 |-> IF n = 0 THEN G0 ELSE AfterModel(g[n - 1], ResetModels[n])]
        BY <2>2, <2>3
    <2>. QED
        BY <2>4 DEF G0
<1>4. Eqn(after)
    <2> HIDE DEF Eqn
    <2>. QED
        BY <1>3, Zenon
<1> HIDE DEF after, g
<1>5. /\ after[0] = G0
      /\ after[1] = AfterModel(after[0], ResetModels[1])
      /\ after[2] = AfterModel(after[1], ResetModels[2])
      /\ after[3] = AfterModel(after[2], ResetModels[3])
      /\ after[4] = AfterModel(after[3], ResetModels[4])
      /\ after[5] = AfterModel(after[4], ResetModels[5])
    <2>1. \A n \in 0..5 : after[n] = IF n = 0 THEN G0 ELSE AfterModel(after[n - 1], ResetModels[n])
        BY <1>4
    <2> HIDE DEF Eqn, G0
    <2>. QED
        BY <2>1
<1> HIDE DEF Eqn
<1>. QED
    BY <1>1, <1>2, <1>5

(* Nothing is in the way of a model if no row is left that protects rows of *)
(* the models that go with it.                                             *)
LEMMA NothingInTheWay ==
    ASSUME NEW d \in SUBSET Row, NEW class, NEW Within, class \in Within,
           \A models \in CascadingModels : models[2] \in Within => models[1] \in Within,
           \A models \in ProtectingModels :
               models[2] \in Within => \A q \in d : ClassOf[q] # models[1]
    PROVE  ~IsProtected(d, RowsOf(d, class))
<1> SUFFICES ASSUME IsProtected(d, RowsOf(d, class)) PROVE FALSE
    OBVIOUS
<1> DEFINE S == {r \in Row : ClassOf[r] \in Within}
<1>1. PICK r \in Collected(d, RowsOf(d, class)), q \in d : <<q, r>> \in Protecting
    BY DEF IsProtected
<1>2. PICK s \in RowsOf(d, class) : <<r, s>> \in GoesWith
    BY <1>1 DEF Collected
<1>3. s \in S
    BY <1>2 DEF RowsOf
<1>4. \A link \in Cascading : link[2] \in S => link[1] \in S
    <2> TAKE link \in Cascading
    <2> HAVE link[2] \in S
    <2>1. <<ClassOf[link[1]], ClassOf[link[2]]>> \in CascadingModels /\ link[1] \in Row
        BY CascadingLink
    <2>2. (<<ClassOf[link[1]], ClassOf[link[2]]>>)[1] \in Within
        BY <2>1
    <2>. QED
        BY <2>1, <2>2
<1>5. r \in S
    <2> HIDE DEF S
    <2>. QED
        BY <1>2, <1>3, <1>4, StaysWithin
<1>6. <<ClassOf[q], ClassOf[r]>> \in ProtectingModels
    BY <1>1, ProtectingLink
<1>7. (<<ClassOf[q], ClassOf[r]>>)[2] \in Within
    BY <1>5
<1>. QED
    BY <1>1, <1>6, <1>7

(* The command at a model that is not in the way: none of its rows is left. *)
LEMMA ModelIsDeleted ==
    ASSUME NEW d \in SUBSET Row, NEW class, ~IsProtected(d, RowsOf(d, class))
    PROVE  LET next == AfterModel([db |-> d, failed |-> FALSE], class) IN
           /\ next = [db |-> next.db, failed |-> FALSE]
           /\ next.db \subseteq d /\ \A r \in next.db : ClassOf[r] # class
<1>1. AfterModel([db |-> d, failed |-> FALSE], class) =
          [db |-> d \ Collected(d, RowsOf(d, class)), failed |-> FALSE]
    BY DEF AfterModel
<1>2. \A r \in d : ClassOf[r] = class => r \in Collected(d, RowsOf(d, class))
    BY GoesWithItself DEF Collected, RowsOf
<1> DEFINE left == d \ Collected(d, RowsOf(d, class))
<1>3. left \subseteq d /\ \A r \in left : ClassOf[r] # class
    BY <1>2
<1> HIDE DEF left
<1>4. AfterModel([db |-> d, failed |-> FALSE], class) = [db |-> left, failed |-> FALSE]
    BY <1>1 DEF left
<1> DEFINE next == AfterModel([db |-> d, failed |-> FALSE], class)
<1>5. next.db = left
    BY <1>4
<1> HIDE DEF next
<1>6. next = [db |-> next.db, failed |-> FALSE]
    BY <1>4, <1>5 DEF next
<1>. QED
    BY <1>3, <1>5, <1>6 DEF next

(* It stops at its first model or at none: once the orders are gone, which *)
(* no payment then refers to, the items that protect the courses are gone  *)
(* with them, and the courses go before the categories they protect.       *)
LEMMA ResetsAll ==
    ASSUME NEW db \in Databases
    PROVE  ResetsAllOrNothing(db)
<1> DEFINE G0 == [db |-> db, failed |-> FALSE]
           G1 == AfterModel(G0, "Order")
           G2 == AfterModel(G1, "Coupon")
           G3 == AfterModel(G2, "Course")
           G4 == AfterModel(G3, "CourseCategory")
           G5 == AfterModel(G4, "InstructorProfile")
<1>1. reset(db) = G5
    BY ResetGoesThrough
<1>2. db \in SUBSET Row
    BY DEF Databases
<1>3. CASE IsProtected(db, RowsOf(db, "Order"))
    <2> DEFINE stopped == [db |-> db, failed |-> TRUE]
    <2>1. G1 = stopped
        BY <1>3 DEF AfterModel
    <2>2. \A class : AfterModel(stopped, class) = stopped
        BY DEF AfterModel
    <2> HIDE DEF G1, stopped
    <2>3. G5 = stopped
        BY <2>1, <2>2
    <2>. QED
        BY <1>1, <2>3 DEF ResetsAllOrNothing, stopped
<1>4. CASE ~IsProtected(db, RowsOf(db, "Order"))
    <2>1. /\ G1 = [db |-> G1.db, failed |-> FALSE]
          /\ G1.db \subseteq db /\ \A r \in G1.db : ClassOf[r] # "Order"
        BY <1>2, <1>4, ModelIsDeleted
    <2>2. \A r \in G1.db : ClassOf[r] # "OrderItem"
        <3>1. G1.db = db \ Collected(db, RowsOf(db, "Order"))
            BY <1>4 DEF AfterModel
        <3>2. ASSUME NEW r \in db, ClassOf[r] = "OrderItem"
              PROVE  r \in Collected(db, RowsOf(db, "Order"))
            <4>1. /\ <<r, RefersTo[r].order>> \in Cascading /\ ClassOf[RefersTo[r].order] = "Order"
                BY <1>2, <3>2, KeysOfTrail
            <4>2. RefersTo[r].order \in db
                BY <4>1, KeysLeadSomewhere
            <4>3. <<r, RefersTo[r].order>> \in GoesWith
                BY <4>1, GoesWithNext
            <4>. QED
                BY <4>1, <4>2, <4>3 DEF Collected, RowsOf
        <3>. QED
            BY <3>1, <3>2
    <2> HIDE DEF G1
    <2>3. ~IsProtected(G1.db, RowsOf(G1.db, "Coupon"))
        <3> DEFINE Within == {"Coupon"}
        <3>1. /\ \A models \in CascadingModels : models[2] \in Within => models[1] \in Within
              /\ \A models \in ProtectingModels : models[2] \notin Within
            BY DEF CascadingModels, ProtectingModels
        <3>2. "Coupon" \in Within
            OBVIOUS
        <3> HIDE DEF Within
        <3>. QED
            BY <1>2, <2>1, <3>1, <3>2, NothingInTheWay
    <2>4. /\ G2 = [db |-> G2.db, failed |-> FALSE]
          /\ G2.db \subseteq G1.db /\ \A r \in G2.db : ClassOf[r] # "Coupon"
        BY <1>2, <2>1, <2>3, ModelIsDeleted
    <2> HIDE DEF G2
    <2>5. ~IsProtected(G2.db, RowsOf(G2.db, "Course"))
        <3> DEFINE Within == {"Course", "Section", "Lesson", "LessonAttachment", "LessonProgress",
                              "Enrollment"}
        <3>1. /\ \A models \in CascadingModels : models[2] \in Within => models[1] \in Within
              /\ \A models \in ProtectingModels : models[2] \in Within => models[1] = "OrderItem"
            BY DEF CascadingModels, ProtectingModels
        <3>2. "Course" \in Within
            OBVIOUS
        <3> HIDE DEF Within
        <3>. QED
            BY <1>2, <2>1, <2>2, <2>4, <3>1, <3>2, NothingInTheWay
    <2>6. /\ G3 = [db |-> G3.db, failed |-> FALSE]
          /\ G3.db \subseteq G2.db /\ \A r \in G3.db : ClassOf[r] # "Course"
        BY <1>2, <2>1, <2>4, <2>5, ModelIsDeleted
    <2> HIDE DEF G3
    <2>7. ~IsProtected(G3.db, RowsOf(G3.db, "CourseCategory"))
        <3> DEFINE Within == {"CourseCategory"}
        <3>1. /\ \A models \in CascadingModels : models[2] \in Within => models[1] \in Within
              /\ \A models \in ProtectingModels : models[2] \in Within => models[1] = "Course"
            BY DEF CascadingModels, ProtectingModels
        <3>2. "CourseCategory" \in Within
            OBVIOUS
        <3> HIDE DEF Within
        <3>. QED
            BY <1>2, <2>1, <2>4, <2>6, <3>1, <3>2, NothingInTheWay
    <2>8. /\ G4 = [db |-> G4.db, failed |-> FALSE]
          /\ G4.db \subseteq G3.db /\ \A r \in G4.db : ClassOf[r] # "CourseCategory"
        BY <1>2, <2>1, <2>4, <2>6, <2>7, ModelIsDeleted
    <2> HIDE DEF G4
    <2>9. ~IsProtected(G4.db, RowsOf(G4.db, "InstructorProfile"))
        <3> DEFINE Within == {"InstructorProfile"}
        <3>1. /\ \A models \in CascadingModels : models[2] \in Within => models[1] \in Within
              /\ \A models \in ProtectingModels : models[2] \notin Within
            BY DEF CascadingModels, ProtectingModels
        <3>2. "InstructorProfile" \in Within
            OBVIOUS
        <3> HIDE DEF Within
        <3>. QED
            BY <1>2, <2>1, <2>4, <2>6, <2>8, <3>1, <3>2, NothingInTheWay
    <2>10. /\ G5 = [db |-> G5.db, failed |-> FALSE]
           /\ G5.db \subseteq G4.db /\ \A r \in G5.db : ClassOf[r] # "InstructorProfile"
        <3>1. G4.db \in SUBSET Row
            BY <1>2, <2>1, <2>4, <2>6, <2>8
        <3>. QED
            BY <2>8, <2>9, <3>1, ModelIsDeleted
    <2> HIDE DEF G5
    <2>11. ModelsOf(ResetModels) =
               {"Order", "Coupon", "Course", "CourseCategory", "InstructorProfile"}
        <3>1. DOMAIN ResetModels = {1, 2, 3, 4, 5}
            BY DEF ResetModels
        <3>. QED
            BY <3>1 DEF ModelsOf, ResetModels
    <2>12. ~G5.failed /\ \A r \in G5.db : ClassOf[r] \notin ModelsOf(ResetModels)
        BY <2>1, <2>4, <2>6, <2>8, <2>10, <2>11
    <2>. QED
        BY <1>1, <2>12 DEF ResetsAllOrNothing
<1>. QED
    BY <1>3, <1>4

(* seed_demo --reset deletes all it is to delete or, if a payment protects *)
(* an order, nothing, though it opens no transaction (_reset).             *)
THEOREM ResetsAreWhole == Spec => []ResetIsAllOrNothing
<1>1. HalfReset = {}
    BY ResetsAll DEF HalfReset
<1>2. ResetIsAllOrNothing
    BY <1>1 DEF ResetIsAllOrNothing
<1>. QED
    BY <1>2, PTL DEF Spec
=============================================================================
