------------------------------- MODULE Answers ------------------------------
(***************************************************************************)
(* A Response from its making to its reading: what HostInfo found out, or  *)
(* load averages or logins, becomes one of the variant's alternatives; it  *)
(* is written as JSON or as bytes, perhaps damaged, and read into an       *)
(* object that may have been in use.                                       *)
(*                                                                         *)
(* classes/src/DwmMcTallyResponse.cc, DwmMcTallyRequest.cc,                *)
(* DwmMcTallyUname.cc, DwmMcTallyLoadAvg.cc, DwmMcTallyLogins.cc,          *)
(* DwmMcTallyInstalledPackages.cc and their headers                        *)
(***************************************************************************)
EXTENDS HostInfo, TLC

CONSTANTS
  SystemNames,  \* the five fields that uname() gives
  OtherData,    \* load averages and logins that may be answered
  Used,         \* the Responses that may be read into
  MaxDamages    \* a bound on the damages to a document

VARIABLES
  made,     \* the Response, from a constructor
  form,     \* "none", "json", "bytes" or "data": JSON of the data alone
  doc,      \* what was written
  damages,  \* how often doc was damaged
  before,   \* the object that is read into
  got,      \* what it is afterwards
  rc        \* "none", or whether the read succeeded: "true" or "false"

formVars == <<made, form, doc, damages, before, got, rc>>
vars == <<hostVars, formVars>>

-----------------------------------------------------------------------------
(* Request and Response.  Data has one field, named for the alternative.   *)

Enum == [monostate |-> 0, installedPackages |-> 1, uname |-> 2,
         loadAverages |-> 3, logins |-> 4, uptime |-> 5]

Request(e, selector) == [reqEnum |-> e, selector |-> selector]
NoRequest == Request(0, "")

Alternative(data) == CHOOSE a \in DOMAIN data : TRUE

\* Response's constructors: a selector comes from the packages.
ResponseOf(data) ==
  [req |-> Request(Enum[Alternative(data)],
                   IF "installedPackages" \in DOMAIN data
                   THEN data.installedPackages.selector ELSE ""),
   data |-> data]

\* ToJson's std::get finds the alternative that it takes for the request.
Agrees(r) == r.req.reqEnum # 0 => Enum[Alternative(r.data)] = r.req.reqEnum

\* An object is read into as it was constructed, or as another read left it.
ASSUME UsedAssumption ==
  \A u \in Used : u = [req |-> u.req, data |-> u.data] /\ Agrees(u)

-----------------------------------------------------------------------------
(***************************************************************************)
(* JSON values have one field, named for their type: str, int, float, obj  *)
(* (a function from keys), arr (a sequence) or null.                       *)
(***************************************************************************)
Typed(type, v) == [t \in {type} |-> v]
Obj(f) == Typed("obj", f)

\* j[key] is there and of that type.
Has(j, key, type) ==
  "obj" \in DOMAIN j /\ key \in DOMAIN j.obj /\ type \in DOMAIN j.obj[key]

\* The keys and types of the objects that hold a row of fields.
Fields ==
  [uname |-> << <<"osName", "str">>, <<"nodeName", "str">>, <<"release", "str">>,
                <<"version", "str">>, <<"machine", "str">>, <<"prettyName", "str">> >>,
   loadAverages |-> << <<"load1", "float">>, <<"load5", "float">>, <<"load15", "float">> >>,
   login |-> << <<"user", "str">>, <<"tty", "str">>, <<"fromHost", "str">>,
                <<"loginTime", "int">>, <<"idleTime", "int">> >>,
   package |-> << <<"pkg", "str">>, <<"ver", "str">> >>]

\* What a default-constructed alternative holds.
BlankRow(fields) ==
  [k \in DOMAIN fields |-> [str |-> "", int |-> 0, float |-> -1][fields[k][2]]]

Blank(a) ==
  CASE a = "uname" -> [uname |-> BlankRow(Fields.uname)]
    [] a = "loadAverages" -> [loadAverages |-> BlankRow(Fields.loadAverages)]
    [] a = "logins" -> [logins |-> <<>>]
    [] a = "installedPackages" ->
         [installedPackages |-> [selector |-> "", pkgs |-> <<>>]]
    [] a = "uptime" -> [uptime |-> 0]
    [] OTHER -> [monostate |-> 0]

\* ToJson of a row, and FromJson: its values up to the first field that is
\* missing or of another type, and blanks from there.
RowToJson(fields, row) ==
  Obj([key \in {fields[k][1] : k \in DOMAIN fields} |->
         LET k == CHOOSE n \in DOMAIN fields : fields[n][1] = key
         IN Typed(fields[k][2], row[k])])

Leading(j, fields) ==
  {k \in DOMAIN fields : \A n \in 1 .. k : Has(j, fields[n][1], fields[n][2])}

RowFromJson(j, fields) ==
  [k \in DOMAIN fields |->
     IF k \in Leading(j, fields) THEN j.obj[fields[k][1]][fields[k][2]]
     ELSE BlankRow(fields)[k]]

\* Variant of Whole that takes a row of which something was read.
Whole_Begun(j, fields) == Leading(j, fields) # {}

Whole(j, fields) == Leading(j, fields) = DOMAIN fields

\* Variant of RequestToJson that forgets the selector.
RequestToJson_NoSelector(r) == Obj([reqEnum |-> Typed("int", r.reqEnum)])

RequestToJson(r) ==
  IF r.reqEnum = Enum.installedPackages
  THEN Obj([reqEnum |-> Typed("int", r.reqEnum), selector |-> Typed("str", r.selector)])
  ELSE Obj([reqEnum |-> Typed("int", r.reqEnum)])

\* The number is narrowed to the enumerator's 8 bits.
RequestFromJson(j) ==
  LET e == j.obj.reqEnum.int % 256
      selects == e = Enum.installedPackages
  IN IF ~Has(j, "reqEnum", "int") THEN [ok |-> FALSE, value |-> NoRequest]
     ELSE [ok |-> ~selects \/ Has(j, "selector", "str"),
           value |-> Request(e, IF selects /\ Has(j, "selector", "str")
                                THEN j.obj.selector.str ELSE "")]

ListToJson(fields, rows) ==
  Typed("arr", [k \in DOMAIN rows |-> RowToJson(fields, rows[k])])

\* A map's rows, in some order.
RowsOf(map) ==
  LET names == SetToSeq(DOMAIN map)
  IN [k \in DOMAIN names |-> <<names[k], map[names[k]]>>]

PackagesToJson(p) ==
  Obj([selector |-> Typed("str", p.selector),
       pkgs |-> ListToJson(Fields.package, RowsOf(p.pkgs))])

DataToJson(data) ==
  CASE "uname" \in DOMAIN data -> RowToJson(Fields.uname, data.uname)
    [] "loadAverages" \in DOMAIN data -> RowToJson(Fields.loadAverages, data.loadAverages)
    [] "logins" \in DOMAIN data -> ListToJson(Fields.login, data.logins)
    [] "installedPackages" \in DOMAIN data -> PackagesToJson(data.installedPackages)
    [] OTHER -> Typed("int", data.uptime)

ResponseToJson(r) ==
  Obj([req |-> RequestToJson(r.req), data |-> DataToJson(r.data)])

\* The elements of an array before the first that is not a whole row, and what
\* is read of them.
WholeRows(arr, fields) ==
  {k \in DOMAIN arr : \A n \in 1 .. k : Whole(arr[n], fields)}

Rows(arr, fields) == [k \in WholeRows(arr, fields) |-> RowFromJson(arr[k], fields)]

\* Variant of LoginsFromJson that does not clear the entries.
LoginsFromJson_Appends(j, old) ==
  IF "arr" \notin DOMAIN j THEN [ok |-> FALSE, value |-> <<>>]
  ELSE [ok |-> WholeRows(j.arr, Fields.login) = DOMAIN j.arr,
        value |-> old \o Rows(j.arr, Fields.login)]

LoginsFromJson(j, old) ==
  IF "arr" \notin DOMAIN j THEN [ok |-> FALSE, value |-> <<>>]
  ELSE [ok |-> WholeRows(j.arr, Fields.login) = DOMAIN j.arr,
        value |-> Rows(j.arr, Fields.login)]

\* A map of the rows' names; a later row replaces an earlier one of its name.
MapOf(rows) ==
  LET latest(name) == CHOOSE k \in DOMAIN rows :
        /\ rows[k][1] = name
        /\ \A m \in DOMAIN rows : rows[m][1] = name => m <= k
  IN [name \in {rows[k][1] : k \in DOMAIN rows} |-> rows[latest(name)][2]]

\* The selector survives until another is found, the packages do not.
PackagesFromJson(j, old) ==
  LET selector == IF Has(j, "selector", "str") THEN j.obj.selector.str ELSE old.selector
      arr == j.obj.pkgs.arr
  IN IF ~Has(j, "selector", "str") \/ ~Has(j, "pkgs", "arr")
     THEN [ok |-> FALSE, value |-> [selector |-> selector, pkgs |-> <<>>]]
     ELSE [ok |-> WholeRows(arr, Fields.package) = DOMAIN arr,
           value |-> [selector |-> selector, pkgs |-> MapOf(Rows(arr, Fields.package))]]

\* FromJson of the alternative a's own class, called on old.
DataFromJson(a, j, old) ==
  LET read ==
    CASE a \in {"uname", "loadAverages"} ->
           [ok |-> Whole(j, Fields[a]), value |-> RowFromJson(j, Fields[a])]
      [] a = "logins" -> LoginsFromJson(j, old)
      [] a = "installedPackages" -> PackagesFromJson(j, old)
      [] OTHER -> [ok |-> "int" \in DOMAIN j,
                   value |-> IF "int" \in DOMAIN j THEN j.int ELSE 0]
  IN [ok |-> read.ok, value |-> [x \in {a} |-> read.value]]

At(j, key) == "obj" \in DOMAIN j /\ key \in DOMAIN j.obj

\* Variant of ResponseFromJson that sets the request before it reads the data.
ResponseFromJson_RequestFirst(j, old) ==
  LET r == RequestFromJson(j.obj.req)
      a == CHOOSE x \in DOMAIN Enum : Enum[x] = r.value.reqEnum
      data == DataFromJson(a, j.obj.data, Blank(a)[a])
  IN IF ~At(j, "req") \/ ~r.ok \/ r.value.reqEnum \notin 1 .. 5
     THEN [ok |-> FALSE, value |-> old]
     ELSE IF ~At(j, "data") \/ ~data.ok
     THEN [ok |-> FALSE, value |-> [old EXCEPT !.req = r.value]]
     ELSE [ok |-> TRUE, value |-> [req |-> r.value, data |-> data.value]]

\* The data is read into an object of its own, and nothing is assigned
\* before all of it was read.
ResponseFromJson(j, old) ==
  LET r == RequestFromJson(j.obj.req)
      a == CHOOSE x \in DOMAIN Enum : Enum[x] = r.value.reqEnum
      data == DataFromJson(a, j.obj.data, Blank(a)[a])
  IN IF /\ At(j, "req") /\ r.ok /\ r.value.reqEnum \in 1 .. 5
        /\ At(j, "data") /\ data.ok
     THEN [ok |-> TRUE, value |-> [req |-> r.value, data |-> data.value]]
     ELSE [ok |-> FALSE, value |-> old]

-----------------------------------------------------------------------------
(* The same as fields of a stream; a variant is its index and its value. *)

RequestBytes(r) ==
  IF r.reqEnum = Enum.installedPackages THEN <<r.reqEnum, r.selector>> ELSE <<r.reqEnum>>

Bytes(r) == RequestBytes(r.req) \o <<Alternative(r.data), r.data>>

\* Request::Read, which clears the Request first, and what it leaves.
RequestFromBytes(s) ==
  LET n == IF s # <<>> /\ s[1] = Enum.installedPackages THEN 2 ELSE 1
  IN [ok |-> Len(s) >= n,
      value |-> CASE s = <<>> -> NoRequest
                  [] Len(s) >= n /\ n = 2 -> Request(s[1], s[2])
                  [] OTHER -> Request(s[1], ""),
      left |-> SubSeq(s, n + 1, Len(s))]

\* Response::Read of the fields s into old, whose data is not cleared.  What a
\* variant holds after its index alone is the stream library's.
FromBytes(s, old) ==
  LET r == RequestFromBytes(s)
      out(ok, data) == [ok |-> ok, value |-> [req |-> r.value, data |-> data]]
  IN CASE Len(r.left) = 2 -> {out(TRUE, r.left[2])}
       [] Len(r.left) = 1 -> {out(FALSE, d) : d \in {old.data, Blank(r.left[1])}}
       [] OTHER -> {out(FALSE, old.data)}

-----------------------------------------------------------------------------
(* Damage to a JSON document: a key is lost, or its value is of no use, or *)
(* the enumerator is another number.                                       *)
Null == Typed("null", 0)

Damaged(j) ==
  IF "obj" \notin DOMAIN j THEN {}
  ELSE {Obj([k \in DOMAIN j.obj \ {key} |-> j.obj[k]]) : key \in DOMAIN j.obj}
       \cup {Obj([j.obj EXCEPT ![key] = Null]) : key \in DOMAIN j.obj}

Within(j, key, values) ==
  IF ~At(j, key) THEN {} ELSE {Obj([j.obj EXCEPT ![key] = d]) : d \in values}

DamagedElement(j) ==
  IF "arr" \notin DOMAIN j THEN {}
  ELSE UNION {{Typed("arr", [j.arr EXCEPT ![k] = d]) : d \in Damaged(j.arr[k])} :
                k \in DOMAIN j.arr}

DamagedData(j) ==
  Damaged(j) \cup DamagedElement(j) \cup Within(j, "pkgs", DamagedElement(j.obj.pkgs))

Renumbered(j) ==
  IF ~Has(j, "reqEnum", "int") THEN {}
  ELSE {Obj([j.obj EXCEPT !.reqEnum = Typed("int", e)]) :
          e \in 0 .. 5 \cup {j.obj.reqEnum.int + 256}}

DamagedResponse(j) ==
  Damaged(j) \cup Within(j, "req", Damaged(j.obj.req) \cup Renumbered(j.obj.req))
  \cup Within(j, "data", DamagedData(j.obj.data))

-----------------------------------------------------------------------------
\* What uname() gives, and what is found out elsewhere.
ASSUME FoundAssumption ==
  /\ SystemNames \in Seq(STRING) /\ Len(SystemNames) = 5
  /\ OtherData \subseteq [loadAverages : [1 .. 3 -> Int]]
                        \cup [logins : Seq(STRING \X STRING \X STRING \X Int \X Int)]

NoResponse == [req |-> NoRequest, data |-> Blank("monostate")]

Init ==
  /\ InitHost
  /\ made = NoResponse /\ before = NoResponse /\ got = NoResponse
  /\ form = "none" /\ doc = <<>> /\ damages = 0 /\ rc = "none"

\* What a Responder's Send functions put into a Response; a list of
\* expressions is never asked for by a client.
Found ==
  CASE asked.form = "one" ->
         {[installedPackages |-> [selector |-> asked.exprs[1].text, pkgs |-> pkgs]]}
    [] asked.form = "prettyName" -> {[uname |-> SystemNames \o <<PrettyName>>]}
    [] asked.form = "uptime" -> {[uptime |-> uptime]}
    [] asked.form = "other" -> OtherData
    [] OTHER -> {}

\* The variables of what was found out are gone once the Response is made.
Respond ==
  /\ place = "done"
  /\ \E data \in Found : made' = ResponseOf(data)
  /\ host' = [os |-> "none"] /\ asked' = [form |-> "none"]
  /\ source' = "none" /\ place' = "over" /\ line' = 1
  /\ pkgs' = <<>> /\ uptime' = 0 /\ failed' = {}
  /\ release' = [name |-> "", vers |-> "", releaseName |-> ""]
  /\ UNCHANGED <<form, doc, damages, before, got, rc>>

WriteJson ==
  /\ place = "over" /\ form = "none"
  /\ form' = "json" /\ doc' = ResponseToJson(made)
  /\ UNCHANGED <<hostVars, made, damages, before, got, rc>>

WriteDataJson ==
  /\ place = "over" /\ form = "none" /\ "uptime" \notin DOMAIN made.data
  /\ form' = "data" /\ doc' = DataToJson(made.data)
  /\ UNCHANGED <<hostVars, made, damages, before, got, rc>>

WriteBytes ==
  /\ place = "over" /\ form = "none"
  /\ form' = "bytes" /\ doc' = Bytes(made)
  /\ UNCHANGED <<hostVars, made, damages, before, got, rc>>

\* Somebody changes a document, or a stream ends early.
Damage ==
  /\ form # "none" /\ rc = "none" /\ damages < MaxDamages
  /\ doc' \in CASE form = "json" -> DamagedResponse(doc)
                [] form = "data" -> DamagedData(doc)
                [] OTHER -> {SubSeq(doc, 1, n) : n \in 0 .. Len(doc) - 1}
  /\ damages' = damages + 1
  /\ UNCHANGED <<hostVars, made, form, before, got, rc>>

\* A read of doc into old gave out.
ReadInto(old, out) ==
  /\ before' = old
  /\ got' = out.value
  /\ rc' = IF out.ok THEN "true" ELSE "false"
  /\ UNCHANGED <<hostVars, made, form, doc, damages>>

ReadJson ==
  /\ form = "json" /\ rc = "none"
  /\ \E old \in Used : ReadInto(old, ResponseFromJson(doc, old))

ReadDataJson ==
  /\ form = "data" /\ rc = "none"
  /\ \E old \in Used :
       LET a == Alternative(made.data)
           out == DataFromJson(a, doc, old.data[a])
       IN /\ DOMAIN old.data = {a}
          /\ ReadInto(old, [ok |-> out.ok, value |-> [old EXCEPT !.data = out.value]])

ReadBytes ==
  /\ form = "bytes" /\ rc = "none"
  /\ \E old \in Used : \E out \in FromBytes(doc, old) : ReadInto(old, out)

\* Nothing is left to do; the model's stutter.
Terminated ==
  /\ \/ rc # "none"
     \/ place = "done" /\ Found = {}
  /\ UNCHANGED vars

Next ==
  \/ FindOut /\ UNCHANGED formVars
  \/ Respond \/ WriteJson \/ WriteDataJson \/ WriteBytes \/ Damage
  \/ ReadJson \/ ReadDataJson \/ ReadBytes \/ Terminated

Spec == Init /\ [][Next]_vars

-----------------------------------------------------------------------------
(***************************************************************************)
(* Properties                                                              *)
(***************************************************************************)
\* What is written and not damaged is read back as it was, as JSON, as bytes
\* and each class by itself, whatever the object that is read into held.
RoundTrip ==
  rc # "none" /\ damages = 0 =>
    /\ rc = "true"
    /\ IF form = "data" THEN got.data = made.data ELSE got = made

\* The document j says all that w says, if Part says so of their parts.
SaysBy(Part(_, _), j, w) ==
  /\ DOMAIN j = DOMAIN w
  /\ CASE DOMAIN w = {"obj"} ->
            \A k \in DOMAIN w.obj : k \in DOMAIN j.obj /\ Part(j.obj[k], w.obj[k])
       [] DOMAIN w = {"arr"} ->
            DOMAIN j.arr = DOMAIN w.arr /\ \A k \in DOMAIN w.arr : Part(j.arr[k], w.arr[k])
       [] OTHER -> j = w

\* A Response has data, that may have a list of packages, that have fields.
FieldSays(j, w) == j = w
RowSays(j, w) == SaysBy(FieldSays, j, w)
ListSays(j, w) == SaysBy(RowSays, j, w)
DataSays(j, w) == SaysBy(ListSays, j, w)
Says(j, w) == SaysBy(DataSays, j, w)

\* The document with its request's number in 8 bits.
Narrowed(j) == Obj([j.obj EXCEPT !.req.obj.reqEnum.int = @ % 256])

\* Response::FromJson takes a document only if it says all that ToJson would
\* write of the result, but for a number of the request that is narrowed to 8
\* bits, and changes nothing if it does not take it.
TakesOnlyWhole ==
  form = "json" =>
    /\ rc = "true" => Says(Narrowed(doc), ResponseToJson(got))
    /\ rc = "false" => got = before

\* What a class's data consists of.
Parts(data) ==
  CASE "installedPackages" \in DOMAIN data ->
         {<<n, data.installedPackages.pkgs[n]>> : n \in DOMAIN data.installedPackages.pkgs}
    [] "logins" \in DOMAIN data -> ToSet(data.logins)
    [] "uname" \in DOMAIN data -> ToSet(data.uname)
    [] "loadAverages" \in DOMAIN data -> ToSet(data.loadAverages)
    [] OTHER -> {}

\* An object that is read into from JSON, be it right, wrong or half right,
\* shows nothing afterwards that it held before, but for the selector of
\* packages.
NoLeftovers ==
  form = "data" /\ rc # "none" =>
    Parts(got.data) \subseteq
      Parts(made.data) \cup Parts(Blank(Alternative(made.data)))

\* ToJson's std::get finds the alternative of the Response's request after
\* every read but one of a stream that ended early.
ToJsonIsSafe ==
  rc # "none" => Agrees(got) \/ (form = "bytes" /\ rc = "false")

-----------------------------------------------------------------------------
(***************************************************************************)
(* What makes the properties of what was found out, and ToJsonIsSafe,      *)
(* inductive.                                                              *)
(***************************************************************************)
\* Nothing is written before the Response is made, which says what it holds,
\* and a stream is what was written of it or the beginning of that.
Written ==
  /\ form \in {"none", "json", "bytes", "data"}
  /\ form # "none" => place = "over"
  /\ place = "over" => Enum[Alternative(made.data)] = made.req.reqEnum
  /\ form = "bytes" => \E n \in 0 .. Len(Bytes(made)) : doc = SubSeq(Bytes(made), 1, n)

AInv ==
  /\ place = "over" \/ HInv
  /\ Written
  /\ ToJsonIsSafe

(***************************************************************************)
(* What makes the other three inductive: what a document is after any      *)
(* damages to what was written.                                            *)
(***************************************************************************)
AsRow(fields, row) == [k \in DOMAIN fields |-> row[k]]

IsMap(map) == IsFiniteSet(DOMAIN map) /\ map = [n \in DOMAIN map |-> map[n]]

\* What is made into a Response.
IsData(data) ==
  \/ /\ "uname" \in DOMAIN data
     /\ data = [uname |-> AsRow(Fields.uname, data.uname)]
  \/ /\ "loadAverages" \in DOMAIN data
     /\ data = [loadAverages |-> AsRow(Fields.loadAverages, data.loadAverages)]
  \/ /\ "logins" \in DOMAIN data /\ Len(data.logins) \in Nat
     /\ data = [logins |-> [k \in 1 .. Len(data.logins) |->
                              AsRow(Fields.login, data.logins[k])]]
  \/ /\ "installedPackages" \in DOMAIN data
     /\ data = [installedPackages |-> [selector |-> data.installedPackages.selector,
                                       pkgs |-> data.installedPackages.pkgs]]
     /\ IsMap(data.installedPackages.pkgs)
  \/ /\ "uptime" \in DOMAIN data /\ data = [uptime |-> data.uptime]

\* What is left of a row, a list of rows, packages and data; a field is
\* what it was, of no use, or lost.
RowWorn(j, fields, row) ==
  /\ DOMAIN j = {"obj"} /\ DOMAIN j.obj \subseteq {fields[k][1] : k \in DOMAIN fields}
  /\ \A k \in DOMAIN fields :
       fields[k][1] \in DOMAIN j.obj =>
         j.obj[fields[k][1]] \in {Null, Typed(fields[k][2], row[k])}

ListWorn(j, fields, rows) ==
  /\ DOMAIN j = {"arr"} /\ DOMAIN j.arr = DOMAIN rows
  /\ \A k \in DOMAIN rows : RowWorn(j.arr[k], fields, rows[k])

PackagesWorn(j, p) ==
  /\ DOMAIN j = {"obj"} /\ DOMAIN j.obj \subseteq {"selector", "pkgs"}
  /\ "selector" \in DOMAIN j.obj => j.obj.selector \in {Null, Typed("str", p.selector)}
  /\ "pkgs" \in DOMAIN j.obj =>
       j.obj.pkgs = Null \/ ListWorn(j.obj.pkgs, Fields.package, RowsOf(p.pkgs))

DataWorn(j, data) ==
  \/ j = Null
  \/ "uname" \in DOMAIN data /\ RowWorn(j, Fields.uname, data.uname)
  \/ "loadAverages" \in DOMAIN data /\ RowWorn(j, Fields.loadAverages, data.loadAverages)
  \/ "logins" \in DOMAIN data /\ ListWorn(j, Fields.login, data.logins)
  \/ "installedPackages" \in DOMAIN data /\ PackagesWorn(j, data.installedPackages)
  \/ "uptime" \in DOMAIN data /\ j = Typed("int", data.uptime)

\* A request may have got another number.
RequestWorn(j) ==
  \/ j = Null
  \/ /\ DOMAIN j = {"obj"}
     /\ "reqEnum" \in DOMAIN j.obj => j.obj.reqEnum \in {Null} \cup [{"int"} -> Int]
     /\ "selector" \in DOMAIN j.obj =>
          \/ j.obj.selector = Null
          \/ DOMAIN j.obj.selector = {"str"} /\ j.obj.selector = Typed("str", j.obj.selector.str)

MadeOfData ==
  /\ place # "over" => IsMap(pkgs)
  /\ place = "over" => IsData(made.data) /\ made = ResponseOf(made.data)
  /\ form = "none" => rc = "none"
  /\ damages \in Nat

DocWorn ==
  /\ form = "json" =>
       /\ DOMAIN doc = {"obj"}
       /\ At(doc, "req") => RequestWorn(doc.obj.req)
       /\ At(doc, "data") => DataWorn(doc.obj.data, made.data)
  /\ form = "data" => DataWorn(doc, made.data)
  /\ damages = 0 =>
       /\ form = "json" => doc = ResponseToJson(made)
       /\ form = "data" => doc = DataToJson(made.data)
       /\ form = "bytes" => doc = Bytes(made)

DInv == MadeOfData /\ DocWorn /\ RoundTrip /\ TakesOnlyWhole /\ NoLeftovers

=============================================================================
