----------------------------- MODULE ServiceMetaData -----------------------------
(***************************************************************************)
(* servicemetadata.cpp: reading the XML that describes a service.  Three   *)
(* functions, one for each level of the document, call one another and     *)
(* pull tokens from a QXmlStreamReader that they share; each runs until    *)
(* the end tag of its element, until it meets an error of its own, or      *)
(* until the reader says it is at the end, which it also says once it has  *)
(* failed.  The document is not known beforehand: every next token is      *)
(* chosen, among those a reader may hand out there.                        *)
(***************************************************************************)
EXTENDS Naturals, Sequences, FiniteSets, TLC

CONSTANTS InterfaceName,   \* sequences of one-character strings, in lower case
          Version,         \* interface versions <<major, minor>>
          MaxElements      \* bound on the elements of a document

VARIABLES
  calls,      \* the functions entered and not left, the innermost last
  broken,     \* the reader failed inside readElementText
  rootRead,   \* the root element has been closed
  xmlVersion, serviceName, serviceLocation, serviceType, serviceInterfaces,
  latestIndex,
  serviceTags,   \* dupSTags of the running processServiceElement
  interface,     \* the aInterface of the running processInterfaceElement
  interfaceTags, \* and its dupITags
  latestError,
  outcome,
  elements

service == <<serviceName, serviceLocation, serviceType, serviceInterfaces, latestIndex>>
element == <<serviceTags, interface, interfaceTags>>
vars == <<calls, broken, rootRead, xmlVersion, service, element, latestError,
          outcome, elements>>

Empty == ""
NoTags == [t \in {"name", "description", "filepath", "ipcaddress", "version",
                  "capabilities"} |-> 0]
NoInterface == [name |-> <<>>, version |-> <<0, 0>>, custom |-> FALSE]
XmlVersions == {"missing", "malformed", "1.0", "1.1", "1.2"}
Level == IF calls = <<>> THEN "document" ELSE calls[Len(calls)]

TypeOK ==
  /\ calls \in Seq({"SFW", "service", "interface"}) /\ Len(calls) <= 3
  /\ broken \in BOOLEAN /\ rootRead \in BOOLEAN
  /\ xmlVersion \in XmlVersions
  /\ serviceName \in {Empty, "name"}
  /\ serviceLocation \in {Empty, "path", "address"}
  /\ serviceType \in {"Plugin", "InterProcess"}
  /\ \A i \in DOMAIN serviceInterfaces :
       /\ serviceInterfaces[i].name \in InterfaceName
       /\ serviceInterfaces[i].version \in Version
  /\ DOMAIN latestIndex \subseteq InterfaceName
  /\ \A n \in DOMAIN latestIndex : latestIndex[n] \in DOMAIN serviceInterfaces
  /\ outcome \in {"parsing", "accepted", "rejected"}
  /\ elements \in 0..MaxElements

\* extractMetadata begins with clearMetadata.
Init ==
  /\ calls = <<>> /\ broken = FALSE /\ rootRead = FALSE
  /\ xmlVersion = "1.0"
  /\ serviceName = Empty /\ serviceLocation = Empty /\ serviceType = "Plugin"
  /\ serviceInterfaces = <<>> /\ latestIndex = <<>>
  /\ serviceTags = NoTags /\ interface = NoInterface /\ interfaceTags = NoTags
  /\ latestError = "none"
  /\ outcome = "parsing"
  /\ elements = 0

Reading == outcome = "parsing" /\ ~broken
Counted == elements < MaxElements /\ elements' = elements + 1

\* An error returns through every function: a service element that has both
\* kinds of location replaces it, and the metadata is cleared.
Fail(e) ==
  /\ outcome' = "rejected"
  /\ latestError' = IF /\ Level \in {"service", "interface"}
                       /\ serviceTags["filepath"] > 0 /\ serviceTags["ipcaddress"] > 0
                    THEN "MULTIPLE_SERVICE_TYPES" ELSE e
  /\ xmlVersion' = "1.0"
  /\ serviceName' = Empty /\ serviceLocation' = Empty /\ serviceType' = "Plugin"
  /\ serviceInterfaces' = <<>> /\ latestIndex' = <<>>
  /\ UNCHANGED <<calls, broken, rootRead, element>>

Enter(function) == calls' = Append(calls, function)
Leave == /\ calls' = SubSeq(calls, 1, Len(calls) - 1)
         /\ rootRead' = (rootRead \/ (Len(calls) = 1 /\ ~broken))
-----------------------------------------------------------------------------
(***************************************************************************)
(* The document and <SFW>                                                  *)
(***************************************************************************)
StartSFW(v) ==
  /\ Reading /\ Level = "document" /\ ~rootRead /\ Counted
  /\ IF v \in {"1.0", "1.1"}
     THEN /\ Enter("SFW") /\ xmlVersion' = v
          /\ UNCHANGED <<broken, rootRead, service, element, latestError, outcome>>
     ELSE Fail(IF v = "1.2" THEN "UNSUPPORTED_XML_VERSION" ELSE "INVALID_XML_VERSION")

StartService ==
  /\ Reading /\ Counted
  /\ Level = "SFW" \/ (Level = "document" /\ ~rootRead)
  /\ Enter("service")
  /\ serviceTags' = NoTags
  /\ UNCHANGED <<broken, rootRead, xmlVersion, service, interface, interfaceTags,
                 latestError, outcome>>

\* An element where none is expected, or a second <SFW>; the end of a file that
\* is not whole.
Unexpected ==
  /\ Reading /\ Counted
  /\ Level # "document" \/ ~rootRead
  /\ Fail(CASE Level = "service" -> "PARSE_SERVICE"
            [] Level = "interface" -> "PARSE_INTERFACE"
            [] OTHER -> "NO_SERVICE")

Malformed == Reading /\ Fail("INVALID_XML_FILE") /\ UNCHANGED elements

\* </SFW>, or the reader is at its end.
EndSFW ==
  /\ outcome = "parsing" /\ Level = "SFW"
  /\ Leave
  /\ UNCHANGED <<broken, xmlVersion, service, element, latestError, outcome, elements>>

EndDocument ==
  /\ outcome = "parsing" /\ Level = "document"
  /\ rootRead \/ broken
  /\ outcome' = "accepted"
  /\ UNCHANGED <<calls, broken, rootRead, xmlVersion, service, element, latestError,
                 elements>>
-----------------------------------------------------------------------------
(***************************************************************************)
(* <service>                                                               *)
(***************************************************************************)
\* readElementText: the text, or what there was of it when the reader failed.
ReadText == broken' \in BOOLEAN

ServiceText(tag, text) ==
  /\ Reading /\ Level = "service" /\ Counted
  /\ \/ tag = "name" /\ text \in {Empty, "name"}
     \/ tag \in {"description", "version"} /\ text = Empty
     \/ tag = "filepath" /\ text \in {Empty, "path", "_q_ipc_addr:"}
     \/ tag = "ipcaddress" /\ text \in {Empty, "address", "_q_ipc_addr:"}
  /\ IF tag = "ipcaddress" /\ xmlVersion = "1.0" THEN Fail("UNSUPPORTED_IPC")
     ELSE IF text = "_q_ipc_addr:" THEN Fail("INVALID_FILEPATH")
     ELSE /\ ReadText
          /\ serviceTags' = IF tag = "version" THEN serviceTags
                            ELSE [serviceTags EXCEPT ![tag] = @ + 1]
          /\ serviceName' = IF tag = "name" THEN text ELSE serviceName
          /\ serviceLocation' = IF tag \in {"filepath", "ipcaddress"} THEN text
                                ELSE serviceLocation
          /\ UNCHANGED <<calls, rootRead, xmlVersion, serviceType, serviceInterfaces,
                         latestIndex, interface, interfaceTags, latestError, outcome>>

Twice(tags) == \E t \in DOMAIN tags : tags[t] > 1

\* </service>, or the reader is at its end.
EndService ==
  /\ outcome = "parsing" /\ Level = "service"
  /\ UNCHANGED elements
  /\ CASE serviceName = Empty -> Fail("NO_SERVICE_NAME")
       [] serviceName # Empty /\ serviceLocation = Empty -> Fail("NO_SERVICE_PATH")
       [] serviceName # Empty /\ serviceLocation # Empty /\ Twice(serviceTags) ->
            Fail("DUPLICATED_TAG")
       [] OTHER ->
            IF serviceTags["filepath"] > 0 /\ serviceTags["ipcaddress"] > 0
            THEN Fail("MULTIPLE_SERVICE_TYPES")
            ELSE IF serviceInterfaces = <<>> THEN Fail("NO_SERVICE_INTERFACE")
            ELSE /\ serviceType' = IF serviceTags["ipcaddress"] > 0
                                   THEN "InterProcess" ELSE serviceType
                 /\ Leave
                 /\ UNCHANGED <<broken, xmlVersion, serviceName, serviceLocation,
                                serviceInterfaces, latestIndex, element, latestError,
                                outcome>>
-----------------------------------------------------------------------------
(***************************************************************************)
(* <interface>                                                             *)
(***************************************************************************)
StartInterface ==
  /\ Reading /\ Level = "service" /\ Counted
  /\ Enter("interface")
  /\ interface' = NoInterface /\ interfaceTags' = NoTags
  /\ UNCHANGED <<broken, rootRead, xmlVersion, service, serviceTags, latestError, outcome>>

InterfaceRead(tag, i) ==
  /\ ReadText
  /\ interface' = i
  /\ interfaceTags' = IF tag = "customproperty" THEN interfaceTags
                      ELSE [interfaceTags EXCEPT ![tag] = @ + 1]
  /\ UNCHANGED <<calls, rootRead, xmlVersion, service, serviceTags, latestError, outcome>>

ReadInterfaceName(n) ==
  /\ Reading /\ Level = "interface" /\ Counted
  /\ InterfaceRead("name", [interface EXCEPT !.name = n])

\* An empty <version> is read and not counted; one that is not x.y is refused.
ReadVersion(v) ==
  /\ Reading /\ Level = "interface" /\ Counted
  /\ InterfaceRead("version", [interface EXCEPT !.version = v])

BadVersion ==
  /\ Reading /\ Level = "interface" /\ Counted
  /\ \/ Fail("INVALID_VERSION")
     \/ ReadText /\ UNCHANGED <<calls, rootRead, xmlVersion, service, element,
                                latestError, outcome>>

ReadOther(tag) ==
  /\ Reading /\ Level = "interface" /\ Counted
  /\ tag \in {"description", "capabilities"}
  /\ InterfaceRead(tag, interface)

\* A custom property needs a key of its own.
ReadCustom(hasKey) ==
  /\ Reading /\ Level = "interface" /\ Counted
  /\ IF ~hasKey THEN Fail("INVALID_CUSTOM_TAG")
     ELSE IF interface.custom THEN Fail("DUPLICATED_CUSTOM_KEY")
     ELSE InterfaceRead("customproperty", [interface EXCEPT !.custom = TRUE])

\* The identity of an interface: its name, then the version, without anything
\* between them.
Digits[n \in 0..99] == IF n < 10 THEN <<ToString(n)>>
                       ELSE Digits[n \div 10] \o <<ToString(n % 10)>>
Ident(i) == i.name \o Digits[i.version[1]] \o <<".">> \o Digits[i.version[2]]

LessThan(v, w) == v[1] < w[1] \/ (v[1] = w[1] /\ v[2] < w[2])

IsDuplicate(i) == \E j \in DOMAIN serviceInterfaces : Ident(serviceInterfaces[j]) = Ident(i)

AppendInterface(i) ==
  LET k == Len(serviceInterfaces) + 1
      newer == \/ i.name \notin DOMAIN latestIndex
               \/ LessThan(serviceInterfaces[latestIndex[i.name]].version, i.version)
  IN /\ serviceInterfaces' = Append(serviceInterfaces, i)
     /\ latestIndex' = IF newer THEN [n \in {i.name} \cup DOMAIN latestIndex |->
                                        IF n = i.name THEN k ELSE latestIndex[n]]
                       ELSE latestIndex
     /\ UNCHANGED <<serviceName, serviceLocation, serviceType>>

\* </interface>, or the reader is at its end.
EndInterface ==
  /\ outcome = "parsing" /\ Level = "interface"
  /\ UNCHANGED elements
  /\ IF interfaceTags["version"] = 0 THEN Fail("NO_INTERFACE_VERSION")
     ELSE IF interface.name = <<>> THEN Fail("NO_INTERFACE_NAME")
     ELSE IF Twice(interfaceTags) THEN Fail("DUPLICATED_TAG")
     ELSE IF IsDuplicate(interface) THEN Fail("DUPLICATED_INTERFACE")
     ELSE /\ AppendInterface(interface)
          /\ Leave
          /\ UNCHANGED <<broken, xmlVersion, element, latestError, outcome>>

Next ==
  \/ \E v \in XmlVersions : StartSFW(v)
  \/ StartService \/ Unexpected \/ Malformed \/ EndSFW \/ EndDocument
  \/ \E tag \in DOMAIN NoTags,
        text \in {Empty, "name", "path", "address", "_q_ipc_addr:"} : ServiceText(tag, text)
  \/ EndService \/ StartInterface
  \/ \E n \in InterfaceName \cup {<<>>} : ReadInterfaceName(n)
  \/ \E v \in Version : ReadVersion(v)
  \/ BadVersion
  \/ \E tag \in DOMAIN NoTags : ReadOther(tag)
  \/ \E hasKey \in BOOLEAN : ReadCustom(hasKey)
  \/ EndInterface

Spec == Init /\ [][Next]_vars
-----------------------------------------------------------------------------
\* What registerService relies on: no interface comes twice in one version, and
\* the latest interfaces are, for every name, one entry, no version above it.
ResultConsistent ==
  /\ \A i, j \in DOMAIN serviceInterfaces :
       i # j => \/ serviceInterfaces[i].name # serviceInterfaces[j].name
                \/ serviceInterfaces[i].version # serviceInterfaces[j].version
  /\ DOMAIN latestIndex = {serviceInterfaces[i].name : i \in DOMAIN serviceInterfaces}
  /\ \A i \in DOMAIN serviceInterfaces :
       LET l == serviceInterfaces[latestIndex[serviceInterfaces[i].name]] IN
       /\ l.name = serviceInterfaces[i].name
       /\ \/ l.version[1] > serviceInterfaces[i].version[1]
          \/ /\ l.version[1] = serviceInterfaces[i].version[1]
             /\ l.version[2] >= serviceInterfaces[i].version[2]

\* An accepted document names a service and its interfaces
\* ("SFW_ERROR_NO_SERVICE in case XML file has no service tag").
\* (The code does not keep it; no run checks it.)
AcceptedNamesService ==
  outcome = "accepted" => serviceName # Empty /\ serviceInterfaces # <<>>

\* An accepted document was read to its end ("SFW_ERROR_INVALID_XML_FILE in
\* case service registry is not a valid XML file").
\* (The code does not keep it; no run checks it.)
AcceptedIsWhole == outcome = "accepted" => ~broken

\* A service in a process of its own has an address, a plugin a file.
\* (The code does not keep it; no run checks it.)
TypeFollowsLocation ==
  outcome = "accepted" =>
    (serviceType = "InterProcess" <=> serviceLocation = "address")
=============================================================================
