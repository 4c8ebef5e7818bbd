---------------------------- MODULE AmqpV1Types -----------------------------
(***************************************************************************)
(* The types of AMQP 1.0, amqp/v1/amqp1-0-0.go.  A composite has its       *)
(* descriptor and its fields in the order UnmarshalBuffer reads them;      *)
(* MarshalBuffer writes a mandatory field always and another one as null   *)
(* when it has its zero value.  A named type is a primitive one and the    *)
(* value that null stands for.  Numbers are bytes, see Octets.             *)
(***************************************************************************)

Composite(descriptor, fields) == [descriptor |-> <<descriptor>>, fields |-> fields]

Named(primitive, null) == [primitive |-> primitive, null |-> null]

-----------------------------------------------------------------------------
Role == Named("boolean", FALSE)

SenderSettleMode == Named("ubyte", <<254>>)

ReceiverSettleMode == Named("ubyte", <<254>>)

Handle == Named("uint", <<255, 255, 255, 255>>)

Seconds == Named("uint", <<>>)

Milliseconds == Named("uint", <<>>)

DeliveryTag == Named("binary", <<>>)

DeliveryNumber == Named("uint", <<>>)

TransferNumber == Named("uint", <<255, 255, 255, 255>>)

SequenceNo == Named("uint", <<>>)

MessageFormat == Named("uint", <<>>)

TerminusDurability == Named("uint", <<>>)

TerminusExpiryPolicy == Named("symbol", <<>>)

SASLCode == Named("ubyte", <<>>)

(* A session that answers none has no remote channel. *)
RemoteChannel == Named("ushort", <<255, 255>>)

-----------------------------------------------------------------------------

Open ==
  Composite(16,
  <<<<"ContainerID", "string", "mandatory">>, <<"Hostname", "string">>,
    <<"MaxFrameSize", "uint">>, <<"ChannelMax", "ushort">>,
    <<"IdleTimeOut", "Milliseconds">>, <<"OutgoingLocales", "symbols">>,
    <<"IncomingLocales", "symbols">>, <<"OfferedCapabilities", "symbols">>,
    <<"DesiredCapabilities", "symbols">>, <<"Properties", "map">>>>)

Begin ==
  Composite(17,
  <<<<"RemoteChannel", "RemoteChannel">>,
    <<"NextOutgoingID", "TransferNumber", "mandatory">>,
    <<"IncomingWindow", "uint", "mandatory">>,
    <<"OutgoingWindow", "uint", "mandatory">>, <<"HandleMax", "Handle">>,
    <<"OfferedCapabilities", "symbols">>,
    <<"DesiredCapabilities", "symbols">>, <<"Properties", "map">>>>)

Attach ==
  Composite(18,
  <<<<"Name", "string", "mandatory">>, <<"Handle", "Handle", "mandatory">>,
    <<"Role", "Role", "mandatory">>,
    <<"SndSettleMode", "SenderSettleMode">>,
    <<"RcvSettleMode", "ReceiverSettleMode">>, <<"Source", "Source">>,
    <<"Target", "Target">>, <<"Unsettled", "map">>,
    <<"IncompleteUnsettled", "boolean">>,
    <<"InitialDeliveryCount", "SequenceNo">>, <<"MaxMessageSize", "ulong">>,
    <<"OfferedCapabilities", "symbols">>,
    <<"DesiredCapabilities", "symbols">>, <<"Properties", "map">>>>)

Flow ==
  Composite(19,
  <<<<"NextIncomingID", "TransferNumber">>,
    <<"IncomingWindow", "uint", "mandatory">>,
    <<"NextOutgoingID", "TransferNumber", "mandatory">>,
    <<"OutgoingWindow", "uint", "mandatory">>, <<"Handle", "Handle">>,
    <<"DeliveryCount", "SequenceNo">>, <<"LinkCredit", "uint">>,
    <<"Available", "uint">>, <<"Drain", "boolean">>, <<"Echo", "boolean">>,
    <<"Properties", "map">>>>)

Transfer ==
  Composite(20,
  <<<<"Handle", "Handle", "mandatory">>, <<"DeliveryID", "DeliveryNumber">>,
    <<"DeliveryTag", "DeliveryTag">>, <<"MessageFormat", "MessageFormat">>,
    <<"Settled", "boolean">>, <<"More", "boolean">>,
    <<"RcvSettleMode", "ReceiverSettleMode">>, <<"State", "state">>,
    <<"Resume", "boolean">>, <<"Aborted", "boolean">>,
    <<"Batchable", "boolean">>>>)

Disposition ==
  Composite(21,
  <<<<"Role", "Role", "mandatory">>,
    <<"First", "DeliveryNumber", "mandatory">>,
    <<"Last", "DeliveryNumber">>, <<"Settled", "boolean">>,
    <<"State", "state">>, <<"Batchable", "boolean">>>>)

Detach ==
  Composite(22,
  <<<<"Handle", "Handle", "mandatory">>, <<"Closed", "boolean">>,
    <<"Error", "Error">>>>)

End ==
  Composite(23,
  <<<<"Error", "Error">>>>)

Close ==
  Composite(24,
  <<<<"Error", "Error">>>>)

Error ==
  Composite(29,
  <<<<"Condition", "condition", "mandatory">>, <<"Description", "string">>,
    <<"Info", "map">>>>)

Header ==
  Composite(112,
  <<<<"Durable", "boolean">>, <<"Priority", "ubyte">>,
    <<"Ttl", "Milliseconds">>, <<"FirstAcquirer", "boolean">>,
    <<"DeliveryCount", "uint">>>>)

Properties ==
  Composite(115,
  <<<<"MessageID", "messageid">>, <<"UserID", "binary">>,
    <<"To", "address">>, <<"Subject", "string">>, <<"ReplyTo", "address">>,
    <<"CorrelationID", "messageid">>, <<"ContentType", "symbol">>,
    <<"ContentEncoding", "symbol">>, <<"AbsoluteExpiryTime", "timestamp">>,
    <<"CreationTime", "timestamp">>, <<"GroupID", "string">>,
    <<"GroupSequence", "SequenceNo">>, <<"ReplyToGroupID", "string">>>>)

Received ==
  Composite(35,
  <<<<"SectionNumber", "uint", "mandatory">>,
    <<"SectionOffset", "ulong", "mandatory">>>>)

Accepted == Composite(36, <<>>)

Rejected ==
  Composite(37,
  <<<<"Error", "Error">>>>)

Released == Composite(38, <<>>)

Modified ==
  Composite(39,
  <<<<"DeliveryFailed", "boolean">>, <<"UndeliverableHere", "boolean">>,
    <<"MessageAnnotations", "map">>>>)

Source ==
  Composite(40,
  <<<<"Address", "address">>, <<"Durable", "TerminusDurability">>,
    <<"ExpiryPolicy", "TerminusExpiryPolicy">>, <<"Timeout", "Seconds">>,
    <<"Dynamic", "boolean">>, <<"DynamicNodeProperties", "map">>,
    <<"DistributionMode", "symbol">>, <<"Filter", "map">>,
    <<"DefaultOutcome", "outcome">>, <<"Outcomes", "symbols">>,
    <<"Capabilities", "symbols">>>>)

Target ==
  Composite(41,
  <<<<"Address", "address">>, <<"Durable", "TerminusDurability">>,
    <<"ExpiryPolicy", "TerminusExpiryPolicy">>, <<"Timeout", "Seconds">>,
    <<"Dynamic", "boolean">>, <<"DynamicNodeProperties", "map">>,
    <<"Capabilities", "symbols">>>>)

DeleteOnClose == Composite(43, <<>>)

DeleteOnNoLinks == Composite(44, <<>>)

DeleteOnNoMessages == Composite(45, <<>>)

DeleteOnNoLinksOrMessages == Composite(46, <<>>)

SASLMechanisms ==
  Composite(64,
  <<<<"SASLServerMechanisms", "symbols", "mandatory">>>>)

SASLInit ==
  Composite(65,
  <<<<"Mechanism", "symbol", "mandatory">>, <<"InitialResponse", "binary">>,
    <<"Hostname", "string">>>>)

SASLChallenge ==
  Composite(66,
  <<<<"Challenge", "binary", "mandatory">>>>)

SASLResponse ==
  Composite(67,
  <<<<"Response", "binary", "mandatory">>>>)

SASLOutcome ==
  Composite(68,
  <<<<"Code", "SASLCode", "mandatory">>, <<"AdditionalData", "binary">>>>)

-----------------------------------------------------------------------------
NamedTypes ==
  [Role |-> Role,
   SenderSettleMode |-> SenderSettleMode,
   ReceiverSettleMode |-> ReceiverSettleMode,
   Handle |-> Handle,
   Seconds |-> Seconds,
   Milliseconds |-> Milliseconds,
   DeliveryTag |-> DeliveryTag,
   DeliveryNumber |-> DeliveryNumber,
   TransferNumber |-> TransferNumber,
   SequenceNo |-> SequenceNo,
   MessageFormat |-> MessageFormat,
   TerminusDurability |-> TerminusDurability,
   TerminusExpiryPolicy |-> TerminusExpiryPolicy,
   SASLCode |-> SASLCode,
   RemoteChannel |-> RemoteChannel]

Composites ==
  [Open |-> Open,
   Begin |-> Begin,
   Attach |-> Attach,
   Flow |-> Flow,
   Transfer |-> Transfer,
   Disposition |-> Disposition,
   Detach |-> Detach,
   End |-> End,
   Close |-> Close,
   Error |-> Error,
   Header |-> Header,
   Properties |-> Properties,
   Received |-> Received,
   Accepted |-> Accepted,
   Rejected |-> Rejected,
   Released |-> Released,
   Modified |-> Modified,
   Source |-> Source,
   Target |-> Target,
   DeleteOnClose |-> DeleteOnClose,
   DeleteOnNoLinks |-> DeleteOnNoLinks,
   DeleteOnNoMessages |-> DeleteOnNoMessages,
   DeleteOnNoLinksOrMessages |-> DeleteOnNoLinksOrMessages,
   SASLMechanisms |-> SASLMechanisms,
   SASLInit |-> SASLInit,
   SASLChallenge |-> SASLChallenge,
   SASLResponse |-> SASLResponse,
   SASLOutcome |-> SASLOutcome]

(* Sections of a message that are one map or one binary. *)
DeliveryAnnotations == [descriptor |-> <<113>>, content |-> "map"]

MessageAnnotations == [descriptor |-> <<114>>, content |-> "map"]

ApplicationProperties == [descriptor |-> <<116>>, content |-> "map"]

Data == [descriptor |-> <<117>>, content |-> "binary"]

Footer == [descriptor |-> <<120>>, content |-> "map"]

PlainSections ==
  [DeliveryAnnotations |-> DeliveryAnnotations,
   MessageAnnotations |-> MessageAnnotations,
   ApplicationProperties |-> ApplicationProperties,
   Data |-> Data,
   Footer |-> Footer]
=============================================================================
