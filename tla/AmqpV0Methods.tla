--------------------------- MODULE AmqpV0Methods ----------------------------
(***************************************************************************)
(* The methods of AMQP 0-9-1, amqp/v0/amqp0-9-1.go: the class and method   *)
(* number FixMethodMeta sets and the fields in the order Unmarshal reads   *)
(* and MarshalBuffer writes them.  A number is written as its bytes, see   *)
(* Octets.                                                                 *)
(***************************************************************************)

Method(class, method, fields) == [class |-> class, method |-> method, fields |-> fields]

ConnectionStart ==
  Method(<<10>>, <<10>>,
  <<<<"VersionMajor", "octet">>, <<"VersionMinor", "octet">>,
    <<"ServerProperties", "table">>, <<"Mechanisms", "longstr">>,
    <<"Locales", "longstr">>>>)

ConnectionStartOk ==
  Method(<<10>>, <<11>>,
  <<<<"ClientProperties", "table">>, <<"Mechanism", "shortstr">>,
    <<"Response", "longstr">>, <<"Locale", "shortstr">>>>)

ConnectionSecure ==
  Method(<<10>>, <<20>>,
  <<<<"Challenge", "longstr">>>>)

ConnectionSecureOk ==
  Method(<<10>>, <<21>>,
  <<<<"Response", "longstr">>>>)

ConnectionTune ==
  Method(<<10>>, <<30>>,
  <<<<"ChannelMax", "short">>, <<"FrameMax", "long">>,
    <<"Heartbeat", "short">>>>)

ConnectionTuneOk ==
  Method(<<10>>, <<31>>,
  <<<<"ChannelMax", "short">>, <<"FrameMax", "long">>,
    <<"Heartbeat", "short">>>>)

ConnectionOpen ==
  Method(<<10>>, <<40>>,
  <<<<"VirtualHost", "shortstr">>, <<"Reserved1", "shortstr">>,
    <<"Reserved2", "bit">>>>)

ConnectionOpenOk ==
  Method(<<10>>, <<41>>,
  <<<<"Reserved1", "shortstr">>>>)

ConnectionClose ==
  Method(<<10>>, <<50>>,
  <<<<"ReplyCode", "short">>, <<"ReplyText", "shortstr">>,
    <<"ClassID", "short">>, <<"MethodID", "short">>>>)

ConnectionCloseOk == Method(<<10>>, <<51>>, <<>>)

ChannelOpen ==
  Method(<<20>>, <<10>>,
  <<<<"Reserved1", "shortstr">>>>)

ChannelOpenOk ==
  Method(<<20>>, <<11>>,
  <<<<"Reserved1", "longstr">>>>)

ChannelFlow ==
  Method(<<20>>, <<20>>,
  <<<<"Active", "bit">>>>)

ChannelFlowOk ==
  Method(<<20>>, <<21>>,
  <<<<"Active", "bit">>>>)

ChannelClose ==
  Method(<<20>>, <<40>>,
  <<<<"ReplyCode", "short">>, <<"ReplyText", "shortstr">>,
    <<"ClassID", "short">>, <<"MethodID", "short">>>>)

ChannelCloseOk == Method(<<20>>, <<41>>, <<>>)

ExchangeDeclare ==
  Method(<<40>>, <<10>>,
  <<<<"Reserved1", "short">>, <<"Exchange", "shortstr">>,
    <<"Type", "shortstr">>, <<"Passive", "bit">>, <<"Durable", "bit">>,
    <<"AutoDelete", "bit">>, <<"Internal", "bit">>, <<"NoWait", "bit">>,
    <<"Arguments", "table">>>>)

ExchangeDeclareOk == Method(<<40>>, <<11>>, <<>>)

ExchangeDelete ==
  Method(<<40>>, <<20>>,
  <<<<"Reserved1", "short">>, <<"Exchange", "shortstr">>,
    <<"IfUnused", "bit">>, <<"NoWait", "bit">>>>)

ExchangeDeleteOk == Method(<<40>>, <<21>>, <<>>)

QueueDeclare ==
  Method(<<50>>, <<10>>,
  <<<<"Reserved1", "short">>, <<"Queue", "shortstr">>,
    <<"Passive", "bit">>, <<"Durable", "bit">>, <<"Exclusive", "bit">>,
    <<"AutoDelete", "bit">>, <<"NoWait", "bit">>,
    <<"Arguments", "table">>>>)

QueueDeclareOk ==
  Method(<<50>>, <<11>>,
  <<<<"Queue", "shortstr">>, <<"MessageCount", "long">>,
    <<"ConsumerCount", "long">>>>)

QueueBind ==
  Method(<<50>>, <<20>>,
  <<<<"Reserved1", "short">>, <<"Queue", "shortstr">>,
    <<"Exchange", "shortstr">>, <<"RoutingKey", "shortstr">>,
    <<"NoWait", "bit">>, <<"Arguments", "table">>>>)

QueueBindOk == Method(<<50>>, <<21>>, <<>>)

QueueUnbind ==
  Method(<<50>>, <<50>>,
  <<<<"Reserved1", "short">>, <<"Queue", "shortstr">>,
    <<"Exchange", "shortstr">>, <<"RoutingKey", "shortstr">>,
    <<"Arguments", "table">>>>)

QueueUnbindOk == Method(<<50>>, <<51>>, <<>>)

QueuePurge ==
  Method(<<50>>, <<30>>,
  <<<<"Reserved1", "short">>, <<"Queue", "shortstr">>,
    <<"NoWait", "bit">>>>)

QueuePurgeOk ==
  Method(<<50>>, <<31>>,
  <<<<"MessageCount", "long">>>>)

QueueDelete ==
  Method(<<50>>, <<40>>,
  <<<<"Reserved1", "short">>, <<"Queue", "shortstr">>,
    <<"IfUnused", "bit">>, <<"IfEmpty", "bit">>, <<"NoWait", "bit">>>>)

QueueDeleteOk ==
  Method(<<50>>, <<41>>,
  <<<<"MessageCount", "long">>>>)

BasicQos ==
  Method(<<60>>, <<10>>,
  <<<<"PrefetchSize", "long">>, <<"PrefetchCount", "short">>,
    <<"Global", "bit">>>>)

BasicQosOk == Method(<<60>>, <<11>>, <<>>)

BasicConsume ==
  Method(<<60>>, <<20>>,
  <<<<"Reserved1", "short">>, <<"Queue", "shortstr">>,
    <<"ConsumerTag", "shortstr">>, <<"NoLocal", "bit">>,
    <<"NoAck", "bit">>, <<"Exclusive", "bit">>, <<"NoWait", "bit">>,
    <<"Arguments", "table">>>>)

BasicConsumeOk ==
  Method(<<60>>, <<21>>,
  <<<<"ConsumerTag", "shortstr">>>>)

BasicCancel ==
  Method(<<60>>, <<30>>,
  <<<<"ConsumerTag", "shortstr">>, <<"NoWait", "bit">>>>)

BasicCancelOk ==
  Method(<<60>>, <<31>>,
  <<<<"ConsumerTag", "shortstr">>>>)

BasicPublish ==
  Method(<<60>>, <<40>>,
  <<<<"Reserved1", "short">>, <<"Exchange", "shortstr">>,
    <<"RoutingKey", "shortstr">>, <<"Mandatory", "bit">>,
    <<"Immediate", "bit">>>>)

BasicReturn ==
  Method(<<60>>, <<50>>,
  <<<<"ReplyCode", "short">>, <<"ReplyText", "shortstr">>,
    <<"Exchange", "shortstr">>, <<"RoutingKey", "shortstr">>>>)

BasicDeliver ==
  Method(<<60>>, <<60>>,
  <<<<"ConsumerTag", "shortstr">>, <<"DeliveryTag", "longlong">>,
    <<"Redelivered", "bit">>, <<"Exchange", "shortstr">>,
    <<"RoutingKey", "shortstr">>>>)

BasicGet ==
  Method(<<60>>, <<70>>,
  <<<<"Reserved1", "short">>, <<"Queue", "shortstr">>,
    <<"NoAck", "bit">>>>)

BasicGetOk ==
  Method(<<60>>, <<71>>,
  <<<<"DeliveryTag", "longlong">>, <<"Redelivered", "bit">>,
    <<"Exchange", "shortstr">>, <<"RoutingKey", "shortstr">>,
    <<"MessageCount", "long">>>>)

BasicGetEmpty ==
  Method(<<60>>, <<72>>,
  <<<<"Reserved1", "shortstr">>>>)

BasicAck ==
  Method(<<60>>, <<80>>,
  <<<<"DeliveryTag", "longlong">>, <<"Multiple", "bit">>>>)

BasicReject ==
  Method(<<60>>, <<90>>,
  <<<<"DeliveryTag", "longlong">>, <<"Requeue", "bit">>>>)

BasicRecoverAsync ==
  Method(<<60>>, <<100>>,
  <<<<"Requeue", "bit">>>>)

BasicRecover ==
  Method(<<60>>, <<110>>,
  <<<<"Requeue", "bit">>>>)

BasicRecoverOk == Method(<<60>>, <<111>>, <<>>)

BasicNack ==
  Method(<<60>>, <<120>>,
  <<<<"DeliveryTag", "longlong">>, <<"Multiple", "bit">>,
    <<"Requeue", "bit">>>>)

TxSelect == Method(<<90>>, <<10>>, <<>>)

TxSelectOk == Method(<<90>>, <<11>>, <<>>)

TxCommit == Method(<<90>>, <<20>>, <<>>)

TxCommitOk == Method(<<90>>, <<21>>, <<>>)

TxRollback == Method(<<90>>, <<30>>, <<>>)

TxRollbackOk == Method(<<90>>, <<31>>, <<>>)

(* The properties of a content header, in the order of their flags. *)
ContentHeader ==
  Method(<<60>>, <<>>,
  <<<<"ContentType", "shortstr">>,
    <<"ContentEncoding", "shortstr">>,
    <<"Headers", "table">>,
    <<"DeliveryMode", "octet">>,
    <<"Priority", "octet">>,
    <<"CorrelationID", "shortstr">>,
    <<"ReplyTo", "shortstr">>,
    <<"Expiration", "shortstr">>,
    <<"MessageID", "shortstr">>,
    <<"Timestamp", "timestamp">>,
    <<"Type", "shortstr">>,
    <<"UserID", "shortstr">>,
    <<"AppID", "shortstr">>,
    <<"Reserved", "shortstr">>>>)

(* decodeMethodFrame finds a method by its two numbers. *)
Methods ==
  [ConnectionStart |-> ConnectionStart,
   ConnectionStartOk |-> ConnectionStartOk,
   ConnectionSecure |-> ConnectionSecure,
   ConnectionSecureOk |-> ConnectionSecureOk,
   ConnectionTune |-> ConnectionTune,
   ConnectionTuneOk |-> ConnectionTuneOk,
   ConnectionOpen |-> ConnectionOpen,
   ConnectionOpenOk |-> ConnectionOpenOk,
   ConnectionClose |-> ConnectionClose,
   ConnectionCloseOk |-> ConnectionCloseOk,
   ChannelOpen |-> ChannelOpen,
   ChannelOpenOk |-> ChannelOpenOk,
   ChannelFlow |-> ChannelFlow,
   ChannelFlowOk |-> ChannelFlowOk,
   ChannelClose |-> ChannelClose,
   ChannelCloseOk |-> ChannelCloseOk,
   ExchangeDeclare |-> ExchangeDeclare,
   ExchangeDeclareOk |-> ExchangeDeclareOk,
   ExchangeDelete |-> ExchangeDelete,
   ExchangeDeleteOk |-> ExchangeDeleteOk,
   QueueDeclare |-> QueueDeclare,
   QueueDeclareOk |-> QueueDeclareOk,
   QueueBind |-> QueueBind,
   QueueBindOk |-> QueueBindOk,
   QueueUnbind |-> QueueUnbind,
   QueueUnbindOk |-> QueueUnbindOk,
   QueuePurge |-> QueuePurge,
   QueuePurgeOk |-> QueuePurgeOk,
   QueueDelete |-> QueueDelete,
   QueueDeleteOk |-> QueueDeleteOk,
   BasicQos |-> BasicQos,
   BasicQosOk |-> BasicQosOk,
   BasicConsume |-> BasicConsume,
   BasicConsumeOk |-> BasicConsumeOk,
   BasicCancel |-> BasicCancel,
   BasicCancelOk |-> BasicCancelOk,
   BasicPublish |-> BasicPublish,
   BasicReturn |-> BasicReturn,
   BasicDeliver |-> BasicDeliver,
   BasicGet |-> BasicGet,
   BasicGetOk |-> BasicGetOk,
   BasicGetEmpty |-> BasicGetEmpty,
   BasicAck |-> BasicAck,
   BasicReject |-> BasicReject,
   BasicRecoverAsync |-> BasicRecoverAsync,
   BasicRecover |-> BasicRecover,
   BasicRecoverOk |-> BasicRecoverOk,
   BasicNack |-> BasicNack,
   TxSelect |-> TxSelect,
   TxSelectOk |-> TxSelectOk,
   TxCommit |-> TxCommit,
   TxCommitOk |-> TxCommitOk,
   TxRollback |-> TxRollback,
   TxRollbackOk |-> TxRollbackOk]
=============================================================================
