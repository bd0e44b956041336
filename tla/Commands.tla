------------------------------ MODULE Commands ------------------------------
(***************************************************************************)
(* The commands of czip-compressor: what each of them, which module        *)
(* Originals lists, writes to a new buffer.                                *)
(***************************************************************************)
EXTENDS Encoder, Originals

Method(request) ==
    IF request.command \in {"any", "extras"} THEN METHOD_DECODE_ANY ELSE request.method

EncodedExtras(buf, request) ==
    LET data == Whole(request.data)
    IN  CASE request.flag = "words" -> WriteNWords(buf, request.data)
          [] request.flag = "branch" -> WriteSequenceBranchSignaturePart(buf, data)
          [] request.flag = "chained" -> WriteSequenceChainedSignature(buf, data)
          [] request.flag = "signature" -> WriteSequenceSignature(buf, data, FALSE)
          [] request.flag = "dynamic" ->
                WriteSequenceDynamicSignaturePart(buf, request.address, request.weight, data)
          [] request.flag = "nested" ->
                WriteSequenceNestedSignaturePart(buf, request.weight, request.threshold, data)
          [] request.flag = "execute" -> WriteSequenceExecuteFlag(buf, request.execution)
          [] request.flag = "self" -> WriteSequenceSelfExecuteFlag(buf, request.execution)

Encoded(request, settings) ==
    LET buf == NewBuffer(Method(request), settings)
    IN  CASE request.command = "any" -> WriteBytesOptimized(buf, Whole(request.data), TRUE)
          [] request.command = "call" -> WriteCall(buf, request.to, request.data)
          [] request.command = "calls" -> WriteCalls(buf, request.tos, request.datas)
          [] request.command = "sequence" ->
                WriteSequenceExecuteTo(buf, request.to, request.execution)
          [] request.command = "extras" -> EncodedExtras(buf, request)
=============================================================================
