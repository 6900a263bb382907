---------------------------- MODULE RequestGate ----------------------------
(***************************************************************************)
(* What stands between a request and its handler, and what a client reads  *)
(* off the answer: UploadInterceptor, the validation pipe with the         *)
(* decorators its dtos are made of, and the exception filters.  Operators  *)
(* only.                                                                   *)
(*                                                                         *)
(* A field of a form or of a query is the sequence of its parts, <<>> if   *)
(* it is not there: a client may send one name twice, which gives handlers *)
(* an array.  A part of a form is a text or the type of a file.  A JSON body  *)
(* is a function from the names of its fields to values.                   *)
(***************************************************************************)
EXTENDS Naturals, Sequences, Functions

Absent == <<>>

MimetypeImage == {"image"}
Files == MimetypeImage \cup {"text/csv"}

\* content-type must be multipart/form-data
UploadInterceptor(form) == form.multipart

\* @Transform(value => value.value): of a file, or of an array, there is none.
TextOf(field) ==
  IF Len(field) = 1 /\ field[1] \notin Files THEN field ELSE Absent

\* IsNumberString behind IsOptional
IsSwaggerStringNumber(field, numbers) == field # Absent => field[1] \in numbers

\* Each part has one of the types; a text has a type of its own.
IsContainMimeType(field, types) ==
  field # Absent /\ \A i \in DOMAIN field : field[i] \in types

\* IsDefined or IsOptional, with the types
IsSwaggerFile(required, field, types) ==
  (required \/ field # Absent) => IsContainMimeType(field, types)

\* Type(() => Number), IsInt, Max and Min behind IsOptional.  An array is no
\* integer.
ApiPaginateLimit(field, max) ==
  field # Absent => Len(field) = 1 /\ field[1] \in 1..max

---------------------------------------------------------------------------
(* Bodies.  A value is "text" (of the type declared: hashtag has a list of   *)
(* them), "wrong", "null", or the value of an enum.                          *)

Missing(body, f) == f \notin DOMAIN body \/ body[f] = "null"

\* IsDefined or IsOptional, with IsString or IsEnum
IsSwaggerString(required, body, f) == IF Missing(body, f) THEN ~required ELSE body[f] = "text"
IsSwaggerEnum(required, body, f, values) ==
  IF Missing(body, f) THEN ~required ELSE body[f] \in values

\* Variant: { whitelist: false }.
Whitelist_Off(body, fields) == body

\* AbstractValidationPipe, { whitelist: true }: what the dto does not declare
\* is left out without a word.
Whitelist(body, fields) == Restrict(body, fields \cap DOMAIN body)

---------------------------------------------------------------------------
(* Queries: PaginationQueryDto.  A date is its time, 0 for what is none; a   *)
(* sort is [json, keys].                                                     *)

\* Transforms that throw, in the pipe: JSON.parse of the sort, and the
\* toLowerCase of filter and search, which an array does not have.
Transforms(query) ==
  /\ query.sort # Absent => Len(query.sort) = 1 /\ query.sort[1].json
  /\ Len(query.filter) <= 1 /\ Len(query.search) <= 1

\* Invalid dates compare with nothing.
IsLargeThan(to, from) == from[1] # 0 /\ to[1] > from[1]

\* ValidateIf: `to` is looked at only beside a `from`; `from` alone may be
\* anything.
PaginationRange(from, to) == from # Absent /\ to # Absent => IsLargeThan(to, from)

IsSortedOn(sort, enum) == sort # Absent => sort[1].keys \subseteq enum

\* value && value === 'true': a boolean, or the empty text itself.
IsBooleanText(field) == field # <<"">>

\* What the pipe answers, 200 standing for the handler.
PaginationQuery(query, sortEnum, maxPage, maxSize) ==
  IF ~Transforms(query) THEN 500
  ELSE IF /\ ApiPaginateLimit(query.page, maxPage) /\ ApiPaginateLimit(query.size, maxSize)
          /\ PaginationRange(query.from, query.to)
          /\ IsSortedOn(query.sort, sortEnum)
          /\ IsBooleanText(query.export)
       THEN 200 ELSE 400

---------------------------------------------------------------------------
(* The filters *)

\* PrismaClientExceptionFilter
PrismaStatus(code) ==
  CASE code = "P2000" -> 400
    [] code = "P2002" -> 409
    [] code = "P2025" -> 404
    [] OTHER -> 500

\* HttpExceptionFilter answers with the status of the exception; what is no
\* HttpException and no Prisma error is left to Nest and gives 500.
Status(code) ==
  IF code = "PHONE_EXISTED" THEN 409 ELSE PrismaStatus(code)
===========================================================================
