SPECIFICATION HeadersSpec
CONSTANTS
  AmzHeadersCount = 5
  SortedCount = 6
  RawSize = 32
  StandardSize = 8
  QuerySize = 17
  UriSize = 20
  S3_MAX_METADATA_COUNT = 3
  SizeofNameValue = 16
  PropertyStringsSize = 9
  MetaDataStringsSize = 10
  Requests <- MCRequests
  ForeignMetaData <- MCForeignMetaData
  Redirects <- MCRedirects
  Answers <- MCAnswers
  Trailers <- MCTrailers
  MaxRedirects = 1
INVARIANTS
  MetaDataReadBack
  PropertiesAsAnswered
PROPERTY SignatureTaken
